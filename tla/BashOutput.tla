------------------------------ MODULE BashOutput ------------------------------
(***************************************************************************)
(* DenoBashOutputStore: the spool that keeps the truncated output of bash   *)
(* calls for bash_output.  One unlinked temporary file holds the extents of *)
(* every command of the Registry; quotas bound a command, the Registry and  *)
(* the retained streams; the output of a cancelled call is abandoned and    *)
(* the file is compacted.  Every operation runs under one mutex, so each is *)
(* one action; the calls of several tool uses interleave between them.      *)
(*                                                                         *)
(* A byte is <<command, stream, index, lead>>; lead marks the first byte of *)
(* a UTF-8 scalar, which is one or two bytes long here.                     *)
(***************************************************************************)
EXTENDS Integers, Sequences, FiniteSets, FiniteSetsExt, SequencesExt, Functions

CONSTANTS Cmds, Streams,
          CommandLimit, RegistryLimit, StreamLimit, Segment,
          MinWindow,   \* BASH_OUTPUT_MIN_WINDOW_BYTES
          MaxProduced, \* bound: bytes one stream produces
          Texts        \* what one append carries: sequences of lead flags

ASSUME LimitsAssumption ==
  /\ {CommandLimit, RegistryLimit, StreamLimit, Segment, MinWindow} \subseteq Nat \ {0}
  /\ MaxProduced \in Nat
  /\ Texts \subseteq Seq(BOOLEAN)

VARIABLES
  use,      \* the tool's use of each capture
  command,  \* BashOutputCommandRecord and its membership in commands
  record,   \* BashOutputStreamRecord; in is membership in streams
  spool,    \* the file, and fileOffset
  registryBytes, retainedStreams,
  closed,
  produced, \* history: the bytes handed to append while it took them
  failure   \* history: the worst write that has failed

counts == <<registryBytes, retainedStreams>>
vars == <<use, command, record, spool, counts, closed, produced, failure>>

NoRecord == [in |-> FALSE, extents |-> << >>, buffer |-> << >>, total |-> 0, persisted |-> 0]

Init ==
  /\ use = [c \in Cmds |-> "none"]
  /\ command = [c \in Cmds |-> [in |-> FALSE, bytes |-> 0, finalized |-> FALSE,
                                failed |-> FALSE, limit |-> FALSE]]
  /\ record = [c \in Cmds |-> [s \in Streams |-> NoRecord]]
  /\ spool = [file |-> << >>, end |-> 0]
  /\ registryBytes = 0 /\ retainedStreams = 0
  /\ closed = FALSE
  /\ produced = [c \in Cmds |-> [s \in Streams |-> << >>]]
  /\ failure = "none"

Registered == {c \in Cmds : command[c].in}
Present(c) == {s \in Streams : record[c][s].in}

TypeOK ==
  /\ use \in [Cmds -> {"none", "open", "finished", "returned", "abandoned"}]
  /\ command \in [Cmds -> [in : BOOLEAN, bytes : 0 .. CommandLimit, finalized : BOOLEAN,
                           failed : BOOLEAN, limit : BOOLEAN]]
  /\ registryBytes \in 0 .. RegistryLimit
  /\ retainedStreams \in 0 .. StreamLimit
  /\ spool.end \in 0 .. Len(spool.file)
  /\ failure \in {"none", "write", "compaction"}
  /\ \A c \in Cmds, s \in Streams :
       /\ record[c][s].persisted <= record[c][s].total
       /\ Len(record[c][s].buffer) < Segment

-----------------------------------------------------------------------------
(* Bytes, extents and the file.                                            *)

\* scalarBoundaryPrefix: at most max bytes, cut where a scalar begins.
ScalarPrefix(bytes, max) ==
  IF Len(bytes) <= max THEN bytes
  ELSE SubSeq(bytes, 1, CHOOSE n \in 0 .. max :
                          /\ bytes[n + 1][4]
                          /\ \A m \in n + 1 .. max : ~bytes[m + 1][4])

\* seek and writeAll.
Overwrite(file, at, bytes) ==
  [i \in 1 .. IF at + Len(bytes) > Len(file) THEN at + Len(bytes) ELSE Len(file) |->
     IF i > at /\ i <= at + Len(bytes) THEN bytes[i - at] ELSE file[i]]

\* The first n pieces of size bytes of the buffer of r go to the end of the file.
Persist(r, sp, size, n) ==
  [r |-> [r EXCEPT !.extents = @ \o [k \in 1 .. n |->
                                   [at |-> r.persisted + (k - 1) * size,
                                    file |-> sp.end + (k - 1) * size, len |-> size]],
                   !.buffer = SubSeq(@, n * size + 1, Len(@)),
                   !.persisted = @ + n * size],
   sp |-> [file |-> Overwrite(sp.file, sp.end, SubSeq(r.buffer, 1, n * size)),
           end |-> sp.end + n * size]]

\* A write that fails after some bytes leaves them beyond the end.
Torn(sp, bytes) == {[sp EXCEPT !.file = Overwrite(@, sp.end, SubSeq(bytes, 1, p))] :
                      p \in 0 .. Len(bytes) - 1}

\* readRecordRange: what the extents of r hold for [offset, offset + length).
ReadRange(r, offset, length) ==
  LET Max2(a, b) == IF a > b THEN a ELSE b
      Min2(a, b) == IF a < b THEN a ELSE b
      part(e) == LET start == Max2(offset, e.at)
                     stop  == Min2(offset + length, e.at + e.len)
                 IN  IF start >= stop THEN << >>
                     ELSE SubSeq(spool.file, e.file + start - e.at + 1, e.file + stop - e.at)
  IN  FoldLeft(LAMBDA acc, e : acc \o part(e), << >>, r.extents)

MutantWindow(r, offset, limit) ==
  ReadRange(r, offset, IF limit < r.total - offset THEN limit ELSE r.total - offset)

\* A window ends where its last scalar is whole, unless it reaches the end.
Window(r, offset, limit) ==
  LET left == r.total - offset
      asked == ReadRange(r, offset, IF limit < left THEN limit ELSE left)
      whole(n) == n = 0 \/ n = left \/ ReadRange(r, offset + n, 1)[1][4]
  IN  IF limit >= left THEN asked
      ELSE SubSeq(asked, 1, CHOOSE n \in 0 .. Len(asked) :
                              whole(n) /\ \A m \in n + 1 .. Len(asked) : ~whole(m))

-----------------------------------------------------------------------------
(* The operations.                                                         *)

\* markFailed: the record of the command stays in commands and in the counts.
Fail(c) ==
  /\ command' = [command EXCEPT ![c].failed = TRUE, ![c].finalized = TRUE]
  /\ record' = [record EXCEPT ![c] = [s \in Streams |-> NoRecord]]

BeginCommand(c) ==
  /\ ~closed /\ use[c] = "none"
  /\ use' = [use EXCEPT ![c] = "open"]
  /\ command' = [command EXCEPT ![c].in = TRUE]
  /\ UNCHANGED <<record, spool, counts, closed, produced, failure>>

NewBytes(c, s, t) == [i \in 1 .. Len(t) |-> <<c, s, Len(produced[c][s]) + i, t[i]>>]

Smaller(a, b) == IF a < b THEN a ELSE b

Available(c) == Smaller(CommandLimit - command[c].bytes, RegistryLimit - registryBytes)

\* History of a failed append or flush.
Worse(f) == IF failure = "compaction" THEN failure ELSE f

AcceptNothing(c) ==
  /\ command' = [command EXCEPT ![c].limit = TRUE]
  /\ UNCHANGED <<record, spool, counts, failure>>

\* The accepted prefix is counted, buffered and persisted in whole segments;
\* a failed write drops the streams of the command.
Accept(c, s, bytes) ==
  LET accepted == ScalarPrefix(bytes, Available(c))
      n == Len(accepted)
      r == [record[c][s] EXCEPT !.in = TRUE, !.total = @ + n, !.buffer = @ \o accepted]
      pieces == Len(r.buffer) \div Segment
      counted == [command EXCEPT ![c].bytes = @ + n, ![c].limit = n < Len(bytes)]
  IN  IF n = 0 THEN AcceptNothing(c)
      ELSE /\ registryBytes' = registryBytes + n
           /\ retainedStreams' = retainedStreams + (IF record[c][s].in THEN 0 ELSE 1)
           /\ \/ LET done == Persist(r, spool, Segment, pieces)
                 IN  /\ record' = [record EXCEPT ![c][s] = done.r]
                     /\ spool' = done.sp
                     /\ command' = counted
                     /\ UNCHANGED failure
              \/ /\ \E j \in 0 .. pieces - 1 :
                      LET done == Persist(r, spool, Segment, j)
                      IN  spool' \in Torn(done.sp, SubSeq(done.r.buffer, 1, Segment))
                 /\ command' = [counted EXCEPT ![c].failed = TRUE, ![c].finalized = TRUE,
                                               ![c].limit = FALSE]
                 /\ record' = [record EXCEPT ![c] = [x \in Streams |-> NoRecord]]
                 /\ failure' = Worse("write")

Takes(c) == ~(closed \/ command[c].failed \/ command[c].finalized) /\ ~command[c].limit

Produce(c, s, t) == produced' = [produced EXCEPT ![c][s] = @ \o NewBytes(c, s, t)]

\* append, which the call's drains make until the capture is finished or abandoned; one
\* to a command that takes nothing any more changes nothing.
Append1(c, s, t) ==
  /\ use[c] = "open"
  /\ Len(produced[c][s]) + Len(t) <= MaxProduced
  /\ \/ /\ closed \/ command[c].failed
        /\ Fail(c)
        /\ UNCHANGED <<spool, counts, produced, failure>>
     \/ /\ Takes(c)
        /\ \/ Available(c) <= 0 \/ (~record[c][s].in /\ retainedStreams >= StreamLimit)
        /\ AcceptNothing(c) /\ Produce(c, s, t)
     \/ /\ Takes(c)
        /\ Available(c) > 0 /\ (record[c][s].in \/ retainedStreams < StreamLimit)
        /\ Accept(c, s, NewBytes(c, s, t)) /\ Produce(c, s, t)
  /\ UNCHANGED <<use, closed>>

FlushOne(acc, s) ==
  LET r == acc.rec[s]
      done == Persist(r, acc.sp, Len(r.buffer), 1)
  IN  IF r.buffer = << >> THEN acc ELSE [rec |-> [acc.rec EXCEPT ![s] = done.r], sp |-> done.sp]

\* flush every record of the command, in the order ss.
Flush(c, ss) == FoldLeft(FlushOne, [rec |-> record[c], sp |-> spool], ss)

Order == SetToSeq(Streams)

\* finish: flush what is buffered; a command without streams is forgotten.
Finish(c) ==
  /\ use[c] = "open"
  /\ use' = [use EXCEPT ![c] = "finished"]
  /\ \/ /\ closed \/ command[c].failed
        /\ Fail(c)
        /\ UNCHANGED <<spool, failure>>
     \/ /\ ~closed /\ ~command[c].failed
        /\ record' = [record EXCEPT ![c] = Flush(c, Order).rec]
        /\ spool' = Flush(c, Order).sp
        /\ command' = [command EXCEPT ![c].finalized = TRUE, ![c].in = Present(c) # {}]
        /\ UNCHANGED failure
     \/ /\ ~closed /\ ~command[c].failed
        /\ \E k \in 1 .. Len(Order) :
             LET done == Flush(c, SubSeq(Order, 1, k - 1))
                 buffer == done.rec[Order[k]].buffer
             IN  buffer # << >> /\ spool' \in Torn(done.sp, buffer)
        /\ Fail(c)
        /\ failure' = Worse("write")
  /\ UNCHANGED <<counts, closed, produced>>

\* The tool hands the result, with the identity of the saved output, to the turn.
Return(c) ==
  /\ use[c] = "finished"
  /\ use' = [use EXCEPT ![c] = "returned"]
  /\ UNCHANGED <<command, record, spool, counts, closed, produced, failure>>

\* Extents of the other commands in file order.
Extents(S) ==
  LET all == {<<c, s, k>> \in S \X Streams \X (1 .. MaxProduced) :
                k \in DOMAIN record[c][s].extents}
      file(x) == record[x[1]][x[2]].extents[x[3]].file
  IN  SetToSortSeq(all, LAMBDA x, y : file(x) < file(y))

MutantMove(acc, x) ==
  [acc EXCEPT !.rec[x[1]][x[2]].extents[x[3]].file = acc.to,
              !.to = @ + acc.rec[x[1]][x[2]].extents[x[3]].len]

\* One extent moves down to the target offset.
Move(acc, x) ==
  LET e == acc.rec[x[1]][x[2]].extents[x[3]]
  IN  [file |-> Overwrite(acc.file, acc.to, SubSeq(acc.file, e.file + 1, e.file + e.len)),
       rec  |-> [acc.rec EXCEPT ![x[1]][x[2]].extents[x[3]].file = acc.to],
       to   |-> acc.to + e.len]

Compact(xs) == FoldLeft(Move, [file |-> spool.file, rec |-> record, to |-> 0], xs)

MutantForget(c) ==
  /\ registryBytes' = registryBytes - command[c].bytes
  /\ UNCHANGED retainedStreams

\* The command leaves the map and the counts.
Forget(c) ==
  /\ registryBytes' = registryBytes - command[c].bytes
  /\ retainedStreams' = retainedStreams - Cardinality(Present(c))

Cleared(c, rec) == [rec EXCEPT ![c] = [s \in Streams |-> NoRecord]]

\* abandon: a cancelled call gives its output up, before or after finish.  A
\* compaction that fails has moved some extents and torn at most one.
Abandon(c) ==
  /\ use[c] \in {"open", "finished"}
  /\ use' = [use EXCEPT ![c] = "abandoned"]
  /\ \/ /\ ~command[c].in \/ closed \/ command[c].failed
        /\ UNCHANGED <<command, record, spool, counts, failure>>
     \/ /\ command[c].in /\ ~closed /\ ~command[c].failed
        /\ Forget(c)
        /\ LET xs == Extents(Registered \ {c}) IN
           \/ LET done == Compact(xs)
              IN  /\ spool' = [file |-> SubSeq(done.file, 1, done.to), end |-> done.to]
                  /\ record' = Cleared(c, done.rec)
                  /\ command' = [command EXCEPT ![c].in = FALSE, ![c].failed = TRUE,
                                                ![c].finalized = TRUE]
                  /\ UNCHANGED failure
           \/ /\ \E j \in 1 .. Len(xs) :
                   LET done == Compact(SubSeq(xs, 1, j - 1))
                       e == done.rec[xs[j][1]][xs[j][2]].extents[xs[j][3]]
                   IN  /\ done.to # e.file
                       /\ record' = done.rec
                       /\ \E p \in 0 .. e.len - 1 :
                            spool' = [spool EXCEPT !.file =
                              Overwrite(done.file, done.to, SubSeq(done.file, e.file + 1, e.file + p))]
              /\ command' = [command EXCEPT ![c].in = FALSE]
              /\ failure' = "compaction"
  /\ UNCHANGED <<closed, produced>>

\* The Registry ends.
Close ==
  /\ ~closed
  /\ closed' = TRUE
  /\ UNCHANGED <<use, command, record, spool, counts, produced, failure>>

Next ==
  \/ \E c \in Cmds :
       \/ BeginCommand(c) \/ Finish(c) \/ Return(c) \/ Abandon(c)
       \/ \E s \in Streams, t \in Texts : Append1(c, s, t)
  \/ Close

Spec == Init /\ [][Next]_vars

-----------------------------------------------------------------------------
(* Properties.                                                             *)

\* The records whose output is still promised to the tool or to a reader.
Kept == {x \in Cmds \X Streams :
           command[x[1]].in /\ ~command[x[1]].failed /\ record[x[1]][x[2]].in}

\* Everything accepted of a kept stream is in the file at its extents or in the
\* buffer, in order: no other command's segments, no failed append or flush of
\* another command and no compaction that succeeds changes what bash_output will
\* read.  (A compaction that fails may: it overwrites what it is moving.)
StoredIsReadable ==
  failure # "compaction" =>
    \A x \in Kept :
      LET r == record[x[1]][x[2]]
      IN  ReadRange(r, 0, r.persisted) \o r.buffer = SubSeq(produced[x[1]][x[2]], 1, r.total)

\* What is saved ends with a whole scalar, also where a quota cut it, and following
\* nextOffset from zero reads a finished stream to its end, whole scalars at a time
\* and never an empty window: the smallest window holds the widest scalar.
PagingProgresses ==
  \A x \in Kept :
    LET r == record[x[1]][x[2]]
        p == produced[x[1]][x[2]]
    IN  /\ r.total <= Len(p)
        /\ r.total < Len(p) => p[r.total + 1][4]
        /\ command[x[1]].finalized /\ ~closed /\ failure # "compaction" =>
             \A offset \in 0 .. r.total - 1, limit \in MinWindow .. MinWindow + 1 :
               p[offset + 1][4] =>
                 LET w == Window(r, offset, limit)
                 IN  /\ w # << >>
                     /\ w = SubSeq(p, offset + 1, offset + Len(w))
                     /\ offset + Len(w) < r.total => p[offset + Len(w) + 1][4]

\* Whatever write failed, in an append, a final flush or a compaction, the extents
\* of the kept streams lie in the file and no two of them overlap.  While no write
\* has failed the quota counts are those of the commands in the map, and the file
\* holds their extents and nothing else: abandoned space is given back at once.
SpaceIsAccounted ==
  /\ \A x, y \in Kept :
       \A i \in DOMAIN record[x[1]][x[2]].extents, j \in DOMAIN record[y[1]][y[2]].extents :
         LET a == record[x[1]][x[2]].extents[i]
             b == record[y[1]][y[2]].extents[j]
         IN  /\ a.file + a.len <= spool.end
             /\ <<x, i>> # <<y, j>> => a.file + a.len <= b.file \/ b.file + b.len <= a.file
  /\ ~closed /\ failure = "none" =>
       /\ registryBytes = MapThenSumSet(LAMBDA c : command[c].bytes, Registered)
       /\ retainedStreams = MapThenSumSet(LAMBDA c : Cardinality(Present(c)), Registered)
       /\ Len(spool.file) = spool.end
       /\ spool.end = MapThenSumSet(LAMBDA x : record[x[1]][x[2]].persisted, Registered \X Streams)

\* No quota is exceeded (part of the type) and the space is accounted for.
SpoolInvariant == TypeOK /\ SpaceIsAccounted

=============================================================================
