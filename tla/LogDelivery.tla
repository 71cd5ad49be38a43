---------------------------- MODULE LogDelivery ----------------------------
(***************************************************************************)
(* What PackageLog::stream promises its caller, whatever requests it takes:*)
(* the bytes of the build log from the caller's offset on, each position   *)
(* once and in order, up to the caller's end.  The log may be replaced by  *)
(* a new build's while it is read, or deleted and made again; the reader   *)
(* then goes on in the new log at the position it has reached, and never   *)
(* goes back to an older one.                                              *)
(* A stream that ends without having returned an error has reached the end *)
(* the caller asked for or the end of a log.                               *)
(***************************************************************************)
EXTENDS Naturals, Sequences

CONSTANTS
  Lengths,           \* lengths of logs, numbers
  ChunkSizes,        \* values of MockBuildLog::chunk_size, numbers or None
  Offsets, Ends,     \* the stream's options, numbers and numbers or None
  None               \* an option that is not given

VARIABLES
  logs,              \* the logs the server has had, oldest first
  opts,              \* the caller's options
  delivered,         \* the bytes the caller has been given
  erred,             \* the caller has been given an error
  done               \* the caller is finished with the stream

vars == <<logs, opts, delivered, erred, done>>

\* The latest_log None of a package that has a record but no log: an empty log.
NoLog == [length |-> 0, chunk_size |-> None]

Log == [length : Lengths, chunk_size : ChunkSizes] \cup {NoLog}
Options == [offset : Offsets, end : Ends]

\* A byte is known by its log and its position in it.
Bytes(v, from, n) == [i \in 1..n |-> [log |-> v, at |-> from + i - 1]]

Position == opts.offset + Len(delivered)

\* The log of the last byte delivered.
Reading == IF delivered = << >> THEN 0 ELSE delivered[Len(delivered)].log

Contents(v) == logs[v].length

\* A chunk_size of 0 makes every answer empty, which reads as the end.
AtEnd ==
  \/ opts.end # None /\ Position >= opts.end
  \/ \E v \in 1..Len(logs) :
       /\ v >= Reading
       /\ Contents(v) = Position \/ logs[v].chunk_size = 0

Init ==
  /\ logs = << >>
  /\ opts \in Options
  /\ delivered = << >>
  /\ erred = FALSE
  /\ done = FALSE

Publish(log) == logs' = Append(logs, log) /\ UNCHANGED <<opts, delivered, erred, done>>

Deliver(v, n) ==
  /\ ~done
  /\ v >= Reading
  /\ Position + n <= Contents(v)
  /\ opts.end # None => Position + n <= opts.end
  /\ delivered' = delivered \o Bytes(v, Position, n)
  /\ UNCHANGED <<logs, opts, erred, done>>

Fail == ~done /\ erred' = TRUE /\ UNCHANGED <<logs, opts, delivered, done>>

Finish ==
  /\ ~done
  /\ erred \/ AtEnd
  /\ done' = TRUE
  /\ UNCHANGED <<logs, opts, delivered, erred>>

Next ==
  \/ \E log \in Log : Publish(log)
  \/ \E v \in 1..Len(logs) : \E n \in 1..Contents(v) : Deliver(v, n)
  \/ Fail
  \/ Finish

Spec == Init /\ [][Next]_vars
=============================================================================
