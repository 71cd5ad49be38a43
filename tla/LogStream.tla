----------------------------- MODULE LogStream -----------------------------
(***************************************************************************)
(* PackageLogStream, the client's reader of a build log, against the       *)
(* server's BuildLogResponder, over a connection that can break.  The      *)
(* stream asks for the log from its offset, passes on what the body        *)
(* brings, and asks again from where it got to until an answer is empty.   *)
(* Each turn of the loop in poll_next is a step: the server, a new build's *)
(* log and the network may all move between two of them.  A body chunk     *)
(* without data is a turn that changes nothing and is not written down.    *)
(*                                                                         *)
(* Of the server's projects this is the part that a request for the log    *)
(* goes through: the project, the package, the repository and the          *)
(* architecture, and the package's record there.  Setters and requests     *)
(* make and delete these while the stream is read.  Setters that panic,    *)
(* for something they need is not there, are in BuildStore.                *)
(***************************************************************************)
EXTENDS Naturals, Sequences

CONSTANTS
  Lengths,           \* lengths of logs
  ChunkSizes,        \* values of MockBuildLog::chunk_size
  Offsets, Ends,     \* PackageLogStreamOptions
  None,              \* an option that is not given
  MaxUsize,          \* the largest usize
  MaxLogs            \* bound: logs a package ever has

ASSUME StreamAssumption ==
  /\ Lengths \cup Offsets \subseteq Nat
  /\ ChunkSizes \cup Ends \subseteq Nat \cup {None}
  /\ None \notin Nat
  /\ MaxUsize \in Nat /\ MaxLogs \in Nat

VARIABLES
  there,             \* what exists of Parts
  logs,              \* the values latest_log has had, oldest first
  opts,              \* the stream's options
  offset,            \* PackageLogStream::offset
  request,           \* PackageLogStream::request, without what it holds
  gotdata,           \* the flag of PackageLogRequest::Stream
  wire,              \* what the request's future or the body's stream will yield
  consumer,          \* the caller of poll_next
  erred,             \* poll_next has returned an error
  delivered          \* the bytes poll_next has returned

server == <<there, logs>>
client == <<opts, offset, request, gotdata>>
vars == <<there, logs, opts, offset, request, gotdata, wire, consumer, erred, delivered>>

Parts == {"project", "package", "repo", "arch", "record"}

\* The answers of the server's lookups, and what is not there then.
Lacking ==
  [unknown_project |-> "project", unknown_package |-> "package",
   unknown_repo |-> "repo", unknown_arch |-> "arch", no_logfile |-> "record"]

Over == {"ended", "stopped", "panicked"}

Idle == [kind |-> "idle"]
Asked(start) == [kind |-> "asked", start |-> start]
Body(v, from, to) == [kind |-> "body", log |-> v, from |-> from, to |-> to]
Failed(why) == [kind |-> "failed", why |-> why]

\* The promise of LogDelivery, in the stream's own state.
Promise == INSTANCE LogDelivery WITH done <- consumer \in Over

TypeOK ==
  /\ there \subseteq Parts
  /\ logs \in Seq(Promise!Log)
  /\ opts \in Promise!Options
  /\ offset \in Nat
  /\ request \in {"Initial", "Request", "Stream"}
  /\ gotdata \in BOOLEAN
  /\ wire \in {Idle} \cup [kind : {"asked"}, start : Nat]
          \cup [kind : {"body"}, log : Nat, from : Nat, to : Nat]
          \cup [kind : {"failed"},
                why : DOMAIN Lacking \cup {"connection", "panic", "out_of_range"}]
  /\ consumer \in {"polling", "failed"} \cup Over
  /\ erred \in BOOLEAN
  /\ delivered \in Seq([log : Nat, at : Nat])
  /\ request = "Initial" => wire = Idle
  /\ request = "Stream" => wire.kind = "body" /\ wire.from <= wire.to

Init ==
  /\ there = {}
  /\ logs = << >>
  /\ opts \in Promise!Options
  /\ offset = opts.offset
  /\ request = "Initial"
  /\ gotdata = FALSE
  /\ wire = Idle
  /\ consumer = "polling"
  /\ erred = FALSE
  /\ delivered = << >>

-----------------------------------------------------------------------------
(* The server.                                                             *)

\* A new value of latest_log.
SetLatest(log) ==
  /\ Len(logs) < MaxLogs
  /\ logs' = Append(logs, log)

ServerOnly == UNCHANGED <<client, wire, consumer, erred, delivered>>

AddProject ==
  /\ "project" \notin there
  /\ there' = {"project"}
  /\ UNCHANGED logs
  /\ ServerOnly

\* A branch that makes its target project copies the repositories of the origin
\* with all their records, whichever package it then makes.
BranchProject(parts) ==
  /\ "project" \notin there
  /\ "record" \in parts => "arch" \in parts
  /\ "arch" \in parts => "repo" \in parts
  /\ there' = {"project"} \cup parts
  /\ IF "record" \in parts THEN \E log \in Promise!Log : SetLatest(log) ELSE UNCHANGED logs
  /\ ServerOnly

\* Made from metadata, or by a branch to a project that is there.
AddPackage ==
  /\ "project" \in there /\ "package" \notin there
  /\ there' = there \cup {"package"}
  /\ UNCHANGED logs
  /\ ServerOnly

\* The repository is made with the architecture or with another one.
AddOrUpdateRepository(made) ==
  /\ "project" \in there
  /\ there' = there \cup made
  /\ UNCHANGED logs
  /\ ServerOnly

\* A status, binaries or a history entry, or a rebuild, makes a record that is
\* not there, which has no log yet.
WithRepoPackage ==
  /\ {"package", "repo", "arch"} \subseteq there /\ "record" \notin there
  /\ there' = there \cup {"record"}
  /\ SetLatest(Promise!NoLog)
  /\ ServerOnly

\* latest_log is replaced as a whole.
AddCompletedBuildLog(log) ==
  /\ {"package", "repo", "arch"} \subseteq there
  /\ there' = there \cup {"record"}
  /\ SetLatest(log)
  /\ ServerOnly

\* Mutant of DeletePackage: the record stays.
DeletePackageKeepsRecord ==
  /\ "package" \in there
  /\ there' = there \ {"package"}
  /\ UNCHANGED logs
  /\ ServerOnly

DeletePackage ==
  /\ "package" \in there
  /\ there' = there \ {"package", "record"}
  /\ UNCHANGED logs
  /\ ServerOnly

DeleteProject ==
  /\ "project" \in there
  /\ there' = {}
  /\ UNCHANGED logs
  /\ ServerOnly

Lesser(a, b) == IF a <= b THEN a ELSE b

\* The lookups, in the handler's order.
LookupError ==
  IF "project" \notin there THEN "unknown_project"
  ELSE IF "package" \notin there THEN "unknown_package"
  ELSE IF "repo" \notin there THEN "unknown_repo"
  ELSE IF "arch" \notin there THEN "unknown_arch"
  ELSE IF "record" \notin there THEN "no_logfile"
  ELSE "none"

\* Mutant of Respond: the start is not compared with the length.
RespondUnchecked(start) ==
  IF LookupError # "none" THEN Failed(LookupError)
  ELSE Body(Len(logs), start, logs[Len(logs)].length)

\* Mutant of Respond: a start at the very end is out of range.
RespondBeforeEnd(start) ==
  LET length == logs[Len(logs)].length
  IN  IF LookupError # "none" THEN Failed(LookupError)
      ELSE IF start >= length THEN Failed("out_of_range")
      ELSE Body(Len(logs), start,
                IF opts.end = None THEN length ELSE Lesser(opts.end, length))

\* The answer to a request for latest_log from start to opts.end.  The client
\* sends nothing that does not parse.  The sum start + chunk_size panics when it
\* overflows in a debug build; in a release build it wraps to less than start,
\* and the slice panics.  The guard is a reader's, so no panic poisons the lock.
Respond(start) ==
  LET log == logs[Len(logs)]
      end == IF opts.end = None THEN log.length ELSE Lesser(opts.end, log.length)
      to == IF log.chunk_size = None THEN end ELSE Lesser(end, start + log.chunk_size)
  IN  IF LookupError # "none" THEN Failed(LookupError)
      ELSE IF start > log.length THEN Failed("out_of_range")
      ELSE IF log.chunk_size # None /\ start + log.chunk_size > MaxUsize THEN Failed("panic")
      ELSE IF to < start THEN Failed("panic")
      ELSE Body(Len(logs), start, to)

Answer ==
  /\ wire.kind = "asked"
  /\ wire' = Respond(wire.start)
  /\ UNCHANGED <<server, client, consumer, erred, delivered>>

\* The connection breaks before the client has the response's head.
LoseConnection ==
  /\ request = "Request"
  /\ wire.kind \in {"asked", "body"}
  /\ wire' = Failed("connection")
  /\ UNCHANGED <<server, client, consumer, erred, delivered>>

-----------------------------------------------------------------------------
(* poll_next.                                                              *)

\* The client's call returns an error to the caller.
ReturnError ==
  /\ consumer' = "failed"
  /\ erred' = TRUE
  /\ UNCHANGED <<server, client, delivered>>

\* PackageLogRequest::Initial.
SendRequest ==
  /\ consumer = "polling"
  /\ request = "Initial"
  /\ request' = "Request"
  /\ wire' = Asked(offset)
  /\ UNCHANGED <<server, opts, offset, gotdata, consumer, erred, delivered>>

\* PackageLogRequest::Request, the future yields a response.
ReceiveResponse ==
  /\ consumer = "polling"
  /\ request = "Request"
  /\ wire.kind = "body"
  /\ request' = "Stream"
  /\ gotdata' = FALSE
  /\ UNCHANGED <<server, opts, offset, wire, consumer, erred, delivered>>

\* PackageLogRequest::Request, the future yields an error: it has finished,
\* and the stream keeps it.
RequestFails ==
  /\ consumer = "polling"
  /\ request = "Request"
  /\ wire.kind = "failed"
  /\ wire' = Idle
  /\ ReturnError

\* PackageLogRequest::Request once more: polling a finished future panics.
PollFinishedRequest ==
  /\ consumer = "polling"
  /\ request = "Request"
  /\ wire = Idle
  /\ consumer' = "panicked"
  /\ UNCHANGED <<server, client, wire, erred, delivered>>

\* Mutant of ReceiveChunk: the offset is set to the chunk's length.
ReceiveChunkForgetsOffset(n) ==
  /\ consumer = "polling"
  /\ request = "Stream"
  /\ n <= wire.to - wire.from
  /\ offset' = opts.offset + n
  /\ gotdata' = TRUE
  /\ delivered' = delivered \o Promise!Bytes(wire.log, wire.from, n)
  /\ wire' = [wire EXCEPT !.from = @ + n]
  /\ UNCHANGED <<server, opts, request, consumer, erred>>

\* PackageLogRequest::Stream, the body brings n bytes of what is left of it.
ReceiveChunk(n) ==
  /\ consumer = "polling"
  /\ request = "Stream"
  /\ n <= wire.to - wire.from
  /\ offset' = offset + n
  /\ gotdata' = TRUE
  /\ delivered' = delivered \o Promise!Bytes(wire.log, wire.from, n)
  /\ wire' = [wire EXCEPT !.from = @ + n]
  /\ UNCHANGED <<server, opts, request, consumer, erred>>

\* PackageLogRequest::Stream, the connection breaks within the body, which
\* then has nothing more to bring.
BodyBreaks ==
  /\ consumer = "polling"
  /\ request = "Stream"
  /\ wire.from < wire.to
  /\ wire' = [wire EXCEPT !.to = wire.from]
  /\ ReturnError

\* Mutant of BodyEnds: an empty answer is not the end.
BodyEndsOnlyAtEnd ==
  /\ consumer = "polling"
  /\ request = "Stream"
  /\ wire.from = wire.to
  /\ request' = "Initial"
  /\ wire' = Idle
  /\ consumer' = IF opts.end # None /\ offset >= opts.end THEN "ended" ELSE consumer
  /\ UNCHANGED <<server, opts, offset, gotdata, erred, delivered>>

\* PackageLogRequest::Stream, the body is at its end.
BodyEnds ==
  /\ consumer = "polling"
  /\ request = "Stream"
  /\ wire.from = wire.to
  /\ request' = "Initial"
  /\ wire' = Idle
  /\ consumer' = IF ~gotdata \/ (opts.end # None /\ offset >= opts.end)
                 THEN "ended" ELSE consumer
  /\ UNCHANGED <<server, opts, offset, gotdata, erred, delivered>>

\* A caller that was given an error polls again or lets the stream go.
AfterError ==
  /\ consumer = "failed"
  /\ consumer' \in {"polling", "stopped"}
  /\ UNCHANGED <<server, client, wire, erred, delivered>>

-----------------------------------------------------------------------------
Poll ==
  \/ SendRequest
  \/ ReceiveResponse
  \/ RequestFails
  \/ PollFinishedRequest
  \/ \E n \in 1..MaxUsize : ReceiveChunk(n)
  \/ BodyBreaks
  \/ BodyEnds
  \/ AfterError

ServerChange ==
  \/ AddProject
  \/ \E parts \in SUBSET (Parts \ {"project"}) : BranchProject(parts)
  \/ AddPackage
  \/ \E made \in {{"repo"}, {"repo", "arch"}} : AddOrUpdateRepository(made)
  \/ WithRepoPackage
  \/ \E log \in Promise!Log : AddCompletedBuildLog(log)
  \/ DeletePackage
  \/ DeleteProject

Next ==
  \/ ServerChange
  \/ Answer
  \/ LoseConnection
  \/ Poll

\* The executor polls a stream whose caller awaits it, and the server answers.
\* Nothing is assumed of what else happens to the server, nor that a connection
\* breaks.
Spec == Init /\ [][Next]_vars /\ WF_vars(Poll) /\ WF_vars(Answer)

-----------------------------------------------------------------------------
(* Properties.                                                             *)

\* The reader does what LogDelivery promises: over any number of requests, with
\* bodies cut up and cut off, and logs replaced or deleted between requests, no byte is
\* left out, repeated or out of order, none is past the end asked for, and a
\* stream that ends without an error was at the end (poll_next and
\* BuildLogResponder::respond together).
DeliversInOrder == Promise!Spec

\* A caller that keeps polling is finished at last: every round of requests
\* brings data or ends the stream (gotdata in poll_next).
Terminates == <>(consumer \in Over)

\* What a request of the stream is refused or fails for, as it is answered:
\* something on the way to the log is not there, and if the stream has been given
\* data then the record it came from is gone; or the log is shorter than the
\* position, and if the stream has been given data then that was another log; or
\* the caller's own range is backwards; or a chunk_size cannot be added.  (The
\* lookups and range checks of BuildLogResponder::respond against the offsets
\* poll_next asks for.)
RefusalsHaveCause ==
  [][wire.kind = "asked" /\ wire'.kind = "failed" /\ wire'.why # "connection" =>
       LET latest == logs[Len(logs)]
       IN  \/ /\ wire'.why \in DOMAIN Lacking
              /\ Lacking[wire'.why] \notin there
              /\ delivered # << >> => "record" \notin there \/ Promise!Reading < Len(logs)
           \/ /\ wire'.why = "out_of_range"
              /\ Promise!Position > latest.length
              /\ delivered # << >> => Promise!Reading < Len(logs)
           \/ /\ wire'.why = "panic"
              /\ \/ opts.end # None /\ opts.offset > opts.end
                 \/ /\ latest.chunk_size # None
                    /\ Promise!Position + latest.chunk_size > MaxUsize]_vars
=============================================================================
