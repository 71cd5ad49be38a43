--------------------------- MODULE LogStreamProofs ---------------------------
(***************************************************************************)
(* LogStream for any logs, options and sizes: its safety, and that it      *)
(* implements LogDelivery.                                                 *)
(*                                                                         *)
(* The inductive invariant says where the stream's request is, that the    *)
(* stream, its request and the body of the answer are at one position of   *)
(* the log, that what is delivered is within the log it came from, that an *)
(* answer is empty only at an end, and that a log which is still the       *)
(* latest of its record is still found.                                    *)
(***************************************************************************)
EXTENDS LogStream, SequenceTheorems, TLAPS

\* Where the request is, and what that says of the stream.
RequestOK ==
  /\ request = "Request" /\ wire = Idle => erred
  /\ wire.kind \in {"asked", "failed"} => request = "Request"
  /\ consumer = "failed" => erred

\* The stream and the server agree on the position.
InStep ==
  /\ offset = Promise!Position
  /\ wire.kind = "asked" => wire.start = offset
  /\ wire.kind = "body" => wire.from = offset

\* A body is of a log that is not older than the last one read, and within the
\* log and the range asked for.
BodyOK ==
  wire.kind = "body" =>
    /\ wire.log \in 1..Len(logs) /\ wire.log >= Promise!Reading
    /\ wire.from <= wire.to /\ wire.to <= Promise!Contents(wire.log)
    /\ opts.end # None => wire.to <= opts.end

\* So is what was delivered of it.
DeliveredOK ==
  delivered # << >> =>
    /\ Promise!Reading \in 1..Len(logs)
    /\ Promise!Position <= Promise!Contents(Promise!Reading)
    /\ opts.end # None => Promise!Position <= opts.end

\* An answer without data is one at the end.
EmptyAtEnd ==
  /\ wire.kind = "body" /\ wire.from = wire.to
  /\ request = "Request" \/ ~gotdata
  => erred \/ Promise!AtEnd

\* A log that is still the latest of its record is still found on its way: only
\* what deletes the record too takes away what leads to it.
StillFound(v) == v = Len(logs) /\ "record" \in there => there = Parts

FoundOK ==
  /\ "record" \in there => logs # << >>
  /\ wire.kind = "body" => StillFound(wire.log)
  /\ delivered # << >> => StillFound(Promise!Reading)

IInv ==
  TypeOK /\ RequestOK /\ InStep /\ BodyOK /\ DeliveredOK /\ EmptyAtEnd /\ FoundOK

-----------------------------------------------------------------------------
(* Facts about the operators.                                              *)

Byte == [log : Nat, at : Nat]

\* What the positions, lengths and options are.
LEMMA Numbers ==
  ASSUME TypeOK
  PROVE  /\ Len(logs) \in Nat /\ \A v \in 1..Len(logs) : Promise!Contents(v) \in Nat
         /\ \A v \in 1..Len(logs) : logs[v].chunk_size \in Nat \cup {None}
         /\ opts.offset \in Nat /\ opts.end \in Nat \cup {None}
         /\ Len(delivered) \in Nat /\ Promise!Position \in Nat /\ Promise!Reading \in Nat
<1>1. /\ Len(logs) \in Nat /\ Len(delivered) \in Nat
      /\ \A v \in 1..Len(logs) : logs[v] \in Promise!Log
      /\ \A i \in 1..Len(delivered) : delivered[i] \in Byte
  <2>1. logs \in Seq(Promise!Log) /\ delivered \in Seq(Byte)
    BY DEF TypeOK, Byte
  <2> QED
    BY <2>1
<1>2. \A log \in Promise!Log : log.length \in Nat /\ log.chunk_size \in Nat \cup {None}
  BY StreamAssumption DEF Promise!Log, Promise!NoLog
<1>3. opts.offset \in Nat /\ opts.end \in Nat \cup {None}
  BY StreamAssumption DEF TypeOK, Promise!Options
<1>4. \A v \in 1..Len(logs) : Promise!Contents(v) \in Nat
  BY <1>1, <1>2 DEF Promise!Contents
<1>5. Promise!Reading \in Nat
  <2>1. delivered # << >> => Len(delivered) \in 1..Len(delivered)
    <3>1. delivered \in Seq([log : Nat, at : Nat])
      BY DEF TypeOK
    <3> QED
      BY <3>1
  <2> QED
    BY <1>1, <2>1 DEF Promise!Reading, Byte
<1> QED
  BY <1>1, <1>2, <1>3, <1>4, <1>5 DEF Promise!Position

\* A step that leaves the logs and the bytes delivered alone.
LEMMA SameLogs ==
  ASSUME UNCHANGED <<logs, opts, delivered>>
  PROVE  /\ UNCHANGED Promise!Reading /\ UNCHANGED Promise!Position
         /\ \A v : Promise!Contents(v)' = Promise!Contents(v)
         /\ Promise!AtEnd' <=> Promise!AtEnd
         /\ DeliveredOK' <=> DeliveredOK
BY DEF Promise!Reading, Promise!Position, Promise!Contents, Promise!AtEnd, DeliveredOK

\* Logs published do not change those there were.
LEMMA MoreLogs ==
  ASSUME TypeOK, NEW log \in Promise!Log, logs' = Append(logs, log),
         UNCHANGED <<opts, delivered>>
  PROVE  /\ logs' \in Seq(Promise!Log) /\ Len(logs)' = Len(logs) + 1
         /\ \A v \in 1..Len(logs) : logs'[v] = logs[v]
         /\ \A v \in 1..Len(logs) : Promise!Contents(v)' = Promise!Contents(v)
         /\ UNCHANGED Promise!Reading /\ UNCHANGED Promise!Position
<1>1. logs \in Seq(Promise!Log)
  BY DEF TypeOK
<1>2. /\ logs' \in Seq(Promise!Log) /\ Len(logs)' = Len(logs) + 1
      /\ \A v \in 1..Len(logs) : logs'[v] = logs[v]
  BY <1>1
<1>3. \A v \in 1..Len(logs) : Promise!Contents(v)' = Promise!Contents(v)
  BY <1>2 DEF Promise!Contents
<1> QED
  BY <1>2, <1>3 DEF Promise!Reading, Promise!Position

\* The bytes of a chunk come after those delivered, and the last is of its log.
LEMMA MoreBytes ==
  ASSUME TypeOK, NEW v \in Nat, NEW from \in Nat, NEW n \in Nat \ {0},
         delivered' = delivered \o Promise!Bytes(v, from, n), UNCHANGED opts
  PROVE  /\ delivered' \in Seq(Byte) /\ delivered' # << >>
         /\ Promise!Position' = Promise!Position + n
         /\ Promise!Reading' = v
<1> DEFINE bytes == Promise!Bytes(v, from, n)
<1>0. delivered' = delivered \o bytes
  OBVIOUS
<1>1. /\ bytes \in Seq(Byte) /\ Len(bytes) = n /\ bytes[n].log = v
  <2>1. \A i \in 1..n : [log |-> v, at |-> from + i - 1] \in Byte
    BY DEF Byte
  <2>2. bytes = [i \in 1..n |-> [log |-> v, at |-> from + i - 1]]
    BY DEF Promise!Bytes
  <2>3. bytes \in Seq(Byte) /\ Len(bytes) = n
    <3>1. bytes \in [1..n -> Byte] /\ n \in Nat
      BY <2>1, <2>2
    <3> HIDE DEF bytes
    <3> QED
      BY <3>1
  <2>4. n \in 1..n
    OBVIOUS
  <2>5. bytes[n].log = v
    BY <2>2, <2>4
  <2> QED
    BY <2>3, <2>5
<1> HIDE DEF bytes
<1>2. delivered \in Seq(Byte) /\ delivered' = delivered \o bytes
  BY <1>0 DEF TypeOK, Byte
<1>3. /\ delivered' \in Seq(Byte) /\ Len(delivered)' = Len(delivered) + n
      /\ delivered'[Len(delivered) + n] = bytes[n]
  <2>1. Len(delivered) \in Nat
    BY <1>2
  <2>2. /\ delivered \o bytes \in Seq(Byte) /\ Len(delivered \o bytes) = Len(delivered) + Len(bytes)
        /\ \A i \in 1..Len(delivered) + Len(bytes) :
             (delivered \o bytes)[i] =
               IF i <= Len(delivered) THEN delivered[i] ELSE bytes[i - Len(delivered)]
    BY <1>1, <1>2, ConcatProperties
  <2> QED
    BY <1>1, <1>2, <2>1, <2>2
<1>4. delivered' # << >>
  BY <1>2, <1>3
<1>5. opts.offset \in Nat /\ Len(delivered) \in Nat
  BY Numbers
<1> QED
  BY <1>1, <1>3, <1>4, <1>5 DEF Promise!Position, Promise!Reading

-----------------------------------------------------------------------------
(* The actions.                                                            *)

Whys == DOMAIN Lacking \cup {"connection", "panic", "out_of_range"}

Wires ==
  {Idle} \cup [kind : {"asked"}, start : Nat]
    \cup [kind : {"body"}, log : Nat, from : Nat, to : Nat]
    \cup [kind : {"failed"}, why : Whys]

\* What is on the wire is of one kind, and has what its kind has.
LEMMA WireKinds ==
  /\ Idle \in Wires /\ Idle.kind = "idle"
  /\ \A start \in Nat :
       Asked(start) \in Wires /\ Asked(start).kind = "asked" /\ Asked(start).start = start
  /\ \A v, from, to \in Nat :
       LET body == Body(v, from, to)
       IN  /\ body \in Wires /\ body.kind = "body" /\ body.log = v
           /\ body.from = from /\ body.to = to
  /\ \A why \in Whys :
       Failed(why) \in Wires /\ Failed(why).kind = "failed" /\ Failed(why).why = why
  /\ \A w \in Wires :
       /\ w.kind \in {"idle", "asked", "body", "failed"}
       /\ w.kind = "idle" <=> w = Idle
       /\ w.kind = "asked" => w.start \in Nat
       /\ w.kind = "body" =>
            w.log \in Nat /\ w.from \in Nat /\ w.to \in Nat /\ w = Body(w.log, w.from, w.to)
       /\ w.kind = "failed" => w.why \in Whys
BY DEF Wires, Idle, Asked, Body, Failed

\* TypeOK, with names for the sets.
Typed ==
  /\ there \subseteq Parts
  /\ logs \in Seq(Promise!Log) /\ opts \in Promise!Options /\ offset \in Nat
  /\ request \in {"Initial", "Request", "Stream"} /\ gotdata \in BOOLEAN
  /\ wire \in Wires
  /\ consumer \in {"polling", "failed"} \cup Over /\ erred \in BOOLEAN
  /\ delivered \in Seq(Byte)
  /\ request = "Initial" => wire = Idle
  /\ request = "Stream" => wire.kind = "body" /\ wire.from <= wire.to

\* The types, as facts that the steps below cite.
LEMMA TypedNow == TypeOK <=> Typed
BY DEF TypeOK, Typed, Wires, Whys, Byte

\* And after a step.
LEMMA TypedNext == TypeOK' <=> Typed'
BY TypedNow, PTL

\* A step of the network or the server that puts something on the wire.
LEMMA WireMoves ==
  ASSUME IInv, NEW w \in Wires, request = "Request", wire' = w, w # Idle,
         UNCHANGED <<server, client, consumer, erred, delivered>>,
         w.kind = "asked" => w.start = offset,
         w.kind = "body" =>
           /\ w.from = offset /\ w.log \in 1..Len(logs) /\ w.log >= Promise!Reading
           /\ w.from <= w.to /\ w.to <= Promise!Contents(w.log)
           /\ opts.end # None => w.to <= opts.end
           /\ w.from = w.to => Promise!AtEnd
           /\ there = Parts
  PROVE  IInv'
<1>1. UNCHANGED <<there, logs, opts, offset, request, gotdata, delivered>>
  BY DEF client, server
<1>2. TypeOK'
  BY <1>1, TypedNow, TypedNext DEF IInv, Typed
<1>3. RequestOK'
  BY <1>1 DEF IInv, RequestOK
<1>4. InStep' /\ BodyOK' /\ DeliveredOK' /\ EmptyAtEnd'
  BY <1>1, SameLogs DEF IInv, InStep, BodyOK, EmptyAtEnd
<1>5. FoundOK'
  BY <1>1, SameLogs DEF IInv, FoundOK, StillFound
<1> QED
  BY <1>2, <1>3, <1>4, <1>5 DEF IInv

\* A connection that breaks has put a failure on the wire, for no one's fault.
LEMMA LoseConnectionStep ==
  ASSUME IInv, LoseConnection
  PROVE  IInv'
<1> DEFINE w == Failed("connection")
<1>1. w \in Wires /\ w.kind = "failed" /\ w.why = "connection" /\ w # Idle
  BY WireKinds DEF Whys
<1> HIDE DEF w
<1>2. request = "Request" /\ wire' = w /\ UNCHANGED <<server, client, consumer, erred, delivered>>
  BY DEF LoseConnection, w
<1> QED
  BY <1>1, <1>2, WireMoves

\* What the lookups say.
LEMMA Lookups ==
  ASSUME there \subseteq Parts
  PROVE  /\ LookupError = "none" => there = Parts
         /\ LookupError # "none" =>
              LookupError \in DOMAIN Lacking /\ Lacking[LookupError] \notin there
BY DEF LookupError, Lacking, Parts

\* The server's answer is a body within the range and the log, empty only at an
\* end, or a failure with a cause.
LEMMA Answers ==
  ASSUME IInv, Answer
  PROVE  \/ \E why \in Whys :
              /\ wire' = Failed(why)
              /\ LET latest == logs[Len(logs)]
                 IN  \/ /\ why \in DOMAIN Lacking
                        /\ Lacking[why] \notin there
                     \/ /\ why = "out_of_range" /\ there = Parts
                        /\ Promise!Position > latest.length
                     \/ /\ why = "panic" /\ there = Parts
                        /\ \/ /\ Promise!Position <= latest.length
                              /\ opts.end # None /\ Promise!Position > opts.end
                           \/ /\ latest.chunk_size # None
                              /\ Promise!Position + latest.chunk_size > MaxUsize
         \/ \E to \in Nat :
              /\ wire' = Body(Len(logs), offset, to)
              /\ offset <= to /\ to <= Promise!Contents(Len(logs))
              /\ opts.end # None => to <= opts.end
              /\ offset = to => Promise!AtEnd
              /\ there = Parts /\ Len(logs) >= 1
<1> DEFINE start == wire.start
           v == Len(logs)
           length == logs[v].length
           chunk == logs[v].chunk_size
           end == IF opts.end = None THEN length ELSE Lesser(opts.end, length)
           to == IF chunk = None THEN end ELSE Lesser(end, start + chunk)
<1>0. Typed /\ TypeOK
  BY TypedNow DEF IInv
<1>1. start = offset /\ start \in Nat /\ offset = Promise!Position
  BY <1>0 DEF Answer, IInv, InStep, Typed
<1>2. wire' = IF LookupError # "none" THEN Failed(LookupError)
              ELSE IF start > length THEN Failed("out_of_range")
              ELSE IF chunk # None /\ start + chunk > MaxUsize THEN Failed("panic")
              ELSE IF to < start THEN Failed("panic")
              ELSE Body(v, start, to)
  BY DEF Answer, Respond
<1>3. there \subseteq Parts
  BY <1>0 DEF Typed
<1>4. CASE LookupError # "none"
  <2>1. LookupError \in Whys /\ LookupError \in DOMAIN Lacking
        /\ Lacking[LookupError] \notin there
    BY <1>3, <1>4, Lookups DEF Whys
  <2> QED
    BY <1>2, <1>4, <2>1
<1>5. CASE LookupError = "none"
  <2>1. there = Parts /\ v \in Nat /\ v >= 1
    <3>1. there = Parts /\ "record" \in there
      BY <1>3, <1>5, Lookups DEF Parts
    <3>2. logs \in Seq(Promise!Log) /\ logs # << >>
      BY <1>0, <3>1 DEF IInv, FoundOK, Typed
    <3> QED
      BY <3>1, <3>2
  <2>2. /\ length \in Nat /\ opts.end \in Nat \cup {None} /\ length = Promise!Contents(v)
        /\ chunk \in Nat \cup {None} /\ None \notin Nat /\ MaxUsize \in Nat
        /\ Promise!Reading \in Nat
    BY <1>0, <2>1, Numbers, StreamAssumption DEF Promise!Contents
  <2>3. Promise!Reading <= v
    BY <2>1, <2>2 DEF IInv, DeliveredOK, Promise!Reading
  <2>4. end \in Nat /\ end <= length /\ (opts.end # None => end <= opts.end)
        /\ (end = length \/ (opts.end # None /\ end = opts.end))
    BY <2>2 DEF Lesser
  <2>5. to \in Nat /\ to <= end /\ (to = end \/ (chunk # None /\ to = start + chunk))
    BY <1>1, <2>2, <2>4 DEF Lesser
  <2>6. {"out_of_range", "panic"} \subseteq Whys
    BY DEF Whys
  <2> HIDE DEF start, v, length, chunk, end, to
  <2>7. CASE start > length
    <3>1. wire' = Failed("out_of_range")
      BY <1>2, <1>5, <2>7
    <3>2. Promise!Position > logs[Len(logs)].length
      BY <1>1, <2>7 DEF length, v
    <3> QED
      BY <2>1, <2>6, <3>1, <3>2
  <2>8. CASE start <= length /\ chunk # None /\ start + chunk > MaxUsize
    <3>1. wire' = Failed("panic")
      BY <1>1, <1>2, <1>5, <2>2, <2>8
    <3>2. logs[Len(logs)].chunk_size # None
          /\ Promise!Position + logs[Len(logs)].chunk_size > MaxUsize
      BY <1>1, <2>8 DEF chunk, v
    <3> QED
      BY <2>1, <2>6, <3>1, <3>2
  <2>9. CASE start <= length /\ ~(chunk # None /\ start + chunk > MaxUsize) /\ to < start
    <3>1. wire' = Failed("panic")
      BY <1>1, <1>2, <1>5, <2>2, <2>9
    <3>2. opts.end # None /\ start > opts.end
      BY <1>1, <2>2, <2>4, <2>5, <2>9
    <3>3. Promise!Position <= logs[Len(logs)].length /\ Promise!Position > opts.end
      BY <1>1, <2>9, <3>2 DEF length, v
    <3> QED
      BY <2>1, <2>6, <3>1, <3>2, <3>3
  <2>10. CASE start <= length /\ ~(chunk # None /\ start + chunk > MaxUsize) /\ to >= start
    <3>1. wire' = Body(Len(logs), offset, to)
      BY <1>1, <1>2, <1>5, <2>2, <2>5, <2>10 DEF v
    <3>2. offset <= to /\ to <= Promise!Contents(Len(logs)) /\ (opts.end # None => to <= opts.end)
      BY <1>1, <2>2, <2>4, <2>5, <2>10 DEF v
    <3>3. offset = to => Promise!AtEnd
      <4> SUFFICES ASSUME start = to PROVE Promise!AtEnd
        BY <1>1
      <4>0. v \in 1..Len(logs) /\ v >= Promise!Reading
        BY <2>1, <2>2, <2>3 DEF v
      <4>1. CASE to = length
        BY <1>1, <2>2, <4>0, <4>1 DEF Promise!AtEnd
      <4>2. CASE opts.end # None /\ to = opts.end
        <5>1. Promise!Position = opts.end /\ opts.end \in Nat
          BY <1>1, <2>2, <4>2
        <5>2. Promise!Position >= opts.end
          BY <5>1
        <5> QED
          BY <4>2, <5>2 DEF Promise!AtEnd
      <4>3. CASE chunk # None /\ to = start + chunk
        <5>1. chunk = 0
          BY <1>1, <2>2, <4>3
        <5>2. logs[v].chunk_size = 0
          BY <5>1 DEF chunk
        <5> QED
          BY <4>0, <5>2 DEF Promise!AtEnd
      <4> QED
        BY <2>4, <2>5, <4>1, <4>2, <4>3
    <3> QED
      BY <2>1, <2>5, <3>1, <3>2, <3>3 DEF v
  <2> QED
    BY <1>1, <2>2, <2>5, <2>7, <2>8, <2>9, <2>10
<1> QED
  BY <1>4, <1>5

\* So the answer preserves the invariant.
LEMMA AnswerStep ==
  ASSUME IInv, Answer
  PROVE  IInv'
<1>0. Typed /\ TypeOK
  BY TypedNow DEF IInv
<1>1. request = "Request" /\ UNCHANGED <<server, client, consumer, erred, delivered>>
  BY DEF Answer, IInv, RequestOK
<1>2. CASE \E why \in Whys : wire' = Failed(why)
  <2>1. PICK why \in Whys : wire' = Failed(why)
    BY <1>2
  <2> DEFINE w == Failed(why)
  <2>2. w \in Wires /\ w.kind = "failed" /\ w # Idle
    BY WireKinds
  <2>3. wire' = w
    BY <2>1
  <2> HIDE DEF w
  <2> QED
    BY <1>1, <2>2, <2>3, WireMoves
<1>3. CASE \E to \in Nat :
              /\ wire' = Body(Len(logs), offset, to)
              /\ offset <= to /\ to <= Promise!Contents(Len(logs))
              /\ opts.end # None => to <= opts.end
              /\ offset = to => Promise!AtEnd
              /\ there = Parts /\ Len(logs) >= 1
  <2>1. PICK to \in Nat :
              /\ wire' = Body(Len(logs), offset, to)
              /\ offset <= to /\ to <= Promise!Contents(Len(logs))
              /\ opts.end # None => to <= opts.end
              /\ offset = to => Promise!AtEnd
              /\ there = Parts /\ Len(logs) >= 1
    BY <1>3
  <2>2. Len(logs) \in Nat /\ offset \in Nat /\ Promise!Reading \in Nat
    BY <1>0, Numbers DEF Typed
  <2>3. Len(logs) \in 1..Len(logs) /\ Len(logs) >= Promise!Reading
    BY <2>1, <2>2 DEF IInv, DeliveredOK, Promise!Reading
  <2> DEFINE w == Body(Len(logs), offset, to)
  <2>4. w \in Wires /\ w.kind = "body" /\ w # Idle /\ w.log = Len(logs) /\ w.from = offset
        /\ w.to = to
    BY <2>2, WireKinds
  <2>5. wire' = w
    BY <2>1
  <2> HIDE DEF w
  <2> QED
    BY <1>1, <2>1, <2>3, <2>4, <2>5, WireMoves
<1> QED
  BY <1>2, <1>3, Answers

\* A log that is published moves nothing else, and what is known of those before
\* it stays true.
LEMMA PublishStep ==
  ASSUME IInv, NEW log \in Promise!Log, logs' = Append(logs, log), there' \subseteq Parts,
         ServerOnly
  PROVE  IInv'
<1>0. Typed /\ TypeOK
  BY TypedNow DEF IInv
<1>1. UNCHANGED <<opts, offset, request, gotdata, wire, consumer, erred, delivered>>
  BY DEF ServerOnly, client
<1>2. /\ logs' \in Seq(Promise!Log) /\ Len(logs)' = Len(logs) + 1
      /\ \A v \in 1..Len(logs) : logs'[v] = logs[v]
      /\ \A v \in 1..Len(logs) : Promise!Contents(v)' = Promise!Contents(v)
      /\ UNCHANGED Promise!Reading /\ UNCHANGED Promise!Position
  BY <1>0, <1>1, MoreLogs
<1>3. Len(logs) \in Nat /\ Promise!Reading \in Nat
  BY <1>0, Numbers
<1>4. TypeOK'
  BY <1>0, <1>1, <1>2, TypedNext DEF Typed
<1>5. RequestOK' /\ InStep'
  BY <1>1, <1>2 DEF IInv, RequestOK, InStep
<1>6. BodyOK' /\ DeliveredOK'
  BY <1>1, <1>2, <1>3 DEF IInv, BodyOK, DeliveredOK
<1>7. Promise!AtEnd => Promise!AtEnd'
  <2>1. CASE opts.end # None /\ Promise!Position >= opts.end
    BY <1>1, <1>2, <2>1 DEF Promise!AtEnd
  <2>2. ASSUME NEW v \in 1..Len(logs), v >= Promise!Reading,
               Promise!Contents(v) = Promise!Position \/ logs[v].chunk_size = 0
        PROVE  Promise!AtEnd'
    <3>1. v \in 1..Len(logs)' /\ Promise!Contents(v)' = Promise!Contents(v) /\ logs'[v] = logs[v]
      BY <1>2, <1>3, <2>2
    <3> QED
      BY <1>2, <2>2, <3>1 DEF Promise!AtEnd
  <2> QED
    BY <2>1, <2>2 DEF Promise!AtEnd
<1>8. EmptyAtEnd'
  BY <1>1, <1>7 DEF IInv, EmptyAtEnd
<1>9. FoundOK'
  <2>1. logs' # << >>
    BY <1>2, <1>3
  <2>2. wire.kind = "body" => wire.log # Len(logs)'
    BY <1>2, <1>3 DEF IInv, BodyOK
  <2>3. delivered # << >> => Promise!Reading # Len(logs)'
    BY <1>2, <1>3 DEF IInv, DeliveredOK
  <2> QED
    BY <1>1, <1>2, <2>1, <2>2, <2>3 DEF FoundOK, StillFound
<1> QED
  BY <1>4, <1>5, <1>6, <1>8, <1>9 DEF IInv

\* Nor does anything else that the server makes or deletes, for a record goes with
\* its package.
LEMMA ThereStep ==
  ASSUME IInv, UNCHANGED logs, there' \subseteq Parts, ServerOnly,
         "record" \in there' => "record" \in there /\ there \subseteq there'
  PROVE  IInv'
<1>0. Typed
  BY TypedNow DEF IInv
<1>1. UNCHANGED <<logs, opts, offset, request, gotdata, wire, consumer, erred, delivered>>
  BY DEF ServerOnly, client
<1>2. TypeOK'
  BY <1>0, <1>1, TypedNext DEF Typed
<1>3. RequestOK' /\ InStep' /\ BodyOK' /\ DeliveredOK' /\ EmptyAtEnd'
  BY <1>1, SameLogs DEF IInv, RequestOK, InStep, BodyOK, EmptyAtEnd
<1>4. FoundOK'
  BY <1>0, <1>1, SameLogs DEF IInv, FoundOK, StillFound, Typed
<1> QED
  BY <1>2, <1>3, <1>4 DEF IInv

\* What happens to the server is one or the other.
LEMMA ServerStep ==
  ASSUME IInv, ServerChange
  PROVE  IInv'
<1>0. there \subseteq Parts
  BY TypedNow DEF IInv, Typed
<1>1. CASE AddProject \/ DeleteProject
  BY <1>1, ThereStep DEF AddProject, DeleteProject, Parts
<1>2. ASSUME NEW parts \in SUBSET (Parts \ {"project"}), BranchProject(parts)
      PROVE  IInv'
  <2>1. there' \subseteq Parts /\ ServerOnly /\ ("record" \in there' <=> "record" \in parts)
    BY <1>2 DEF BranchProject, Parts
  <2>2. CASE "record" \in parts
    BY <1>2, <2>1, <2>2, PublishStep DEF BranchProject, SetLatest
  <2>3. CASE "record" \notin parts
    BY <1>2, <2>1, <2>3, ThereStep DEF BranchProject
  <2> QED
    BY <2>2, <2>3
<1>3. CASE AddPackage
  BY <1>0, <1>3, ThereStep DEF AddPackage, Parts
<1>4. ASSUME NEW made \in {{"repo"}, {"repo", "arch"}}, AddOrUpdateRepository(made)
      PROVE  IInv'
  BY <1>0, <1>4, ThereStep DEF AddOrUpdateRepository, Parts
<1>5. CASE WithRepoPackage
  <2>1. Promise!NoLog \in Promise!Log
    BY DEF Promise!Log
  <2> QED
    BY <1>0, <1>5, <2>1, PublishStep DEF WithRepoPackage, SetLatest, Parts
<1>6. ASSUME NEW log \in Promise!Log, AddCompletedBuildLog(log)
      PROVE  IInv'
  BY <1>0, <1>6, PublishStep DEF AddCompletedBuildLog, SetLatest, Parts
<1>7. CASE DeletePackage
  BY <1>0, <1>7, ThereStep DEF DeletePackage, Parts
<1> QED
  BY <1>1, <1>2, <1>3, <1>4, <1>5, <1>6, <1>7 DEF ServerChange

\* Asking for the next part of the log, and receiving the head of the answer.
LEMMA RequestStep ==
  ASSUME IInv, SendRequest \/ ReceiveResponse
  PROVE  IInv'
<1>0. Typed
  BY TypedNow DEF IInv
<1>1. UNCHANGED <<there, logs, opts, offset, consumer, erred, delivered>> /\ consumer = "polling"
  BY DEF SendRequest, ReceiveResponse, server
<1>2. DeliveredOK' /\ offset' = Promise!Position'
  BY <1>1, SameLogs DEF IInv, InStep
<1>3. CASE SendRequest
  <2> DEFINE w == Asked(offset)
  <2>1. w \in Wires /\ w.kind = "asked" /\ w.start = offset /\ w # Idle
    BY <1>0, WireKinds DEF Typed
  <2> HIDE DEF w
  <2>2. wire' = w /\ request' = "Request" /\ UNCHANGED gotdata
    BY <1>3 DEF SendRequest, w
  <2>3. TypeOK'
    BY <1>0, <1>1, <2>1, <2>2, TypedNext DEF Typed
  <2>4. RequestOK' /\ InStep' /\ BodyOK' /\ EmptyAtEnd' /\ FoundOK'
    BY <1>1, <1>2, <2>1, <2>2, SameLogs
       DEF IInv, RequestOK, InStep, BodyOK, EmptyAtEnd, FoundOK, StillFound
  <2> QED
    BY <1>2, <2>3, <2>4 DEF IInv
<1>4. CASE ReceiveResponse
  <2>1. request = "Request" /\ wire.kind = "body" /\ request' = "Stream" /\ gotdata' = FALSE
        /\ UNCHANGED wire
    BY <1>4 DEF ReceiveResponse
  <2>2. BodyOK' /\ EmptyAtEnd' /\ wire.from <= wire.to
    BY <1>1, <2>1, SameLogs DEF IInv, BodyOK, EmptyAtEnd
  <2>3. TypeOK'
    BY <1>0, <1>1, <2>1, <2>2, TypedNext DEF Typed
  <2>4. RequestOK' /\ InStep' /\ FoundOK'
    BY <1>1, <1>2, <2>1, SameLogs, WireKinds
       DEF IInv, RequestOK, InStep, FoundOK, StillFound
  <2> QED
    BY <1>2, <2>2, <2>3, <2>4 DEF IInv
<1> QED
  BY <1>3, <1>4

\* A chunk moves the stream and what is left of the body by its bytes.
LEMMA ChunkStep ==
  ASSUME IInv, NEW n \in 1..MaxUsize, ReceiveChunk(n)
  PROVE  IInv'
<1>0. Typed /\ TypeOK
  BY TypedNow DEF IInv
<1>1. /\ request = "Stream" /\ wire.kind = "body" /\ n <= wire.to - wire.from
      /\ offset' = offset + n /\ gotdata' = TRUE
      /\ delivered' = delivered \o Promise!Bytes(wire.log, wire.from, n)
      /\ wire' = [wire EXCEPT !.from = wire.from + n]
      /\ UNCHANGED <<there, logs, opts, request, consumer, erred>>
  BY <1>0 DEF ReceiveChunk, server, Typed
<1>2. /\ wire = Body(wire.log, wire.from, wire.to)
      /\ wire.log \in Nat /\ wire.from \in Nat /\ wire.to \in Nat
      /\ n \in Nat \ {0}
  BY <1>0, <1>1, WireKinds, StreamAssumption DEF Typed
<1>3. wire' = Body(wire.log, wire.from + n, wire.to)
  BY <1>1, <1>2 DEF Body
<1>4. /\ wire' \in Wires /\ wire'.kind = "body" /\ wire'.log = wire.log
      /\ wire'.from = wire.from + n /\ wire'.to = wire.to /\ wire' # Idle
  <2>1. wire.from + n \in Nat
    BY <1>2
  <2> DEFINE from == wire.from + n
             w == Body(wire.log, from, wire.to)
  <2> HIDE DEF from
  <2>2. w \in Wires /\ w.kind = "body" /\ w.log = wire.log /\ w.from = from /\ w.to = wire.to
    BY <1>2, <2>1, WireKinds DEF from
  <2>3. wire' = w
    BY <1>3 DEF from
  <2> HIDE DEF w
  <2>4. w # Idle
    BY <2>2, WireKinds
  <2> QED
    BY <2>2, <2>3, <2>4 DEF from
<1>5. /\ delivered' \in Seq(Byte) /\ delivered' # << >>
      /\ Promise!Position' = Promise!Position + n
      /\ Promise!Reading' = wire.log
  BY <1>0, <1>1, <1>2, MoreBytes
<1>6. /\ wire.log \in 1..Len(logs) /\ wire.from = offset
      /\ wire.to <= Promise!Contents(wire.log) /\ (opts.end # None => wire.to <= opts.end)
      /\ offset = Promise!Position
  BY <1>1 DEF IInv, BodyOK, InStep
<1>7. wire.from + n <= wire.to
  BY <1>1, <1>2
<1>8. Promise!Contents(wire.log)' = Promise!Contents(wire.log)
  BY <1>1 DEF Promise!Contents
<1>9. TypeOK'
  <2>1. offset' \in Nat /\ wire'.from <= wire'.to
    BY <1>0, <1>1, <1>2, <1>4, <1>7 DEF Typed
  <2> QED
    BY <1>0, <1>1, <1>4, <1>5, <2>1, TypedNext DEF Typed
<1>10. RequestOK' /\ EmptyAtEnd' /\ FoundOK'
  BY <1>1, <1>4, <1>5 DEF IInv, RequestOK, EmptyAtEnd, FoundOK, StillFound
<1>11. InStep'
  BY <1>1, <1>4, <1>5, <1>6 DEF InStep
<1>12. BodyOK'
  BY <1>1, <1>2, <1>4, <1>5, <1>6, <1>7, <1>8 DEF BodyOK
<1>13. DeliveredOK'
  <2>1. Promise!Position + n <= wire.to
    BY <1>6, <1>7
  <2>2. /\ Promise!Position \in Nat /\ Promise!Contents(wire.log) \in Nat
        /\ opts.end # None => opts.end \in Nat
    BY <1>0, <1>6, Numbers
  <2>3. Promise!Position + n <= Promise!Contents(wire.log)
    BY <1>2, <1>6, <2>1, <2>2
  <2>4. opts.end # None => Promise!Position + n <= opts.end
    BY <1>2, <1>6, <2>1, <2>2
  <2> QED
    BY <1>1, <1>5, <1>6, <1>8, <2>3, <2>4 DEF DeliveredOK
<1> QED
  BY <1>9, <1>10, <1>11, <1>12, <1>13 DEF IInv

\* A request that ends, in order or not, and a caller that goes on after an
\* error or does not.
LEMMA EndStep ==
  ASSUME IInv, RequestFails \/ PollFinishedRequest \/ BodyBreaks \/ BodyEnds \/ AfterError
  PROVE  IInv'
<1>0. Typed /\ "polling" \notin Over /\ "failed" \notin Over
  BY TypedNow DEF IInv, Over
<1>1. UNCHANGED <<there, logs, opts, offset, gotdata, delivered>>
  BY DEF RequestFails, PollFinishedRequest, BodyBreaks, BodyEnds, AfterError, ReturnError, client,
         server
<1>2. DeliveredOK' /\ offset' = Promise!Position'
  BY <1>1, SameLogs DEF IInv, InStep
<1>3. CASE RequestFails
  <2>1. wire' = Idle /\ consumer' = "failed" /\ erred' = TRUE /\ request = "Request"
        /\ request' = request
    BY <1>3 DEF RequestFails, ReturnError, client
  <2>2. TypeOK'
    BY <1>0, <1>1, <2>1, WireKinds, TypedNext DEF Typed
  <2>3. RequestOK' /\ InStep' /\ BodyOK' /\ EmptyAtEnd' /\ FoundOK'
    BY <1>1, <1>2, <2>1, SameLogs, WireKinds
       DEF IInv, RequestOK, InStep, BodyOK, EmptyAtEnd, FoundOK, StillFound
  <2> QED
    BY <1>2, <2>2, <2>3 DEF IInv
<1>4. CASE PollFinishedRequest \/ AfterError
  <2>1. /\ UNCHANGED <<wire, request, erred>>
        /\ consumer' \in {"polling", "stopped", "panicked"}
    BY <1>4 DEF PollFinishedRequest, AfterError, client
  <2>2. TypeOK'
    <3>1. consumer' \in {"polling", "failed"} \cup Over
      BY <2>1 DEF Over
    <3> QED
      BY <1>0, <1>1, <2>1, <3>1, TypedNext DEF Typed
  <2>3. RequestOK' /\ InStep' /\ BodyOK' /\ EmptyAtEnd' /\ FoundOK'
    BY <1>1, <1>2, <2>1, SameLogs
       DEF IInv, RequestOK, InStep, BodyOK, EmptyAtEnd, FoundOK, StillFound
  <2> QED
    BY <1>2, <2>2, <2>3 DEF IInv
<1>5. CASE BodyBreaks
  <2>1. /\ request = "Stream" /\ wire.kind = "body" /\ wire.from < wire.to
        /\ wire' = [wire EXCEPT !.to = wire.from]
        /\ consumer' = "failed" /\ erred' = TRUE /\ request' = request
    BY <1>0, <1>5 DEF BodyBreaks, ReturnError, client, Typed
  <2>2. /\ wire = Body(wire.log, wire.from, wire.to)
        /\ wire.log \in Nat /\ wire.from \in Nat /\ wire.to \in Nat
    BY <1>0, <2>1, WireKinds DEF Typed
  <2> DEFINE w == Body(wire.log, wire.from, wire.from)
  <2>3. wire' = w
    BY <2>1, <2>2 DEF Body
  <2>4. w \in Wires /\ w.kind = "body" /\ w.log = wire.log /\ w.from = wire.from
        /\ w.to = wire.from
    BY <2>2, WireKinds
  <2> HIDE DEF w
  <2>5. TypeOK'
    BY <1>0, <1>1, <2>1, <2>2, <2>3, <2>4, TypedNext DEF Typed
  <2>6. RequestOK' /\ InStep' /\ EmptyAtEnd' /\ FoundOK'
    BY <1>1, <1>2, <2>1, <2>3, <2>4, SameLogs
       DEF IInv, RequestOK, InStep, EmptyAtEnd, FoundOK, StillFound
  <2>7. BodyOK'
    <3>1. /\ wire.log \in 1..Len(logs) /\ wire.log >= Promise!Reading
          /\ wire.to <= Promise!Contents(wire.log) /\ Promise!Contents(wire.log) \in Nat
          /\ opts.end # None => opts.end \in Nat /\ wire.to <= opts.end
      BY <2>1, <2>2, <1>0, Numbers DEF IInv, BodyOK
    <3>2. wire.from <= Promise!Contents(wire.log) /\ wire.from <= wire.from
          /\ (opts.end # None => wire.from <= opts.end)
      BY <2>1, <2>2, <3>1
    <3> QED
      BY <1>1, <2>3, <2>4, <3>1, <3>2, SameLogs DEF BodyOK
  <2> QED
    BY <1>2, <2>5, <2>6, <2>7 DEF IInv
<1>6. CASE BodyEnds
  <2>1. /\ wire' = Idle /\ request' = "Initial" /\ consumer' \in {"polling", "ended"}
        /\ UNCHANGED erred
    BY <1>6 DEF BodyEnds
  <2>2. TypeOK'
    <3>1. consumer' \in {"polling", "failed"} \cup Over
      BY <2>1 DEF Over
    <3> QED
      BY <1>0, <1>1, <2>1, <3>1, WireKinds, TypedNext DEF Typed
  <2>3. RequestOK' /\ InStep' /\ BodyOK' /\ EmptyAtEnd' /\ FoundOK'
    BY <1>1, <1>2, <2>1, SameLogs, WireKinds
       DEF IInv, RequestOK, InStep, BodyOK, EmptyAtEnd, FoundOK, StillFound
  <2> QED
    BY <1>2, <2>2, <2>3 DEF IInv
<1> QED
  BY <1>3, <1>4, <1>5, <1>6

-----------------------------------------------------------------------------
(* The theorems.                                                           *)

\* Before the first poll, the invariant holds.
LEMMA InitInv == Init => IInv
<1> SUFFICES ASSUME Init PROVE IInv
  OBVIOUS
<1>1. /\ there = {} /\ logs = << >> /\ opts \in Promise!Options /\ offset = opts.offset
      /\ request = "Initial" /\ gotdata = FALSE /\ wire = Idle /\ consumer = "polling"
      /\ erred = FALSE /\ delivered = << >>
  BY DEF Init
<1>2. opts.offset \in Nat
  BY <1>1, StreamAssumption DEF Promise!Options
<1>3. TypeOK
  <2>1. logs \in Seq(Promise!Log) /\ delivered \in Seq(Byte)
    BY <1>1
  <2>2. wire \in Wires
    BY <1>1, WireKinds
  <2> QED
    BY <1>1, <1>2, <2>1, <2>2, TypedNow DEF Typed
<1>4. InStep
  BY <1>1, <1>2, WireKinds DEF InStep, Promise!Position
<1> QED
  BY <1>1, <1>3, <1>4, WireKinds
     DEF IInv, RequestOK, BodyOK, DeliveredOK, EmptyAtEnd, FoundOK

\* Every step preserves it.
LEMMA NextInv == IInv /\ [Next]_vars => IInv'
<1> SUFFICES ASSUME IInv, [Next]_vars PROVE IInv'
  OBVIOUS
<1>1. CASE UNCHANGED vars
  <2>1. UNCHANGED <<there, logs, opts, offset, request, gotdata, wire, consumer, erred, delivered>>
    BY <1>1 DEF vars
  <2>2. TypeOK'
    BY <2>1, TypedNow, TypedNext DEF IInv, Typed
  <2> QED
    BY <2>1, <2>2, SameLogs
       DEF IInv, RequestOK, InStep, BodyOK, DeliveredOK, EmptyAtEnd, FoundOK, StillFound
<1>2. CASE Next
  BY <1>2, ServerStep, AnswerStep, LoseConnectionStep, RequestStep, ChunkStep, EndStep
     DEF Next, Poll
<1> QED
  BY <1>1, <1>2

\* The invariant holds throughout.
THEOREM Invariance == Spec => []IInv
BY InitInv, NextInv, PTL DEF Spec

\* TypeOK: the stream, its request and the connection are well typed, and a body
\* being read is never read past its end.
THEOREM TypeCorrectness == Spec => []TypeOK
<1>1. IInv => TypeOK
  BY DEF IInv
<1> QED
  BY <1>1, Invariance, PTL

\* An answer that fails has a cause in the server's state and the stream's.
LEMMA AnswerHasCause ==
  ASSUME IInv, Answer, wire'.kind = "failed"
  PROVE  LET latest == logs[Len(logs)]
         IN  \/ /\ wire'.why \in DOMAIN Lacking
                /\ Lacking[wire'.why] \notin there
                /\ delivered # << >> => "record" \notin there \/ Promise!Reading < Len(logs)
             \/ /\ wire'.why = "out_of_range"
                /\ Promise!Position > latest.length
                /\ delivered # << >> => Promise!Reading < Len(logs)
             \/ /\ wire'.why = "panic"
                /\ \/ opts.end # None /\ opts.offset > opts.end
                   \/ latest.chunk_size # None
                      /\ Promise!Position + latest.chunk_size > MaxUsize
<1> DEFINE latest == logs[Len(logs)]
<1>0. TypeOK
  BY DEF IInv
<1>1. \A to \in Nat : wire' # Body(Len(logs), offset, to)
  <2>1. Len(logs) \in Nat /\ offset \in Nat
    BY <1>0, Numbers, TypedNow DEF Typed
  <2> QED
    BY <2>1, WireKinds
<1>2. PICK why \in Whys :
        /\ wire' = Failed(why)
        /\ \/ /\ why \in DOMAIN Lacking
              /\ Lacking[why] \notin there
           \/ /\ why = "out_of_range" /\ there = Parts
              /\ Promise!Position > latest.length
           \/ /\ why = "panic" /\ there = Parts
              /\ \/ /\ Promise!Position <= latest.length
                    /\ opts.end # None /\ Promise!Position > opts.end
                 \/ /\ latest.chunk_size # None
                    /\ Promise!Position + latest.chunk_size > MaxUsize
  BY <1>1, Answers
<1>3. wire'.why = why
  BY <1>2, WireKinds
<1>4. /\ delivered # << >> =>
           /\ Promise!Reading \in 1..Len(logs)
           /\ Promise!Position <= Promise!Contents(Promise!Reading)
           /\ opts.end # None => Promise!Position <= opts.end
      /\ delivered # << >> => StillFound(Promise!Reading)
  BY DEF IInv, DeliveredOK, FoundOK
<1>5. /\ Len(logs) \in Nat /\ Promise!Position \in Nat /\ Promise!Reading \in Nat
      /\ opts.offset \in Nat /\ opts.end \in Nat \cup {None}
      /\ \A v \in 1..Len(logs) : Promise!Contents(v) \in Nat
  BY <1>0, Numbers
<1>6. CASE why \in DOMAIN Lacking /\ Lacking[why] \notin there
  <2>1. Lacking[why] \in Parts
    BY <1>6 DEF Lacking, Parts
  <2>2. delivered # << >> => "record" \notin there \/ Promise!Reading < Len(logs)
    BY <1>4, <1>5, <1>6, <2>1 DEF StillFound
  <2> QED
    BY <1>3, <1>6, <2>2
<1>7. CASE why = "out_of_range" /\ Promise!Position > latest.length
  <2>1. delivered # << >> => Promise!Reading < Len(logs)
    <3>1. Promise!Contents(Len(logs)) = latest.length
      BY DEF Promise!Contents
    <3> HIDE DEF latest
    <3> QED
      BY <1>4, <1>5, <1>7, <3>1
  <2> QED
    BY <1>3, <1>7, <2>1
<1>8. CASE /\ why = "panic" /\ Promise!Position <= latest.length
           /\ opts.end # None /\ Promise!Position > opts.end
  <2>1. delivered = << >>
    BY <1>4, <1>5, <1>8
  <2>2. Promise!Position = opts.offset
    BY <1>5, <2>1 DEF Promise!Position
  <2> QED
    BY <1>3, <1>8, <2>2
<1>9. CASE /\ why = "panic" /\ latest.chunk_size # None
           /\ Promise!Position + latest.chunk_size > MaxUsize
  BY <1>3, <1>9
<1> QED
  BY <1>2, <1>6, <1>7, <1>8, <1>9

\* RefusalsHaveCause: a request of the stream is refused only for what is not there
\* or a log that is too short, and once the stream has been given data only when
\* the record it came from is gone or has a new log; and it fails only for the
\* caller's own range or a chunk_size that cannot be added.
THEOREM RefusalsAreCaused == Spec => RefusalsHaveCause
<1> DEFINE Cause ==
      LET latest == logs[Len(logs)]
      IN  \/ /\ wire'.why \in DOMAIN Lacking
             /\ Lacking[wire'.why] \notin there
             /\ delivered # << >> => "record" \notin there \/ Promise!Reading < Len(logs)
          \/ /\ wire'.why = "out_of_range"
             /\ Promise!Position > latest.length
             /\ delivered # << >> => Promise!Reading < Len(logs)
          \/ /\ wire'.why = "panic"
             /\ \/ opts.end # None /\ opts.offset > opts.end
                \/ latest.chunk_size # None /\ Promise!Position + latest.chunk_size > MaxUsize
<1>1. ASSUME IInv, Next, wire.kind = "asked", wire'.kind = "failed", wire'.why # "connection"
      PROVE  Cause
  <2>1. CASE Answer
    BY <1>1, <2>1, AnswerHasCause
  <2>2. CASE LoseConnection
    BY <1>1, <2>2, WireKinds DEF LoseConnection, Whys
  <2>3. wire' # wire /\ wire' # Idle
    BY <1>1, WireKinds
  <2>4. CASE ServerChange
    BY <2>3, <2>4 DEF ServerChange, AddProject, BranchProject, AddPackage, AddOrUpdateRepository,
                WithRepoPackage, AddCompletedBuildLog, DeletePackage, DeleteProject, ServerOnly
  <2>5. request = "Request" /\ wire # Idle
    BY <1>1, WireKinds DEF IInv, RequestOK
  <2>6. CASE Poll
    BY <1>1, <2>3, <2>5, <2>6
       DEF Poll, SendRequest, ReceiveResponse, RequestFails, PollFinishedRequest, ReceiveChunk,
           BodyBreaks, BodyEnds, AfterError
  <2> QED
    BY <1>1, <2>1, <2>2, <2>4, <2>6 DEF Next
<1>2. IInv /\ [Next]_vars =>
        [wire.kind = "asked" /\ wire'.kind = "failed" /\ wire'.why # "connection" => Cause]_vars
  BY <1>1
<1> QED
  BY <1>2, Invariance, PTL DEF Spec, RefusalsHaveCause

-----------------------------------------------------------------------------
(* LogStream implements LogDelivery.                                       *)

\* Before the first poll nothing is promised but the options.
LEMMA InitKeepsPromise == Init => Promise!Init
BY DEF Init, Promise!Init, Over

\* Bytes come from where the stream is, and end where the body and the caller's
\* range do.
LEMMA ChunkKeepsPromise ==
  ASSUME IInv, NEW n \in 1..MaxUsize, ReceiveChunk(n)
  PROVE  Promise!Next
<1>0. Typed /\ TypeOK
  BY TypedNow DEF IInv
<1>1. /\ consumer = "polling" /\ wire.kind = "body" /\ n <= wire.to - wire.from
      /\ delivered' = delivered \o Promise!Bytes(wire.log, wire.from, n)
      /\ UNCHANGED <<logs, opts, consumer, erred>>
  BY <1>0 DEF ReceiveChunk, server, Typed
<1>2. /\ wire.log \in Nat /\ wire.from \in Nat /\ wire.to \in Nat /\ n \in Nat \ {0}
  BY <1>0, <1>1, WireKinds, StreamAssumption DEF Typed
<1>3. /\ wire.log \in 1..Len(logs) /\ wire.log >= Promise!Reading
      /\ wire.from = Promise!Position
      /\ wire.to <= Promise!Contents(wire.log) /\ (opts.end # None => wire.to <= opts.end)
  BY <1>1 DEF IInv, BodyOK, InStep
<1>4. wire.from + n <= wire.to
  BY <1>1, <1>2
<1>5. /\ Promise!Contents(wire.log) \in Nat /\ Promise!Reading \in Nat
      /\ opts.end \in Nat \cup {None}
  BY <1>0, <1>3, Numbers
<1>7. /\ n \in 1..Promise!Contents(wire.log)
      /\ Promise!Position + n <= Promise!Contents(wire.log)
  BY <1>2, <1>3, <1>4, <1>5
<1>8. opts.end # None => Promise!Position + n <= opts.end
  BY <1>2, <1>3, <1>4, <1>5
<1>9. Promise!Deliver(wire.log, n)
  BY <1>1, <1>3, <1>7, <1>8 DEF Promise!Deliver, Over
<1> QED
  BY <1>3, <1>7, <1>9 DEF Promise!Next

\* The stream ends after an error or at an end.
LEMMA EndKeepsPromise ==
  ASSUME IInv, RequestFails \/ PollFinishedRequest \/ BodyBreaks \/ BodyEnds \/ AfterError
  PROVE  [Promise!Next]_(Promise!vars)
<1>1. UNCHANGED <<logs, opts, delivered>> /\ consumer \notin Over
  BY DEF RequestFails, PollFinishedRequest, BodyBreaks, BodyEnds, AfterError, ReturnError,
         client, server, Over
<1>2. CASE RequestFails \/ BodyBreaks
  <2>1. Promise!Fail
    BY <1>1, <1>2 DEF RequestFails, BodyBreaks, ReturnError, Promise!Fail, Over
  <2> QED
    BY <2>1 DEF Promise!Next
<1>3. CASE UNCHANGED erred /\ consumer' \notin Over
  BY <1>1, <1>3 DEF Promise!vars
<1>4. CASE UNCHANGED erred /\ consumer' \in Over /\ (erred \/ Promise!AtEnd)
  <2>1. Promise!Finish
    BY <1>1, <1>4 DEF Promise!Finish
  <2> QED
    BY <2>1 DEF Promise!Next
<1>5. CASE PollFinishedRequest
  <2>1. erred /\ UNCHANGED erred /\ consumer' \in Over
    BY <1>5 DEF PollFinishedRequest, IInv, RequestOK, Over
  <2> QED
    BY <1>4, <2>1
<1>6. CASE AfterError
  <2>1. erred /\ UNCHANGED erred
    BY <1>6 DEF AfterError, IInv, RequestOK
  <2> QED
    BY <1>3, <1>4, <2>1
<1>7. CASE BodyEnds
  <2>1. /\ UNCHANGED erred /\ request = "Stream" /\ wire.from = wire.to
        /\ consumer' \in Over => ~gotdata \/ (opts.end # None /\ offset >= opts.end)
    BY <1>1, <1>7 DEF BodyEnds
  <2>2. wire.kind = "body" /\ offset = Promise!Position
    BY <2>1 DEF IInv, TypeOK, InStep
  <2>3. ~gotdata => erred \/ Promise!AtEnd
    BY <2>1, <2>2 DEF IInv, EmptyAtEnd
  <2>4. opts.end # None /\ offset >= opts.end => Promise!AtEnd
    BY <2>2 DEF Promise!AtEnd
  <2> QED
    BY <1>3, <1>4, <2>1, <2>3, <2>4
<1> QED
  BY <1>2, <1>5, <1>6, <1>7

\* Every step is one of LogDelivery or changes nothing of it.
LEMMA NextKeepsPromise == IInv /\ [Next]_vars => [Promise!Next]_(Promise!vars)
<1> SUFFICES ASSUME IInv, [Next]_vars PROVE [Promise!Next]_(Promise!vars)
  OBVIOUS
<1>1. ASSUME UNCHANGED <<logs, opts, delivered, erred, consumer>>
      PROVE  [Promise!Next]_(Promise!vars)
  BY <1>1 DEF Promise!vars
<1>2. CASE UNCHANGED vars
  BY <1>1, <1>2 DEF vars
<1>3. CASE ServerChange
  <2>1. UNCHANGED <<opts, delivered, erred, consumer>>
    BY <1>3 DEF ServerChange, AddProject, BranchProject, AddPackage, AddOrUpdateRepository,
                WithRepoPackage, AddCompletedBuildLog, DeletePackage, DeleteProject, ServerOnly,
                client
  <2>2. UNCHANGED logs \/ \E log \in Promise!Log : logs' = Append(logs, log)
    BY <1>3 DEF ServerChange, AddProject, BranchProject, AddPackage, AddOrUpdateRepository,
                WithRepoPackage, AddCompletedBuildLog, DeletePackage, DeleteProject, SetLatest,
                Promise!Log
  <2> QED
    BY <1>1, <2>1, <2>2 DEF Promise!Publish, Promise!Next
<1>4. CASE Answer \/ LoseConnection \/ SendRequest \/ ReceiveResponse
  BY <1>1, <1>4 DEF Answer, LoseConnection, SendRequest, ReceiveResponse, client, server
<1> QED
  BY <1>2, <1>3, <1>4, ChunkKeepsPromise, EndKeepsPromise DEF Next, Poll

\* DeliversInOrder: over any number of requests, with bodies cut up and cut off
\* and logs replaced between requests, no byte is left out, repeated or out of
\* order, none is past the end asked for, and a stream that ends without an
\* error was at the end.
THEOREM ImplementsLogDelivery == Spec => DeliversInOrder
<1>1. Init => Promise!Init
  BY InitKeepsPromise
<1>2. IInv /\ [Next]_vars => [Promise!Next]_(Promise!vars)
  BY NextKeepsPromise
<1> QED
  BY <1>1, <1>2, Invariance, PTL DEF Spec, DeliversInOrder, Promise!Spec
=============================================================================
