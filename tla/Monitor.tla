------------------------------- MODULE Monitor -------------------------------
(***************************************************************************)
(* obsctl monitor (obsctl/src/main.rs): it asks the server for the results *)
(* of a package every 20 seconds, remembers the last code it knows of each *)
(* repository and architecture, and stops when all of them are final.      *)
(*                                                                         *)
(* The server is the scheduler of a real OBS, external to this code: what  *)
(* it says of a build may change in any way between two answers.  What     *)
(* changes while an answer is on its way the monitor learns from the next  *)
(* one only, so a request, its answer and the loop over the results are    *)
(* one step.  A result that is dirty is about to be computed again.        *)
(***************************************************************************)
EXTENDS Naturals, Sequences, FiniteSets, SequencesExt

CONSTANTS
  Pairs,             \* pairs <<repository, architecture>>
  ServerCodes,       \* codes the server gives a build of the package
  NoStatus,          \* a result without a status of the package
  NotListed          \* no result for this pair

PackageCodes == {"unresolvable", "succeeded", "dispatching", "failed", "broken", "disabled",
                 "excluded", "blocked", "locked", "unknown", "scheduled", "building",
                 "finished"}

ASSUME MonitorAssumption ==
  /\ IsFiniteSet(Pairs)
  /\ ServerCodes \subseteq PackageCodes
  /\ NoStatus \notin PackageCodes

VARIABLES
  server,            \* server[p]: the result for p, or NotListed
  last,              \* the vector of MonitorData
  verdict            \* how the monitor ended, or "none"

vars == <<server, last, verdict>>

Result == [dirty : BOOLEAN, code : ServerCodes \cup {NoStatus}]
MonitorData == [pair : Pairs, code : PackageCodes]

TypeOK ==
  /\ server \in [Pairs -> Result \cup {NotListed}]
  /\ last \in Seq(MonitorData)
  /\ \A i, j \in DOMAIN last : last[i].pair = last[j].pair => i = j
  /\ verdict \in {"none", "not_built", "failed", "good", "error"}

Init ==
  /\ server \in [Pairs -> {NotListed, [dirty |-> TRUE, code |-> NoStatus]}]
  /\ last = << >>
  /\ verdict = "none"

Listed == {p \in Pairs : server[p] # NotListed}

-----------------------------------------------------------------------------

\* The scheduler of the server, while there is a monitor to see what it does.
ServerMoves(p, result) ==
  /\ verdict = "none"
  /\ server' = [server EXCEPT ![p] = result]
  /\ UNCHANGED <<last, verdict>>

\* An error of the request ends the monitor.
PollFails ==
  /\ verdict = "none"
  /\ verdict' = "error"
  /\ UNCHANGED <<server, last>>

\* An answer without any result does not parse.
EmptyAnswer == Listed = {} /\ PollFails

\* Mutant of FromResult: the dirty flag is not looked at.
FromDirtyResult(p, result) ==
  [pair |-> p, code |-> IF result.code = NoStatus THEN "unknown" ELSE result.code]

FromResult(p, result) ==
  [pair |-> p,
   code |-> IF result.dirty \/ result.code = NoStatus THEN "unknown" ELSE result.code]

\* Mutant of SamePair: entries are found by their repository.
SameRepository(entry, data) == entry.pair[1] = data.pair[1]

SamePair(entry, data) == entry.pair = data.pair

\* Mutant of Remember: what is not known any more is forgotten.
RememberUnknown(entries, data) ==
  LET i == SelectInSeq(entries, LAMBDA entry : SamePair(entry, data))
  IN  IF i = 0 THEN Append(entries, data) ELSE [entries EXCEPT ![i] = data]

\* Mutant of Remember: entries are not looked for.
RememberTwice(entries, data) == Append(entries, data)

\* What becomes of the entries with the next result: a new one is remembered
\* in any case, an old one changes only to a code that is known.
Remember(entries, data) ==
  LET i == SelectInSeq(entries, LAMBDA entry : SamePair(entry, data))
  IN  IF i = 0 THEN Append(entries, data)
      ELSE IF data.code # "unknown" THEN [entries EXCEPT ![i] = data]
      ELSE entries

\* Mutant of IsFinal: an excluded build is waited for.
IsFinalIfBuilt(code) == code \in {"broken", "disabled", "failed", "succeeded"}

IsFinal(code) == code \in {"broken", "disabled", "excluded", "failed", "succeeded"}

\* The tests after the loop, in their order.
Outcome(entries) ==
  LET codes == {entries[i].code : i \in DOMAIN entries}
  IN  IF codes \subseteq {"excluded", "disabled"} THEN "not_built"
      ELSE IF "failed" \in codes THEN "failed"
      ELSE "good"

\* An answer: every result is looked at, then whether all entries are final; if
\* they are not, the monitor sleeps until it is time to ask again.  The order
\* of the results is that of a map of the server, and tells nothing.
Poll ==
  /\ verdict = "none"
  /\ Listed # {}
  /\ UNCHANGED server
  /\ last' = FoldLeft(LAMBDA entries, p : Remember(entries, FromResult(p, server[p])),
                      last, SetToSeq(Listed))
  /\ verdict' = IF \A i \in DOMAIN last' : IsFinal(last'[i].code) THEN Outcome(last')
                ELSE "none"

Next ==
  \/ Poll \/ EmptyAnswer \/ PollFails
  \/ \E p \in Pairs, result \in Result \cup {NotListed} : ServerMoves(p, result)

\* The monitor runs on: each request is answered, unless it fails, and the sleep
\* between two ends.  Nothing is assumed of what the server says, nor that
\* there is ever an error.
Fairness == WF_vars(Poll \/ EmptyAnswer)

Spec == Init /\ [][Next]_vars /\ Fairness

-----------------------------------------------------------------------------
(* Properties.                                                             *)

\* Codes after which a build does not go on by itself.
FinalCodes == {"broken", "disabled", "excluded", "failed", "succeeded"}

Known(p) == last[SelectInSeq(last, LAMBDA entry : entry.pair = p)].code

Heard == {last[i].pair : i \in DOMAIN last}

Promise == INSTANCE MonitorVerdict WITH
  heard <- [p \in Heard |-> Known(p)], UNKNOWN <- "unknown",
  Unbuilt <- {"disabled", "excluded"}, FAILED <- "failed"

\* The vector of entries, searched and updated one result at a time, does what
\* MonitorVerdict promises: one code per build, none dropped or forgotten, and
\* a verdict only when all are final, and the right one.
KeepsPromise == Promise!Spec

\* The monitor ends with a verdict only on an answer (the server stays as it was
\* in the last one) in which every result that tells something is final and is
\* what the monitor remembers: what it remembers and the answer does not say is
\* of results that are dirty, have no status or are gone.
VerdictOnQuietAnswer ==
  verdict \notin {"none", "error"} =>
    \A p \in Listed : ~server[p].dirty /\ server[p].code \notin {NoStatus, "unknown"} =>
      server[p].code \in FinalCodes /\ p \in Heard /\ Known(p) = server[p].code

\* A verdict rests on no result that was only ever seen dirty: what a dirty
\* result is counted as was known from an answer before it.
VerdictNotFromDirty ==
  [][verdict' \notin {"none", "error"} =>
       \A p \in Listed : server[p].dirty =>
         p \in Heard /\ Known(p) = Known(p)']_vars

\* Every result is clean and final, and all that was ever listed still is.
Settled ==
  /\ \A p \in Listed : ~server[p].dirty /\ server[p].code \in FinalCodes
  /\ Heard \subseteq Listed

\* If the server settles for good, the monitor ends.  (One that unlists a build
\* which was not final, or leaves one in a code that is not, is waited for
\* forever.)
EndsOnceSettled == <>[]Settled => <>(verdict # "none")
=============================================================================
