----------------------------- MODULE JobHistory -----------------------------
(***************************************************************************)
(* The answer of BuildJobHistoryResponder: the entries of the job history  *)
(* of a repository and architecture that pass the filters of the request,  *)
(* up to its limit.  An entry is its package and code.                     *)
(***************************************************************************)
EXTENDS Naturals, Sequences, FiniteSets, SequencesExt

JobCodes == {"unresolvable", "succeeded", "dispatching", "failed", "broken", "disabled",
             "excluded", "blocked", "locked", "unknown", "scheduled", "building", "finished"}

CONSTANT NotANumber   \* a value of the parameter limit that does not parse

\* query.limits are the values of the parameter limit, in their order: the
\* first is parsed before a second one is refused.  That refusal has the HTTP
\* status 200.
QueryError(query) ==
  IF query.limits # << >> /\ query.limits[1] = NotANumber THEN "bad_request"
  ELSE IF Len(query.limits) > 1 THEN "limit_set_twice"
  ELSE "none"

\* Names that are no code are ignored, also if there are no others.
Passes(query, job) ==
  LET codes == query.codes \cap JobCodes
  IN  /\ query.packages # {} => job.package \in query.packages
      /\ codes # {} => job.code \in codes

\* Mutant of Reached: the limit counts one more.
ReachedAfter(limits, n) == limits # << >> /\ limits[1] > 0 /\ n > limits[1]

\* No limit, or limit 0, is never reached.
Reached(limits, n) == limits # << >> /\ limits[1] > 0 /\ n >= limits[1]

\* One turn of the loop over the history: an entry that passes is written, and
\* the one that reaches the limit ends the loop.
Turn(query, written, job) ==
  IF written.ended \/ ~Passes(query, job) THEN written
  ELSE [jobs |-> Append(written.jobs, job),
        ended |-> Reached(query.limits, Len(written.jobs) + 1)]

Answered(jobhist, query) ==
  FoldLeft(LAMBDA written, job : Turn(query, written, job),
           [jobs |-> << >>, ended |-> FALSE], jobhist).jobs

\* Mutant of JobHistoryReply: the second limit is refused after the history is
\* written.
JobHistoryReplyRefusedLate(jobhist, query) ==
  LET error == QueryError(query)
  IN  IF error = "bad_request" THEN [code |-> error, jobs |-> << >>]
      ELSE [code |-> IF error = "none" THEN "ok" ELSE error, jobs |-> Answered(jobhist, query)]

JobHistoryReply(jobhist, query) ==
  IF QueryError(query) # "none" THEN [code |-> QueryError(query), jobs |-> << >>]
  ELSE [code |-> "ok", jobs |-> Answered(jobhist, query)]
=============================================================================
