----------------------------- MODULE RevisionLog -----------------------------
(***************************************************************************)
(* What committing promises to several clients at once: a package is a log *)
(* of revisions, each the whole list of one client.  A commit takes effect *)
(* once, at one moment between its call and its answer, or not at all; the *)
(* caller that gets no answer does not know which.  Only the deletion of   *)
(* the package takes revisions away.                                       *)
(***************************************************************************)
EXTENDS Sequences

CONSTANTS
  Clients,
  Whole(_)           \* the revision that a client's list makes

VARIABLES
  log,               \* the revisions of the package
  call               \* what has become of each client's commit

vars == <<log, call>>

Init == log = << >> /\ call = [c \in Clients |-> "none"]

Moves(c, from, to) == call[c] = from /\ call' = [call EXCEPT ![c] = to]

Call(c) == Moves(c, "none", "called") /\ UNCHANGED log

TakeEffect(c) == Moves(c, "called", "done") /\ log' = Append(log, Whole(c))

Answer(c) == Moves(c, "done", "committed") /\ UNCHANGED log

\* Refused or lost: the call is over, and may be made again.
NoSuccess(c) == (Moves(c, "called", "none") \/ Moves(c, "done", "none")) /\ UNCHANGED log

Delete == log' = << >> /\ UNCHANGED call

Next ==
  \/ Delete
  \/ \E c \in Clients : Call(c) \/ TakeEffect(c) \/ Answer(c) \/ NoSuccess(c)

Spec == Init /\ [][Next]_vars
=============================================================================
