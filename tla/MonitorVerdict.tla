--------------------------- MODULE MonitorVerdict ---------------------------
(***************************************************************************)
(* What obsctl monitor promises: it hears of builds, of each build one     *)
(* code after the other, and ends with a verdict when the last code it     *)
(* heard of each build is final, or with an error.  A build it has heard   *)
(* of is never dropped, and a code that is known never becomes unknown.    *)
(***************************************************************************)
CONSTANTS
  Pairs,             \* repository/architecture pairs of the package
  PackageCodes,      \* codes of a build
  UNKNOWN,           \* the code that tells nothing
  FinalCodes,        \* codes after which a build does not go on by itself
  Unbuilt,           \* final codes of a build that is not wanted
  FAILED             \* the final code of a failed build

VARIABLES
  heard,             \* the last code heard of each build
  verdict            \* "none" until the end

vars == <<heard, verdict>>

AllFinal(codes) == \A p \in DOMAIN codes : codes[p] \in FinalCodes

VerdictOf(codes) ==
  IF \A p \in DOMAIN codes : codes[p] \in Unbuilt THEN "not_built"
  ELSE IF \E p \in DOMAIN codes : codes[p] = FAILED THEN "failed"
  ELSE "good"

Init == heard = << >> /\ verdict = "none"

\* One answer of the server: codes of some builds, new ones among them.
Hear ==
  /\ verdict = "none"
  /\ \E P \in SUBSET Pairs : heard' \in [P -> PackageCodes]
  /\ DOMAIN heard \subseteq DOMAIN heard'
  /\ \A p \in DOMAIN heard : heard[p] # UNKNOWN => heard'[p] # UNKNOWN
  /\ verdict' = IF AllFinal(heard') THEN VerdictOf(heard') ELSE "none"

GiveUp == verdict = "none" /\ verdict' = "error" /\ UNCHANGED heard

Next == Hear \/ GiveUp

Spec == Init /\ [][Next]_vars
=============================================================================
