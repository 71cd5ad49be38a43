---------------------------- MODULE MCClientCalls ----------------------------
(* Values for the constants of ClientCalls: names that occur in routes, and  *)
(* one that is written otherwise in a URL.                                   *)
EXTENDS ClientCalls

OddNames ==
  [project |-> {"prj", "a b", "build"},
   package |-> {"pkg", "_meta", "_jobhistory", "build"},
   repository |-> {"repo", "_result", "build"},
   arch |-> {"x86_64", "build"},
   file |-> {"file", "a b", "_history", "_log", "_status"}]

OddlyWritten == {"a b"}
PercentWritten(name) == "a%20b"

OneHome == [project |-> "prj", repository |-> "repo", arch |-> "x86_64"]

SomeJobs ==
  {[package |-> "pkg", code |-> "succeeded"], [package |-> "pkg", code |-> "failed"],
   [package |-> "other", code |-> "succeeded"]}

Asks(packages, codes, limits) == [packages |-> packages, codes |-> codes, limits |-> limits]

SomeQueries ==
  [packages : {{}, {"pkg"}}, codes : {{}, {"succeeded"}, {"no code"}},
   limits : {<< >>, <<0>>, <<1>>, <<2>>}]
    \cup {Asks({}, {}, <<NotANumber>>), Asks({}, {}, <<1, 1>>)}
=============================================================================
