-------------------------- MODULE ClientCallsProofs --------------------------
(***************************************************************************)
(* The job history that a call gets, for any histories, queries and names. *)
(* The answer is a fold over the history; by induction over its entries,   *)
(* what is written after each of them is what was asked for of those.      *)
(*                                                                         *)
(* Then which names get through, for any names: what the first mount is    *)
(* that fits a request depends on the number of its segments, its first    *)
(* one and the few that a word of a route is compared with.                *)
(***************************************************************************)
EXTENDS ClientCalls, LibraryLemmas, SequenceTheorems

-----------------------------------------------------------------------------
(* How many entries are asked for.                                         *)

\* The number is one, and each entry that is asked for counts.
LEMMA AskedCounts ==
  ASSUME NEW query, NEW n \in Nat
  PROVE  /\ Asked(query, n) \in Nat /\ Asked(query, 0) = 0
         /\ Asked(query, n + 1) = IF Wanted(query, jobhist[n + 1]) THEN Asked(query, n) + 1
                                  ELSE Asked(query, n)
<1> DEFINE A(k) == {i \in 1..k : Wanted(query, jobhist[i])}
<1>1. ASSUME NEW k \in Nat
      PROVE  IsFiniteSet(A(k)) /\ Cardinality(A(k)) \in Nat
  <2>1. IsFiniteSet(1..k)
    BY FS_Interval
  <2>2. IsFiniteSet(A(k))
    BY <2>1, FS_Subset
  <2> QED
    BY <2>2, FS_CardinalityType
<1>2. A(0) = {}
  OBVIOUS
<1>3. CASE Wanted(query, jobhist[n + 1])
  <2>1. A(n + 1) = A(n) \cup {n + 1}
    BY <1>3
  <2>2. n + 1 \notin A(n)
    OBVIOUS
  <2> HIDE DEF A
  <2>3. Cardinality(A(n + 1)) = Cardinality(A(n)) + 1
    BY <1>1, <2>1, <2>2, FS_AddElement
  <2> QED
    BY <1>1, <1>2, <1>3, <2>3, FS_EmptySet DEF Asked, A
<1>4. CASE ~Wanted(query, jobhist[n + 1])
  <2>1. A(n + 1) = A(n)
    BY <1>4
  <2> QED
    BY <1>1, <1>2, <1>4, <2>1, FS_EmptySet DEF Asked
<1> QED
  BY <1>3, <1>4

\* It only grows with the history, and is none for no entry that is asked for.
LEMMA AskedGrows ==
  ASSUME NEW query, NEW n \in Nat, NEW i \in 1..n
  PROVE  /\ Asked(query, i) \in Nat /\ Asked(query, i) <= Asked(query, n)
         /\ Wanted(query, jobhist[i]) => Asked(query, i) >= 1
<1> DEFINE A(k) == {j \in 1..k : Wanted(query, jobhist[j])}
<1>1. IsFiniteSet(1..n)
  BY FS_Interval
<1>2. IsFiniteSet(A(n)) /\ A(i) \in SUBSET A(n)
  BY <1>1, FS_Subset
<1>3. IsFiniteSet(A(i)) /\ Cardinality(A(i)) <= Cardinality(A(n))
  BY <1>2, FS_Subset
<1>4. Cardinality(A(i)) \in Nat
  BY <1>3, FS_CardinalityType
<1>5. Wanted(query, jobhist[i]) => A(i) # {}
  <2>1. i \in 1..i
    OBVIOUS
  <2> QED
    BY <2>1
<1> HIDE DEF A
<1>6. A(i) # {} => Cardinality(A(i)) # 0
  BY <1>3, FS_EmptySet
<1>7. Asked(query, i) = Cardinality(A(i)) /\ Asked(query, n) = Cardinality(A(n))
  BY DEF Asked, A
<1> QED
  BY <1>3, <1>4, <1>5, <1>6, <1>7

-----------------------------------------------------------------------------
(* What is written.                                                        *)

\* What may be written, and whether the loop has ended.
Writings == [jobs : Seq(Jobs), ended : BOOLEAN]

Limited(query) == query.limits # << >> /\ query.limits[1] > 0

\* A query that is not refused: its limit is a number.
Asks(query) == query.limits # << >> => query.limits[1] \in Nat

\* What is written after the first n entries.
Reads(written, query, n) ==
  /\ written \in Writings /\ ToSet(written.jobs) \subseteq ToSet(jobhist)
  /\ Len(written.jobs) = IF Limited(query) /\ query.limits[1] < Asked(query, n)
                         THEN query.limits[1] ELSE Asked(query, n)
  /\ written.ended <=> Limited(query) /\ query.limits[1] <= Asked(query, n)
  /\ \A i \in 1..n :
       Wanted(query, jobhist[i]) /\ Asked(query, i) <= Len(written.jobs) =>
         written.jobs[Asked(query, i)] = jobhist[i]

\* The filter passes what is asked for: the codes it ignores are no job's.
LEMMA PassesWanted ==
  ASSUME NEW query, NEW job \in Jobs
  PROVE  Passes(query, job) <=> Wanted(query, job)
<1> DEFINE codes == query.codes \cap JobCodes
<1>1. Passes(query, job) <=> /\ query.packages # {} => job.package \in query.packages
                             /\ codes # {} => job.code \in codes
  BY DEF Passes
<1>2. job.code \in codes <=> job.code \in query.codes
  BY CallsAssumption
<1> QED
  BY <1>1, <1>2 DEF Wanted

\* A turn of the loop stays among what may be written.
LEMMA TurnWrites ==
  ASSUME NEW query, NEW written \in Writings, NEW job \in Jobs
  PROVE  Turn(query, written, job) \in Writings
<1>1. Reached(query.limits, Len(written.jobs) + 1) \in BOOLEAN
  BY DEF Reached
<1>2. Append(written.jobs, job) \in Seq(Jobs)
  BY DEF Writings
<1> QED
  BY <1>1, <1>2 DEF Turn, Writings

\* An entry more.
LEMMA TurnReads ==
  ASSUME jobhist \in Seq(Jobs), NEW query, Asks(query), NEW written, NEW n \in Nat,
         n + 1 \in DOMAIN jobhist, Reads(written, query, n)
  PROVE  Reads(Turn(query, written, jobhist[n + 1]), query, n + 1)
<1> DEFINE m == n + 1
           job == jobhist[m]
           new == Turn(query, written, job)
           limit == query.limits[1]
           a == Asked(query, n)
           b == Asked(query, m)
           len == Len(written.jobs)
<1>1. /\ job \in Jobs /\ job \in ToSet(jobhist) /\ m \in Nat
  BY DEF ToSet
<1>2. /\ a \in Nat /\ b = IF Wanted(query, job) THEN a + 1 ELSE a
  BY AskedCounts
<1>3. \A i \in 1..n : /\ Asked(query, i) \in Nat /\ Asked(query, i) <= a
                      /\ Wanted(query, jobhist[i]) => Asked(query, i) >= 1
  BY AskedGrows
<1>4. /\ written \in Writings /\ ToSet(written.jobs) \subseteq ToSet(jobhist)
      /\ len = IF Limited(query) /\ limit < a THEN limit ELSE a
      /\ written.ended <=> Limited(query) /\ limit <= a
      /\ \A i \in 1..n : Wanted(query, jobhist[i]) /\ Asked(query, i) <= len =>
                           written.jobs[Asked(query, i)] = jobhist[i]
  BY DEF Reads
<1>5. written.jobs \in Seq(Jobs) /\ len \in Nat
  BY <1>4 DEF Writings
<1>6. Limited(query) => limit \in Nat /\ limit > 0
  BY DEF Limited, Asks
<1>7. new \in Writings
  BY <1>1, <1>4, TurnWrites
<1>8. ASSUME NEW i \in 1..m
      PROVE  i \in 1..n \/ i = m
  OBVIOUS
<1> HIDE DEF m, job, a, b, len, limit
<1>9. CASE ~Wanted(query, job)
  <2>1. new = written /\ b = a
    BY <1>1, <1>2, <1>9, PassesWanted DEF Turn
  <2> HIDE DEF new
  <2>2. \A i \in 1..m : Wanted(query, jobhist[i]) /\ Asked(query, i) <= len =>
                          written.jobs[Asked(query, i)] = jobhist[i]
    BY <1>4, <1>8, <1>9 DEF job
  <2>3. Reads(new, query, m)
    BY <1>4, <2>1, <2>2 DEF Reads, b, limit, len
  <2> QED
    BY <2>3 DEF new, m, job
<1>10. CASE Wanted(query, job) /\ written.ended
  <2>1. new = written /\ b = a + 1
    BY <1>2, <1>10 DEF Turn
  <2> HIDE DEF new
  <2>2. Limited(query) /\ limit <= a /\ len = limit /\ limit < b
    BY <1>2, <1>4, <1>6, <1>10, <2>1
  <2>3. ~(b <= len)
    BY <1>2, <1>6, <2>1, <2>2
  <2>4. \A i \in 1..m : Wanted(query, jobhist[i]) /\ Asked(query, i) <= len =>
                          written.jobs[Asked(query, i)] = jobhist[i]
    BY <1>4, <1>8, <2>3 DEF b
  <2>5. len = IF Limited(query) /\ limit < b THEN limit ELSE b
    BY <2>2
  <2>6. written.ended <=> Limited(query) /\ limit <= b
    BY <1>2, <1>6, <1>10, <2>1, <2>2
  <2>7. Reads(new, query, m)
    BY <1>4, <2>1, <2>4, <2>5, <2>6 DEF Reads, b, limit, len
  <2> QED
    BY <2>7 DEF new, m, job
<1>11. CASE Wanted(query, job) /\ ~written.ended
  <2> DEFINE jobs == Append(written.jobs, job)
  <2>1. /\ new.jobs = jobs /\ (new.ended <=> Reached(query.limits, len + 1)) /\ b = a + 1
    BY <1>1, <1>2, <1>11, PassesWanted DEF Turn, len
  <2>2. /\ Len(jobs) = len + 1 /\ jobs[len + 1] = job
        /\ \A i \in 1..len : jobs[i] = written.jobs[i]
        /\ \A i \in DOMAIN jobs : i \in 1..len \/ i = len + 1
    BY <1>5 DEF len
  <2>3. ToSet(jobs) \subseteq ToSet(jobhist)
    <3>1. \A i \in 1..len : written.jobs[i] \in ToSet(jobhist)
      <4>1. DOMAIN written.jobs = 1..len
        BY <1>5 DEF len
      <4> QED
        BY <1>4, <4>1 DEF ToSet
    <3> QED
      BY <1>1, <2>2, <3>1 DEF ToSet
  <2> HIDE DEF jobs, new
  <2>4. len = a /\ (Limited(query) => a < limit) /\ len + 1 = b
    BY <1>2, <1>4, <1>6, <1>11, <2>1
  <2>5. Len(jobs) = IF Limited(query) /\ limit < b THEN limit ELSE b
    BY <1>2, <1>6, <2>1, <2>2, <2>4
  <2>6. new.ended <=> Limited(query) /\ limit <= b
    <3>1. Reached(query.limits, b) <=> Limited(query) /\ b >= limit
      BY DEF Reached, Limited, limit
    <3>2. Limited(query) => (b >= limit <=> limit <= b)
      BY <1>2, <1>6, <2>1
    <3> QED
      BY <2>1, <2>4, <3>1, <3>2
  <2>7. ASSUME NEW i \in 1..m, Wanted(query, jobhist[i]), Asked(query, i) <= Len(jobs)
        PROVE  jobs[Asked(query, i)] = jobhist[i]
    <3>1. CASE i = m
      BY <2>2, <2>4, <3>1 DEF b, job
    <3>2. CASE i \in 1..n
      <4>1. Asked(query, i) \in 1..len
        BY <1>3, <1>5, <2>4, <2>7, <3>2
      <4>2. written.jobs[Asked(query, i)] = jobhist[i]
        BY <1>4, <2>7, <3>2, <4>1
      <4> QED
        BY <2>2, <4>1, <4>2
    <3> QED
      BY <1>8, <3>1, <3>2
  <2>8. Reads(new, query, m)
    BY <1>7, <2>1, <2>3, <2>5, <2>6, <2>7 DEF Reads, b, limit
  <2> QED
    BY <2>8 DEF new, m, job
<1> QED
  BY <1>9, <1>10, <1>11

-----------------------------------------------------------------------------
(* The fold over the history, for which the library has a function of the  *)
(* sets of entries that it has read: there is one, and its value for the   *)
(* first n entries is what is written after them.                          *)

Nothing == [jobs |-> << >>, ended |-> FALSE]

Body(s, f, query) ==
  IF s = {} THEN Nothing ELSE Turn(query, f[s \ {Max(s)}], jobhist[Max(s)])

\* f says what is written after any of the first n entries.
Folds(f, n, query) == f = [s \in SUBSET (1..n) |-> Body(s, f, query)]

\* The fold of the library is such a function.
LEMMA FoldIsIteration ==
  ASSUME NEW query
  PROVE  Answered(jobhist, query)
           = (CHOOSE f : f = [s \in SUBSET DOMAIN jobhist |-> Body(s, f, query)])
               [DOMAIN jobhist].jobs
BY DEF Answered, FoldLeft, MapThenFoldSet, Body, Nothing

\* Nothing is written before the first entry.
LEMMA NothingReads ==
  ASSUME NEW query, Asks(query)
  PROVE  Nothing \in Writings /\ Reads(Nothing, query, 0)
<1>1. Nothing \in Writings /\ Nothing.jobs = << >> /\ Nothing.ended = FALSE
  BY DEF Nothing, Writings
<1>2. Asked(query, 0) = 0
  BY AskedCounts
<1>3. Limited(query) => query.limits[1] \in Nat /\ query.limits[1] > 0
  BY DEF Limited, Asks
<1>4. Len(<< >>) = 0 /\ ToSet(<< >>) \subseteq ToSet(jobhist) /\ 1..0 = {}
  BY DEF ToSet
<1> QED
  BY <1>1, <1>2, <1>3, <1>4 DEF Reads

\* There is one.
LEMMA IterationExists ==
  ASSUME jobhist \in Seq(Jobs), NEW query, Asks(query)
  PROVE  \E f : Folds(f, Len(jobhist), query)
<1> DEFINE n == Len(jobhist)
           step == [x \in Writings \X (1..n) |-> Turn(query, x[1], jobhist[x[2]])]
<1>1. n \in Nat /\ \A i \in 1..n : jobhist[i] \in Jobs
  OBVIOUS
<1> HIDE DEF n
<1>2. ASSUME NEW written \in Writings, NEW i \in 1..n
      PROVE  /\ step[<<written, i>>] = Turn(query, written, jobhist[i])
             /\ step[<<written, i>>] \in Writings
  BY <1>1, TurnWrites
<1>3. step \in [Writings \X (1..n) -> Writings]
  <2>1. \A x \in Writings \X (1..n) : Turn(query, x[1], jobhist[x[2]]) \in Writings
    BY <1>1, TurnWrites
  <2> QED
    BY <2>1
<1>4. Nothing \in Writings
  BY NothingReads
<1> HIDE DEF step
<1>5. PICK f \in [SUBSET (1..n) -> Writings] : Comes(f, n, Nothing, step)
  BY <1>1, <1>3, <1>4, StepsExist
<1>6. ASSUME NEW s \in SUBSET (1..n)
      PROVE  f[s] = Body(s, f, query)
  <2>1. CASE s = {}
    BY <1>5, <2>1 DEF Body, Comes
  <2>2. CASE s # {}
    <3>1. Max(s) \in 1..n /\ s \ {Max(s)} \in SUBSET (1..n)
      BY <1>1, <2>2, MaxOfFirst
    <3>2. f[s \ {Max(s)}] \in Writings
      BY <3>1
    <3>3. f[s] = step[<<f[s \ {Max(s)}], Max(s)>>]
      BY <1>5, <2>2 DEF Comes
    <3> QED
      BY <1>2, <2>2, <3>1, <3>2, <3>3 DEF Body
  <2> QED
    BY <2>1, <2>2
<1>7. Folds(f, n, query)
  BY <1>5, <1>6 DEF Folds
<1> QED
  BY <1>7 DEF n

\* What is answered is what the whole history reads.
LEMMA AnsweredReads ==
  ASSUME jobhist \in Seq(Jobs), NEW query, Asks(query)
  PROVE  \E written : Answered(jobhist, query) = written.jobs /\ Reads(written, query, Len(jobhist))
<1> DEFINE n == Len(jobhist)
           f == CHOOSE g : g = [s \in SUBSET DOMAIN jobhist |-> Body(s, g, query)]
<1>1. n \in Nat /\ DOMAIN jobhist = 1..n
  OBVIOUS
<1>2. Answered(jobhist, query) = f[1..n].jobs
  BY <1>1, FoldIsIteration
<1>3. Folds(f, n, query)
  <2>1. \E g : Folds(g, n, query)
    BY IterationExists
  <2> QED
    BY <1>1, <2>1 DEF Folds
<1> HIDE DEF f, n
<1> DEFINE Good == {i \in Nat : i <= n => Reads(f[1..i], query, i)}
<1>4. 0 \in Good
  <2>1. f[1..0] = Nothing
    BY <1>1, <1>3 DEF Folds, Body
  <2> QED
    BY <2>1, NothingReads
<1>5. ASSUME NEW i \in Nat, i \in Good
      PROVE  i + 1 \in Good
  <2> DEFINE m == i + 1
  <2> SUFFICES ASSUME m <= n
               PROVE  Reads(f[1..m], query, m)
    OBVIOUS
  <2>1. Reads(f[1..i], query, i) /\ m \in 1..n /\ m \in Nat
    BY <1>1, <1>5
  <2>2. f[1..m] = Turn(query, f[1..i], jobhist[m])
    <3>1. 1..m \in SUBSET (1..n) /\ 1..m # {} /\ m \in 1..m
      <4>1. m \in Nat /\ m >= 1 /\ m <= n /\ n \in Nat
        BY <1>1, <2>1
      <4> HIDE DEF m
      <4>2. \A k \in 1..m : k \in 1..n
        BY <4>1
      <4>3. m \in 1..m
        BY <4>1
      <4> QED
        BY <4>2, <4>3
    <3>2. Max(1..m) = m
      BY <2>1, <3>1, MaxOfFirst
    <3>3. (1..m) \ {m} = 1..i
      OBVIOUS
    <3>4. f[1..m] = Body(1..m, f, query)
      BY <1>3, <3>1 DEF Folds
    <3> QED
      BY <3>1, <3>2, <3>3, <3>4 DEF Body
  <2>3. Reads(Turn(query, f[1..i], jobhist[i + 1]), query, i + 1)
    BY <1>1, <2>1, TurnReads
  <2> QED
    BY <2>2, <2>3
<1> HIDE DEF Good
<1>6. n \in Good
  BY <1>1, <1>4, <1>5, CountingUp
<1>7. Reads(f[1..n], query, n)
  BY <1>1, <1>6 DEF Good
<1> QED
  BY <1>2, <1>7 DEF n

-----------------------------------------------------------------------------
(* The answer to a request.                                                *)

\* A query of a call that is not refused has a number for its limit.
LEMMA QueriesAsk ==
  ASSUME NEW c \in Calls, QueryError(c.query) = "none"
  PROVE  Asks(c.query)
<1>1. c.query \in Queries \/ c.query = Everything
  BY DEF Calls, QueriesOf
<1>2. CASE c.query \in Queries
  <2>1. c.query.limits \in Seq(Nat \cup {NotANumber})
    BY <1>2, CallsAssumption
  <2>2. c.query.limits # << >> => c.query.limits[1] \in Nat \cup {NotANumber}
    BY <2>1
  <2>3. c.query.limits # << >> => c.query.limits[1] # NotANumber
    BY DEF QueryError
  <2> QED
    BY <2>2, <2>3 DEF Asks
<1>3. CASE c.query = Everything
  BY <1>3 DEF Everything, Asks
<1> QED
  BY <1>1, <1>2, <1>3

\* A reply is a history only if the query is not refused, and is then all of
\* what is answered; otherwise there are no entries in it.
LEMMA Replies ==
  ASSUME NEW names, NEW query
  PROVE  LET reply == Reply(names, query)
         IN  /\ reply.code = "ok" => /\ QueryError(query) = "none"
                                     /\ reply.jobs = Answered(jobhist, query)
             /\ reply.code # "ok" => reply.jobs = << >>
<1> DEFINE places == <<"project", "repository", "arch">>
           missing == SelectInSeq(places, LAMBDA role : names[role] # Home[role])
           I == {i \in 1..Len(places) : names[places[i]] # Home[places[i]]}
           codes == <<"unknown_project", "unknown_repo", "unknown_arch">>
<1>1. missing = IF I # {} THEN Min(I) ELSE 0
  BY DEF SelectInSeq
<1>2. I # {} => Min(I) \in I
  <2>1. I \in SUBSET Nat
    OBVIOUS
  <2> QED
    BY <2>1, MinimumExists
<1>3. missing # 0 => missing \in 1..3
  BY <1>1, <1>2
<1> HIDE DEF missing
<1>4. missing # 0 => codes[missing] # "ok"
  BY <1>3
<1>5. QueryError(query) # "ok"
  BY DEF QueryError
<1>6. Reply(names, query) =
        IF QueryError(query) = "none" /\ missing # 0
        THEN [code |-> codes[missing], jobs |-> << >>]
        ELSE JobHistoryReply(jobhist, query)
  BY DEF Reply, missing
<1> HIDE DEF codes
<1> QED
  BY <1>4, <1>5, <1>6 DEF JobHistoryReply

-----------------------------------------------------------------------------
(* Types.                                                                  *)

Responders == {"ProjectListing", "ProjectDelete", "ProjectMeta", "PackageSourceListing",
  "PackageSourceCommand", "PackageSourceDelete", "PackageSourceHistory", "PackageSourceFile",
  "PackageSourcePlacement", "ProjectBuildCommand", "BuildResults", "RepoListing", "ArchListing",
  "BuildJobHistory", "BuildBinaryList", "BuildHistory", "BuildLog", "BuildPackageStatus",
  "BuildBinaryFile", "none"}

\* A request goes to one of the responders, or to none.
LEMMA DispatchFinds ==
  ASSUME NEW request
  PROVE  Dispatch(request) \in Responders
<1> DEFINE i == SelectInSeq(Mounts, LAMBDA mount : Fits(mount, request))
           I == {j \in 1..Len(Mounts) : Fits(Mounts[j], request)}
           Mounted == {mount \in {SourceMounts[j] : j \in 1..9}
                                    \cup {BuildMounts[j] : j \in 1..10} :
                         mount.responder \in Responders}
<1>1. SourceMounts \in Seq(Mounted)
  <2>1. SourceMounts \in [1..9 -> {SourceMounts[j] : j \in 1..9}]
    BY DEF SourceMounts
  <2>2. \A j \in 1..9 : SourceMounts[j].responder \in Responders
    BY DEF SourceMounts, On, Responders
  <2>3. SourceMounts \in [1..9 -> Mounted]
    BY <2>1, <2>2
  <2>4. 9 \in Nat /\ \A k \in Nat : [1..k -> Mounted] \subseteq Seq(Mounted)
    OBVIOUS
  <2> HIDE DEF Mounted
  <2> QED
    BY <2>3, <2>4, Zenon
<1>2. BuildMounts \in Seq(Mounted)
  <2>1. BuildMounts \in [1..10 -> {BuildMounts[j] : j \in 1..10}]
    BY DEF BuildMounts
  <2>2. \A j \in 1..10 : BuildMounts[j].responder \in Responders
    BY DEF BuildMounts, ArchListingMount, On, Responders
  <2>3. BuildMounts \in [1..10 -> Mounted]
    BY <2>1, <2>2
  <2>4. 10 \in Nat /\ \A k \in Nat : [1..k -> Mounted] \subseteq Seq(Mounted)
    OBVIOUS
  <2> HIDE DEF Mounted
  <2> QED
    BY <2>3, <2>4, Zenon
<1>3. \A j \in 1..Len(Mounts) : Mounts[j].responder \in Responders
  <2>1. \A mount \in Mounted : mount.responder \in Responders
    OBVIOUS
  <2> HIDE DEF Mounted
  <2>2. Mounts \in Seq(Mounted)
    BY <1>1, <1>2 DEF Mounts
  <2> QED
    BY <2>1, <2>2
<1>4. I \in SUBSET Nat /\ i = IF I # {} THEN Min(I) ELSE 0
  BY DEF SelectInSeq
<1>5. i # 0 => i \in 1..Len(Mounts)
  BY <1>4, MinimumExists
<1> HIDE DEF i
<1>6. Dispatch(request) = IF i = 0 THEN "none" ELSE Mounts[i].responder
  BY DEF Dispatch, i
<1> QED
  BY <1>3, <1>5, <1>6 DEF Responders

\* The names it finds in the path are of projects, packages and so on.
LEMMA NamesAreOfRoles ==
  ASSUME NEW responder \in Responders, NEW path
  PROVE  DOMAIN NamesFor(responder, path) \subseteq Roles
<1> DEFINE taken == Segments(responder)
<1>1. taken \in Seq(Roles \cup {"-"})
  <2>1. /\ <<"project">> \in Seq(Roles \cup {"-"}) /\ << >> \in Seq(Roles \cup {"-"})
        /\ <<"-", "project">> \in Seq(Roles \cup {"-"})
        /\ <<"package", "project">> \in Seq(Roles \cup {"-"})
        /\ <<"repository", "project">> \in Seq(Roles \cup {"-"})
        /\ <<"-", "package", "project">> \in Seq(Roles \cup {"-"})
        /\ <<"file", "package", "project">> \in Seq(Roles \cup {"-"})
        /\ <<"-", "arch", "repository", "project">> \in Seq(Roles \cup {"-"})
        /\ <<"package", "arch", "repository", "project">> \in Seq(Roles \cup {"-"})
        /\ <<"file", "package", "arch", "repository", "project">> \in Seq(Roles \cup {"-"})
        /\ <<"-", "package", "arch", "repository", "project">> \in Seq(Roles \cup {"-"})
    BY DEF Roles
  <2> DEFINE Names_ == Seq(Roles \cup {"-"})
  <2> HIDE DEF Names_
  <2>2. taken \in Names_
    BY <2>1 DEF Segments, Responders, Names_
  <2> QED
    BY <2>2 DEF Names_
<1> HIDE DEF taken
<1>2. ToSet(taken) \subseteq Roles \cup {"-"}
  BY <1>1 DEF ToSet
<1>3. DOMAIN NamesFor(responder, path) = ToSet(taken) \ {"-"}
  BY DEF NamesFor, taken
<1> QED
  BY <1>2, <1>3

\* A call in its course keeps the types.
LEMMA DeliverTyped ==
  ASSUME TypeOK, Deliver
  PROVE  TypeOK'
<1> DEFINE request == RequestOf(call)
           responder == Dispatch(request)
           names == NamesFor(responder, request.path)
           reply == Reply(names, call.query)
<1>1. /\ delivered' = [responder |-> responder, names |-> names]
      /\ answer' = IF responder = "BuildJobHistory" THEN reply ELSE NoAnswer
      /\ UNCHANGED <<jobhist, call>> /\ call \in Calls /\ call # NoCall
  BY DEF Deliver, TypeOK
<1>2. DOMAIN names \subseteq Roles
  BY DispatchFinds, NamesAreOfRoles
<1>3. /\ reply.code = "ok" => /\ QueryError(call.query) = "none"
                              /\ reply.jobs = Answered(jobhist, call.query)
      /\ reply.code # "ok" => reply.jobs = << >>
  BY Replies
<1> HIDE DEF reply, names, responder, request
<1>4. ToSet(reply.jobs) \subseteq ToSet(jobhist)
  <2>1. CASE reply.code = "ok"
    <3>1. PICK written : /\ Answered(jobhist, call.query) = written.jobs
                         /\ Reads(written, call.query, Len(jobhist))
      BY <1>1, <1>3, <2>1, QueriesAsk, AnsweredReads DEF TypeOK
    <3> QED
      BY <1>3, <2>1, <3>1 DEF Reads
  <2>2. CASE reply.code # "ok"
    BY <1>3, <2>2 DEF ToSet
  <2> QED
    BY <2>1, <2>2
<1> QED
  BY <1>1, <1>2, <1>3, <1>4 DEF TypeOK

\* So does every step.
LEMMA NextTyped ==
  ASSUME TypeOK, [Next]_vars
  PROVE  TypeOK'
<1>1. ASSUME NEW job \in Jobs, AddJobHistory(job)
      PROVE  TypeOK'
  <2>1. /\ jobhist' = Append(jobhist, job) /\ Len(jobhist) < MaxJobs /\ jobhist \in Seq(Jobs)
        /\ UNCHANGED <<call, delivered, answer>>
    BY <1>1 DEF AddJobHistory, TypeOK
  <2>2. /\ jobhist' \in Seq(Jobs) /\ Len(jobhist') = Len(jobhist) + 1
        /\ \A i \in DOMAIN jobhist : i \in DOMAIN jobhist' /\ jobhist'[i] = jobhist[i]
    BY <2>1
  <2>3. Len(jobhist') <= MaxJobs
    BY <2>1, <2>2, CallsAssumption
  <2>4. ToSet(jobhist) \subseteq ToSet(jobhist')
    BY <2>2 DEF ToSet
  <2> QED
    BY <2>1, <2>2, <2>3, <2>4 DEF TypeOK
<1>2. ASSUME NEW c \in Calls, Call(c)
      PROVE  TypeOK'
  BY <1>2 DEF Call, TypeOK
<1>3. CASE Deliver
  BY <1>3, DeliverTyped
<1>4. CASE Return
  BY <1>4 DEF Return, TypeOK
<1>5. CASE UNCHANGED vars
  BY <1>5 DEF vars, TypeOK
<1> QED
  BY <1>1, <1>2, <1>3, <1>4, <1>5 DEF Next

\* A call has one answer, with entries of the history and none if it is an
\* error, and its responder found names of projects, packages and so on.
THEOREM TypeCorrectness == Spec => []TypeOK
<1>1. Init => TypeOK
  BY CallsAssumption DEF Init, TypeOK
<1> QED
  BY <1>1, NextTyped, PTL DEF Spec

\* Whatever the history, the query and its limit are, a history that is
\* answered has the entries asked for, in their order, and no other.
THEOREM JobHistoryAnswers == Spec => JobHistoryIsWhatWasAsked
<1> DEFINE Fine ==
      answer = NoAnswer /\ answer'.code = "ok" =>
        LET query == call.query
            all == Asked(query, Len(jobhist))
            limited == query.limits # << >> /\ query.limits[1] # 0 /\ query.limits[1] < all
            jobs == answer'.jobs
        IN  /\ Len(jobs) = IF limited THEN query.limits[1] ELSE all
            /\ \A i \in DOMAIN jobhist :
                 Wanted(query, jobhist[i]) /\ Asked(query, i) <= Len(jobs) =>
                   jobs[Asked(query, i)] = jobhist[i]
<1>1. ASSUME TypeOK, Next
      PROVE  Fine
  <2> SUFFICES ASSUME answer = NoAnswer, answer'.code = "ok"
               PROVE  Fine
    OBVIOUS
  <2> DEFINE query == call.query
             jobs == answer'.jobs
  <2>1. Deliver
    BY <1>1 DEF Next, AddJobHistory, Call, Return, NoAnswer
  <2>2. PICK names : answer' = Reply(names, query) /\ call \in Calls
    <3>1. answer' # NoAnswer
      BY DEF NoAnswer
    <3> QED
      BY <1>1, <2>1, <3>1 DEF Deliver, TypeOK
  <2>3. QueryError(query) = "none" /\ jobs = Answered(jobhist, query)
    BY <2>2, Replies
  <2>4. Asks(query)
    BY <2>2, <2>3, QueriesAsk
  <2>5. PICK written : jobs = written.jobs /\ Reads(written, query, Len(jobhist))
    BY <1>1, <2>3, <2>4, AnsweredReads DEF TypeOK
  <2>6. DOMAIN jobhist = 1..Len(jobhist)
    BY <1>1 DEF TypeOK
  <2>7. Limited(query) <=> query.limits # << >> /\ query.limits[1] # 0
    BY <2>4 DEF Limited, Asks
  <2> QED
    BY <2>5, <2>6, <2>7 DEF Reads
<1>2. TypeOK /\ [Next]_vars => [Fine]_vars
  BY <1>1
<1> QED
  BY <1>2, TypeCorrectness, PTL DEF Spec, JobHistoryIsWhatWasAsked

-----------------------------------------------------------------------------
(* The mounts, and which of them a request fits.                           *)

\* Tuples that are put together.
LEMMA Joined ==
  /\ \A a, b, x : <<a, b>> \o <<x>> = <<a, b, x>>
  /\ \A a, b, c, x : <<a, b, c>> \o <<x>> = <<a, b, c, x>>
  /\ \A a, b, c, d, x : <<a, b, c, d>> \o <<x>> = <<a, b, c, d, x>>
  /\ \A a, b, c, d, e, x : <<a, b, c, d, e>> \o <<x>> = <<a, b, c, d, e, x>>
  /\ \A a, b, c, d, x, y : <<a, b, c, d>> \o <<x, y>> = <<a, b, c, d, x, y>>
<1>1. \A a, b, x : <<a, b>> \o <<x>> = <<a, b, x>>
  <2> TAKE a, b, x
  <2> DEFINE S == {a, b, x}
             s == <<a, b>> \o <<x>>
             t == <<a, b, x>>
  <2>1. s \in Seq(S) /\ t \in Seq(S) /\ Len(s) = 3 /\ Len(t) = 3
    OBVIOUS
  <2>2. \A i \in 1..3 : s[i] = t[i]
    OBVIOUS
  <2> HIDE DEF S, s, t
  <2>3. s = t
    BY <2>1, <2>2, SeqEqual
  <2> QED
    BY <2>3 DEF s, t
<1>2. \A a, b, c, x : <<a, b, c>> \o <<x>> = <<a, b, c, x>>
  <2> TAKE a, b, c, x
  <2> DEFINE S == {a, b, c, x}
             s == <<a, b, c>> \o <<x>>
             t == <<a, b, c, x>>
  <2>1. s \in Seq(S) /\ t \in Seq(S) /\ Len(s) = 4 /\ Len(t) = 4
    OBVIOUS
  <2>2. \A i \in 1..4 : s[i] = t[i]
    OBVIOUS
  <2> HIDE DEF S, s, t
  <2>3. s = t
    BY <2>1, <2>2, SeqEqual
  <2> QED
    BY <2>3 DEF s, t
<1>3. \A a, b, c, d, x : <<a, b, c, d>> \o <<x>> = <<a, b, c, d, x>>
  <2> TAKE a, b, c, d, x
  <2> DEFINE S == {a, b, c, d, x}
             s == <<a, b, c, d>> \o <<x>>
             t == <<a, b, c, d, x>>
  <2>1. s \in Seq(S) /\ t \in Seq(S) /\ Len(s) = 5 /\ Len(t) = 5
    OBVIOUS
  <2>2. \A i \in 1..5 : s[i] = t[i]
    OBVIOUS
  <2> HIDE DEF S, s, t
  <2>3. s = t
    BY <2>1, <2>2, SeqEqual
  <2> QED
    BY <2>3 DEF s, t
<1>4. \A a, b, c, d, e, x : <<a, b, c, d, e>> \o <<x>> = <<a, b, c, d, e, x>>
  <2> TAKE a, b, c, d, e, x
  <2> DEFINE S == {a, b, c, d, e, x}
             s == <<a, b, c, d, e>> \o <<x>>
             t == <<a, b, c, d, e, x>>
  <2>1. s \in Seq(S) /\ t \in Seq(S) /\ Len(s) = 6 /\ Len(t) = 6
    OBVIOUS
  <2>2. \A i \in 1..6 : s[i] = t[i]
    OBVIOUS
  <2> HIDE DEF S, s, t
  <2>3. s = t
    BY <2>1, <2>2, SeqEqual
  <2> QED
    BY <2>3 DEF s, t
<1>5. \A a, b, c, d, x, y : <<a, b, c, d>> \o <<x, y>> = <<a, b, c, d, x, y>>
  <2> TAKE a, b, c, d, x, y
  <2> DEFINE S == {a, b, c, d, x, y}
             s == <<a, b, c, d>> \o <<x, y>>
             t == <<a, b, c, d, x, y>>
  <2>1. s \in Seq(S) /\ t \in Seq(S) /\ Len(s) = 6 /\ Len(t) = 6
    OBVIOUS
  <2>2. \A i \in 1..6 : s[i] = t[i]
    OBVIOUS
  <2> HIDE DEF S, s, t
  <2>3. s = t
    BY <2>1, <2>2, SeqEqual
  <2> QED
    BY <2>3 DEF s, t
<1> QED
  BY <1>1, <1>2, <1>3, <1>4, <1>5

\* The mounts are those of the sources, then those of the builds.
LEMMA MountOrder ==
  /\ Len(Mounts) = 19 /\ \A i \in 1..9 : Mounts[i] = SourceMounts[i]
  /\ Mounts[10] = BuildMounts[1] /\ Mounts[11] = BuildMounts[2] /\ Mounts[12] = BuildMounts[3]
  /\ Mounts[13] = BuildMounts[4] /\ Mounts[14] = BuildMounts[5] /\ Mounts[15] = BuildMounts[6]
  /\ Mounts[16] = BuildMounts[7] /\ Mounts[17] = BuildMounts[8] /\ Mounts[18] = BuildMounts[9]
  /\ Mounts[19] = BuildMounts[10]
<1> DEFINE S == {SourceMounts[j] : j \in 1..9} \cup {BuildMounts[j] : j \in 1..10}
<1>1. /\ SourceMounts \in Seq(S) /\ Len(SourceMounts) = 9
      /\ BuildMounts \in Seq(S) /\ Len(BuildMounts) = 10
  BY DEF SourceMounts, BuildMounts
<1> HIDE DEF S
<1>2. /\ Len(Mounts) = 19 /\ \A i \in 1..9 : Mounts[i] = SourceMounts[i]
      /\ \A i \in 1..10 : Mounts[9 + i] = BuildMounts[i]
  <2>1. /\ Len(Mounts) = 9 + 10
        /\ \A i \in 1..9 + 10 : Mounts[i] = IF i <= 9 THEN SourceMounts[i]
                                             ELSE BuildMounts[i - 9]
    <3>1. /\ Len(Mounts) = Len(SourceMounts) + Len(BuildMounts)
          /\ \A i \in 1..Len(SourceMounts) + Len(BuildMounts) :
               Mounts[i] = IF i <= Len(SourceMounts) THEN SourceMounts[i]
                           ELSE BuildMounts[i - Len(SourceMounts)]
      BY <1>1, ConcatProperties, Zenon DEF Mounts
    <3> QED
      BY <1>1, <3>1
  <2>2. \A i \in 1..9 : i \in 1..9 + 10 /\ i <= 9
    OBVIOUS
  <2>3. \A i \in 1..10 : 9 + i \in 1..9 + 10 /\ ~(9 + i <= 9) /\ 9 + i - 9 = i
    OBVIOUS
  <2> QED
    BY <2>1, <2>2, <2>3
<1> QED
  BY <1>2

\* The mounts of the sources one by one.
LEMMA SourceTable ==
  /\ Mounts[1] = On("GET", <<"source", SOME>>, "ProjectListing")
  /\ Mounts[2] = On("DELETE", <<"source", SOME>>, "ProjectDelete")
  /\ Mounts[3] = On("GET", <<"source", SOME, "_meta">>, "ProjectMeta")
  /\ Mounts[4] = On("GET", <<"source", SOME, SOME>>, "PackageSourceListing")
  /\ Mounts[5] = On("POST", <<"source", SOME, SOME>>, "PackageSourceCommand")
  /\ Mounts[6] = On("DELETE", <<"source", SOME, SOME>>, "PackageSourceDelete")
  /\ Mounts[7] = On("GET", <<"source", SOME, SOME, "_history">>, "PackageSourceHistory")
  /\ Mounts[8] = On("GET", <<"source", SOME, SOME, SOME>>, "PackageSourceFile")
  /\ Mounts[9] = On("PUT", <<"source", SOME, SOME, SOME>>, "PackageSourcePlacement")
<1>1. /\ Package = <<"source", SOME, SOME>>
      /\ Package \o <<"_history">> = <<"source", SOME, SOME, "_history">>
      /\ Package \o <<SOME>> = <<"source", SOME, SOME, SOME>>
  BY Joined DEF Package
<1>2. /\ Mounts[1] = SourceMounts[1] /\ Mounts[2] = SourceMounts[2]
      /\ Mounts[3] = SourceMounts[3] /\ Mounts[4] = SourceMounts[4]
      /\ Mounts[5] = SourceMounts[5] /\ Mounts[6] = SourceMounts[6]
      /\ Mounts[7] = SourceMounts[7] /\ Mounts[8] = SourceMounts[8]
      /\ Mounts[9] = SourceMounts[9]
  BY MountOrder
<1> QED
  BY <1>1, <1>2 DEF SourceMounts

\* Those of the builds.
LEMMA BuildTable ==
  /\ Mounts[10] = On("POST", <<"build", SOME>>, "ProjectBuildCommand")
  /\ Mounts[11] = On("GET", <<"build", SOME, "_result">>, "BuildResults")
  /\ Mounts[12] = On("GET", <<"build", SOME>>, "RepoListing")
  /\ Mounts[13] = ArchListingMount
  /\ Mounts[14] = On("GET", <<"build", SOME, SOME, SOME, "_jobhistory">>, "BuildJobHistory")
  /\ Mounts[15] = On("GET", <<"build", SOME, SOME, SOME, SOME>>, "BuildBinaryList")
  /\ Mounts[16] = On("GET", <<"build", SOME, SOME, SOME, SOME, "_history">>, "BuildHistory")
  /\ Mounts[17] = On("GET", <<"build", SOME, SOME, SOME, SOME, "_log">>, "BuildLog")
  /\ Mounts[18] =
       On("GET", <<"build", SOME, SOME, SOME, SOME, "_status">>, "BuildPackageStatus")
  /\ Mounts[19] = On("GET", <<"build", SOME, SOME, SOME, SOME, SOME>>, "BuildBinaryFile")
<1>1. /\ Pair \o <<"_jobhistory">> = <<"build", SOME, SOME, SOME, "_jobhistory">>
      /\ Pair \o <<SOME>> = <<"build", SOME, SOME, SOME, SOME>>
      /\ Pair \o <<SOME, "_history">> = <<"build", SOME, SOME, SOME, SOME, "_history">>
      /\ Pair \o <<SOME, "_log">> = <<"build", SOME, SOME, SOME, SOME, "_log">>
      /\ Pair \o <<SOME, "_status">> = <<"build", SOME, SOME, SOME, SOME, "_status">>
      /\ Pair \o <<SOME, SOME>> = <<"build", SOME, SOME, SOME, SOME, SOME>>
  BY Joined DEF Pair
<1> QED
  BY <1>1, MountOrder DEF BuildMounts

Words == {"source", "build", "_meta", "_history", "_result", "_jobhistory", "_log", "_status"}

\* The wildcard is none of the words in the patterns.
LEMMA SomeIsNoWord == SOME \notin Words
BY DEF SOME, Words

\* A request that an anchored mount fits.
LEMMA FitsOn ==
  ASSUME NEW method, NEW pattern, NEW responder, NEW request
  PROVE  Fits(On(method, pattern, responder), request) <=>
           method = request.method /\ Matches(pattern, request.path)
BY DEF Fits, On

\* The one that is not anchored fits the end of a path.
LEMMA FitsArchListing ==
  ASSUME NEW request, NEW S, request.path \in Seq(S)
  PROVE  LET path == request.path
         IN  Fits(ArchListingMount, request) <=>
               request.method = "GET" /\ Len(path) >= 3 /\ path[Len(path) - 2] = "build"
<1> DEFINE path == request.path
           n == Len(path)
           tail == SubSeq(path, n - 2, n)
<1>1. path \in Seq(S) /\ n \in Nat
  OBVIOUS
<1>2. /\ ArchListingMount.method = "GET" /\ ArchListingMount.anchored = FALSE
      /\ ArchListingMount.pattern = <<"build", SOME, SOME>>
  <2> DEFINE m == [method |-> "GET", pattern |-> <<"build", SOME, SOME>>,
                   responder |-> "ArchListing", anchored |-> TRUE]
  <2>1. ArchListingMount = [m EXCEPT !.anchored = FALSE]
    BY DEF ArchListingMount, On
  <2>2. /\ [m EXCEPT !.anchored = FALSE].method = "GET"
        /\ [m EXCEPT !.anchored = FALSE].pattern = <<"build", SOME, SOME>>
        /\ [m EXCEPT !.anchored = FALSE].anchored = FALSE
    OBVIOUS
  <2> QED
    BY <2>1, <2>2
<1>3. Len(<<"build", SOME, SOME>>) = 3
  OBVIOUS
<1>9. ASSUME NEW q \in Seq(S)
      PROVE  Matches(<<"build", SOME, SOME>>, q) <=> Len(q) = 3 /\ q[1] = "build"
  <2>1. DOMAIN q = 1..Len(q) /\ Len(q) \in Nat /\ SOME # "build"
    BY SomeIsNoWord DEF Words
  <2> QED
    BY <2>1 DEF Matches
<1>4. Matches(<<"build", SOME, SOME>>, path) <=> n = 3 /\ path[1] = "build"
  BY <1>1, <1>9
<1>5. n >= 3 => (Matches(<<"build", SOME, SOME>>, tail) <=> path[n - 2] = "build")
  <2> SUFFICES ASSUME n >= 3
               PROVE  Matches(<<"build", SOME, SOME>>, tail) <=> path[n - 2] = "build"
    OBVIOUS
  <2>1. tail \in Seq(S) /\ Len(tail) = 3 /\ tail[1] = path[n - 2]
    BY <1>1
  <2> HIDE DEF tail
  <2> QED
    BY <1>9, <2>1
<1>6. n - 3 + 1 = n - 2
  BY <1>1
<1>7. Fits(ArchListingMount, request) <=>
        /\ "GET" = request.method
        /\ \/ Matches(<<"build", SOME, SOME>>, path)
           \/ n >= 3 /\ Matches(<<"build", SOME, SOME>>, SubSeq(path, n - 3 + 1, n))
  BY <1>2, <1>3 DEF Fits
<1> HIDE DEF n, path
<1>8. n = 3 => n - 2 = 1 /\ n >= 3
  OBVIOUS
<1> QED
  BY <1>4, <1>5, <1>6, <1>7, <1>8 DEF n, path

\* The first mount that fits counts.
LEMMA FirstFit ==
  ASSUME NEW request, NEW i \in 1..19, Fits(Mounts[i], request),
         \A j \in 1..19 : j < i => ~Fits(Mounts[j], request)
  PROVE  Dispatch(request) = Mounts[i].responder
<1> DEFINE I == {j \in 1..Len(Mounts) : Fits(Mounts[j], request)}
<1>1. Len(Mounts) = 19
  BY MountOrder
<1>2. SelectInSeq(Mounts, LAMBDA mount : Fits(mount, request)) = IF I # {} THEN Min(I) ELSE 0
  BY DEF SelectInSeq
<1>3. i \in I /\ I \in SUBSET Nat /\ \A j \in I : ~(j < i)
  BY <1>1
<1> HIDE DEF I
<1>4. Min(I) \in I /\ Min(I) =< i
  BY <1>3, MinimumExists
<1>5. Min(I) = i /\ i # 0
  <2> DEFINE m == Min(I)
  <2>1. m \in I /\ m =< i
    BY <1>4
  <2> HIDE DEF m
  <2>2. m \in Nat /\ ~(m < i)
    BY <1>3, <2>1
  <2>3. i \in Nat /\ i # 0
    OBVIOUS
  <2>4. m = i
    BY <2>1, <2>2, <2>3
  <2> QED
    BY <2>3, <2>4 DEF m
<1> QED
  BY <1>2, <1>3, <1>5 DEF Dispatch

\* Which requests each mount fits.
LEMMA FitTable ==
  ASSUME NEW request, NEW S, request.path \in Seq(S)
  PROVE  LET path == request.path
             method == request.method
         IN
           /\ Fits(Mounts[1], request) <=>
                method = "GET" /\ Len(path) = 2 /\ path[1] = "source"
           /\ Fits(Mounts[2], request) <=>
                method = "DELETE" /\ Len(path) = 2 /\ path[1] = "source"
           /\ Fits(Mounts[3], request) <=>
                method = "GET" /\ Len(path) = 3 /\ path[1] = "source" /\ path[3] = "_meta"
           /\ Fits(Mounts[4], request) <=>
                method = "GET" /\ Len(path) = 3 /\ path[1] = "source"
           /\ Fits(Mounts[5], request) <=>
                method = "POST" /\ Len(path) = 3 /\ path[1] = "source"
           /\ Fits(Mounts[6], request) <=>
                method = "DELETE" /\ Len(path) = 3 /\ path[1] = "source"
           /\ Fits(Mounts[7], request) <=>
                method = "GET" /\ Len(path) = 4 /\ path[1] = "source" /\ path[4] = "_history"
           /\ Fits(Mounts[8], request) <=>
                method = "GET" /\ Len(path) = 4 /\ path[1] = "source"
           /\ Fits(Mounts[9], request) <=>
                method = "PUT" /\ Len(path) = 4 /\ path[1] = "source"
           /\ Fits(Mounts[10], request) <=>
                method = "POST" /\ Len(path) = 2 /\ path[1] = "build"
           /\ Fits(Mounts[11], request) <=>
                method = "GET" /\ Len(path) = 3 /\ path[1] = "build" /\ path[3] = "_result"
           /\ Fits(Mounts[12], request) <=>
                method = "GET" /\ Len(path) = 2 /\ path[1] = "build"
           /\ Fits(Mounts[13], request) <=>
                method = "GET" /\ Len(path) >= 3 /\ path[Len(path) - 2] = "build"
           /\ Fits(Mounts[14], request) <=>
                method = "GET" /\ Len(path) = 5 /\ path[1] = "build" /\ path[5] = "_jobhistory"
           /\ Fits(Mounts[15], request) <=>
                method = "GET" /\ Len(path) = 5 /\ path[1] = "build"
           /\ Fits(Mounts[16], request) <=>
                method = "GET" /\ Len(path) = 6 /\ path[1] = "build" /\ path[6] = "_history"
           /\ Fits(Mounts[17], request) <=>
                method = "GET" /\ Len(path) = 6 /\ path[1] = "build" /\ path[6] = "_log"
           /\ Fits(Mounts[18], request) <=>
                method = "GET" /\ Len(path) = 6 /\ path[1] = "build" /\ path[6] = "_status"
           /\ Fits(Mounts[19], request) <=>
                method = "GET" /\ Len(path) = 6 /\ path[1] = "build"
<1> DEFINE path == request.path
           method == request.method
<1>1. /\ DOMAIN path = 1..Len(path) /\ Len(path) \in Nat
      /\ SOME # "source" /\ SOME # "build" /\ SOME # "_meta" /\ SOME # "_history"
      /\ SOME # "_result" /\ SOME # "_jobhistory" /\ SOME # "_log" /\ SOME # "_status"
  BY SomeIsNoWord DEF Words
<1>2. Fits(Mounts[13], request) <=>
        method = "GET" /\ Len(path) >= 3 /\ path[Len(path) - 2] = "build"
  BY BuildTable, FitsArchListing
<1>3. ASSUME NEW m, NEW pattern, NEW responder, NEW i \in 1..19,
             Mounts[i] = On(m, pattern, responder)
      PROVE  Fits(Mounts[i], request) <=> method = m /\ Matches(pattern, path)
  BY <1>3, FitsOn
<1> HIDE DEF path, method
<1>4. Fits(Mounts[1], request) <=>
        method = "GET" /\ Len(path) = 2 /\ path[1] = "source"
  <2>1. Matches(<<"source", SOME>>, path) <=>
          Len(path) = 2 /\ path[1] = "source"
    BY <1>1 DEF Matches
  <2> QED
    BY <1>3, <2>1, SourceTable
<1>5. Fits(Mounts[2], request) <=>
        method = "DELETE" /\ Len(path) = 2 /\ path[1] = "source"
  <2>1. Matches(<<"source", SOME>>, path) <=>
          Len(path) = 2 /\ path[1] = "source"
    BY <1>1 DEF Matches
  <2> QED
    BY <1>3, <2>1, SourceTable
<1>6. Fits(Mounts[3], request) <=>
        method = "GET" /\ Len(path) = 3 /\ path[1] = "source" /\ path[3] = "_meta"
  <2>1. Matches(<<"source", SOME, "_meta">>, path) <=>
          Len(path) = 3 /\ path[1] = "source" /\ path[3] = "_meta"
    BY <1>1 DEF Matches
  <2> QED
    BY <1>3, <2>1, SourceTable
<1>7. Fits(Mounts[4], request) <=>
        method = "GET" /\ Len(path) = 3 /\ path[1] = "source"
  <2>1. Matches(<<"source", SOME, SOME>>, path) <=>
          Len(path) = 3 /\ path[1] = "source"
    BY <1>1 DEF Matches
  <2> QED
    BY <1>3, <2>1, SourceTable
<1>8. Fits(Mounts[5], request) <=>
        method = "POST" /\ Len(path) = 3 /\ path[1] = "source"
  <2>1. Matches(<<"source", SOME, SOME>>, path) <=>
          Len(path) = 3 /\ path[1] = "source"
    BY <1>1 DEF Matches
  <2> QED
    BY <1>3, <2>1, SourceTable
<1>9. Fits(Mounts[6], request) <=>
        method = "DELETE" /\ Len(path) = 3 /\ path[1] = "source"
  <2>1. Matches(<<"source", SOME, SOME>>, path) <=>
          Len(path) = 3 /\ path[1] = "source"
    BY <1>1 DEF Matches
  <2> QED
    BY <1>3, <2>1, SourceTable
<1>10. Fits(Mounts[7], request) <=>
        method = "GET" /\ Len(path) = 4 /\ path[1] = "source" /\ path[4] = "_history"
  <2>1. Matches(<<"source", SOME, SOME, "_history">>, path) <=>
          Len(path) = 4 /\ path[1] = "source" /\ path[4] = "_history"
    BY <1>1 DEF Matches
  <2> QED
    BY <1>3, <2>1, SourceTable
<1>11. Fits(Mounts[8], request) <=>
        method = "GET" /\ Len(path) = 4 /\ path[1] = "source"
  <2>1. Matches(<<"source", SOME, SOME, SOME>>, path) <=>
          Len(path) = 4 /\ path[1] = "source"
    BY <1>1 DEF Matches
  <2> QED
    BY <1>3, <2>1, SourceTable
<1>12. Fits(Mounts[9], request) <=>
        method = "PUT" /\ Len(path) = 4 /\ path[1] = "source"
  <2>1. Matches(<<"source", SOME, SOME, SOME>>, path) <=>
          Len(path) = 4 /\ path[1] = "source"
    BY <1>1 DEF Matches
  <2> QED
    BY <1>3, <2>1, SourceTable
<1>13. Fits(Mounts[10], request) <=>
        method = "POST" /\ Len(path) = 2 /\ path[1] = "build"
  <2>1. Matches(<<"build", SOME>>, path) <=>
          Len(path) = 2 /\ path[1] = "build"
    BY <1>1 DEF Matches
  <2> QED
    BY <1>3, <2>1, BuildTable
<1>14. Fits(Mounts[11], request) <=>
        method = "GET" /\ Len(path) = 3 /\ path[1] = "build" /\ path[3] = "_result"
  <2>1. Matches(<<"build", SOME, "_result">>, path) <=>
          Len(path) = 3 /\ path[1] = "build" /\ path[3] = "_result"
    BY <1>1 DEF Matches
  <2> QED
    BY <1>3, <2>1, BuildTable
<1>15. Fits(Mounts[12], request) <=>
        method = "GET" /\ Len(path) = 2 /\ path[1] = "build"
  <2>1. Matches(<<"build", SOME>>, path) <=>
          Len(path) = 2 /\ path[1] = "build"
    BY <1>1 DEF Matches
  <2> QED
    BY <1>3, <2>1, BuildTable
<1>16. Fits(Mounts[14], request) <=>
        method = "GET" /\ Len(path) = 5 /\ path[1] = "build" /\ path[5] = "_jobhistory"
  <2>1. Matches(<<"build", SOME, SOME, SOME, "_jobhistory">>, path) <=>
          Len(path) = 5 /\ path[1] = "build" /\ path[5] = "_jobhistory"
    BY <1>1 DEF Matches
  <2> QED
    BY <1>3, <2>1, BuildTable
<1>17. Fits(Mounts[15], request) <=>
        method = "GET" /\ Len(path) = 5 /\ path[1] = "build"
  <2>1. Matches(<<"build", SOME, SOME, SOME, SOME>>, path) <=>
          Len(path) = 5 /\ path[1] = "build"
    BY <1>1 DEF Matches
  <2> QED
    BY <1>3, <2>1, BuildTable
<1>18. Fits(Mounts[16], request) <=>
        method = "GET" /\ Len(path) = 6 /\ path[1] = "build" /\ path[6] = "_history"
  <2>1. Matches(<<"build", SOME, SOME, SOME, SOME, "_history">>, path) <=>
          Len(path) = 6 /\ path[1] = "build" /\ path[6] = "_history"
    BY <1>1 DEF Matches
  <2> QED
    BY <1>3, <2>1, BuildTable
<1>19. Fits(Mounts[17], request) <=>
        method = "GET" /\ Len(path) = 6 /\ path[1] = "build" /\ path[6] = "_log"
  <2>1. Matches(<<"build", SOME, SOME, SOME, SOME, "_log">>, path) <=>
          Len(path) = 6 /\ path[1] = "build" /\ path[6] = "_log"
    BY <1>1 DEF Matches
  <2> QED
    BY <1>3, <2>1, BuildTable
<1>20. Fits(Mounts[18], request) <=>
        method = "GET" /\ Len(path) = 6 /\ path[1] = "build" /\ path[6] = "_status"
  <2>1. Matches(<<"build", SOME, SOME, SOME, SOME, "_status">>, path) <=>
          Len(path) = 6 /\ path[1] = "build" /\ path[6] = "_status"
    BY <1>1 DEF Matches
  <2> QED
    BY <1>3, <2>1, BuildTable
<1>21. Fits(Mounts[19], request) <=>
        method = "GET" /\ Len(path) = 6 /\ path[1] = "build"
  <2>1. Matches(<<"build", SOME, SOME, SOME, SOME, SOME>>, path) <=>
          Len(path) = 6 /\ path[1] = "build"
    BY <1>1 DEF Matches
  <2> QED
    BY <1>3, <2>1, BuildTable
<1> QED
  BY <1>2, <1>4, <1>5, <1>6, <1>7, <1>8, <1>9, <1>10, <1>11, <1>12, <1>13, <1>14, <1>15,
     <1>16, <1>17, <1>18, <1>19, <1>20, <1>21 DEF path, method

\* Where the requests go that the client sends.
LEMMA DispatchTable ==
  ASSUME NEW request, NEW S, request.path \in Seq(S)
  PROVE  LET path == request.path
             method == request.method
             responder == Dispatch(request)
         IN  /\ Len(path) = 2 /\ path[1] = "source" =>
                  /\ method = "GET" => responder = "ProjectListing"
                  /\ method = "DELETE" => responder = "ProjectDelete"
             /\ Len(path) = 3 /\ path[1] = "source" =>
                  /\ method = "GET" => responder = IF path[3] = "_meta" THEN "ProjectMeta"
                                                   ELSE "PackageSourceListing"
                  /\ method = "POST" => responder = "PackageSourceCommand"
                  /\ method = "DELETE" => responder = "PackageSourceDelete"
             /\ Len(path) = 4 /\ path[1] = "source" =>
                  /\ method = "GET" => responder = IF path[4] = "_history"
                                                   THEN "PackageSourceHistory"
                                                   ELSE "PackageSourceFile"
                  /\ method = "PUT" => responder = "PackageSourcePlacement"
             /\ Len(path) = 2 /\ path[1] = "build" =>
                  /\ method = "GET" => responder = "RepoListing"
                  /\ method = "POST" => responder = "ProjectBuildCommand"
             /\ Len(path) = 3 /\ path[1] = "build" /\ method = "GET" =>
                  responder = IF path[3] = "_result" THEN "BuildResults" ELSE "ArchListing"
             /\ Len(path) = 5 /\ path[1] = "build" /\ method = "GET" =>
                  responder = IF path[3] = "build" THEN "ArchListing"
                              ELSE IF path[5] = "_jobhistory" THEN "BuildJobHistory"
                              ELSE "BuildBinaryList"
             /\ Len(path) = 6 /\ path[1] = "build" /\ method = "GET" =>
                  responder = IF path[4] = "build" THEN "ArchListing"
                              ELSE IF path[6] = "_history" THEN "BuildHistory"
                              ELSE IF path[6] = "_log" THEN "BuildLog"
                              ELSE IF path[6] = "_status" THEN "BuildPackageStatus"
                              ELSE "BuildBinaryFile"
<1> DEFINE path == request.path
           method == request.method
           responder == Dispatch(request)
           F(i) == Fits(Mounts[i], request)
<1>1. /\ F(1) <=> method = "GET" /\ Len(path) = 2 /\ path[1] = "source"
      /\ F(2) <=> method = "DELETE" /\ Len(path) = 2 /\ path[1] = "source"
      /\ F(3) <=> method = "GET" /\ Len(path) = 3 /\ path[1] = "source" /\ path[3] = "_meta"
      /\ F(4) <=> method = "GET" /\ Len(path) = 3 /\ path[1] = "source"
      /\ F(5) <=> method = "POST" /\ Len(path) = 3 /\ path[1] = "source"
      /\ F(6) <=> method = "DELETE" /\ Len(path) = 3 /\ path[1] = "source"
      /\ F(7) <=> method = "GET" /\ Len(path) = 4 /\ path[1] = "source" /\ path[4] = "_history"
      /\ F(8) <=> method = "GET" /\ Len(path) = 4 /\ path[1] = "source"
      /\ F(9) <=> method = "PUT" /\ Len(path) = 4 /\ path[1] = "source"
      /\ F(10) <=> method = "POST" /\ Len(path) = 2 /\ path[1] = "build"
      /\ F(11) <=> method = "GET" /\ Len(path) = 3 /\ path[1] = "build" /\ path[3] = "_result"
      /\ F(12) <=> method = "GET" /\ Len(path) = 2 /\ path[1] = "build"
      /\ F(13) <=> method = "GET" /\ Len(path) >= 3 /\ path[Len(path) - 2] = "build"
      /\ F(14) <=> method = "GET" /\ Len(path) = 5 /\ path[1] = "build" /\ path[5] = "_jobhistory"
      /\ F(15) <=> method = "GET" /\ Len(path) = 5 /\ path[1] = "build"
      /\ F(16) <=> method = "GET" /\ Len(path) = 6 /\ path[1] = "build" /\ path[6] = "_history"
      /\ F(17) <=> method = "GET" /\ Len(path) = 6 /\ path[1] = "build" /\ path[6] = "_log"
      /\ F(18) <=> method = "GET" /\ Len(path) = 6 /\ path[1] = "build" /\ path[6] = "_status"
      /\ F(19) <=> method = "GET" /\ Len(path) = 6 /\ path[1] = "build"
  BY FitTable
<1>2. /\ Mounts[1].responder = "ProjectListing"
      /\ Mounts[2].responder = "ProjectDelete"
      /\ Mounts[3].responder = "ProjectMeta"
      /\ Mounts[4].responder = "PackageSourceListing"
      /\ Mounts[5].responder = "PackageSourceCommand"
      /\ Mounts[6].responder = "PackageSourceDelete"
      /\ Mounts[7].responder = "PackageSourceHistory"
      /\ Mounts[8].responder = "PackageSourceFile"
      /\ Mounts[9].responder = "PackageSourcePlacement"
      /\ Mounts[10].responder = "ProjectBuildCommand"
      /\ Mounts[11].responder = "BuildResults"
      /\ Mounts[12].responder = "RepoListing"
      /\ Mounts[13].responder = "ArchListing"
      /\ Mounts[14].responder = "BuildJobHistory"
      /\ Mounts[15].responder = "BuildBinaryList"
      /\ Mounts[16].responder = "BuildHistory"
      /\ Mounts[17].responder = "BuildLog"
      /\ Mounts[18].responder = "BuildPackageStatus"
      /\ Mounts[19].responder = "BuildBinaryFile"
  BY SourceTable, BuildTable DEF On, ArchListingMount
<1>3. ASSUME NEW i \in 1..19, F(i), \A j \in 1..19 : j < i => ~F(j)
      PROVE  responder = Mounts[i].responder
  BY <1>3, FirstFit
<1>4. Len(path) \in Nat
  OBVIOUS
<1> HIDE DEF path, method, responder, F
<1>5. ASSUME Len(path) = 2, path[1] = "source"
      PROVE  /\ method = "GET" => responder = "ProjectListing"
             /\ method = "DELETE" => responder = "ProjectDelete"
  <2>1. method = "GET" => responder = "ProjectListing"
    BY <1>1, <1>2, <1>3, <1>4, <1>5
  <2>2. method = "DELETE" => responder = "ProjectDelete"
    BY <1>1, <1>2, <1>3, <1>4, <1>5
  <2> QED
    BY <2>1, <2>2
<1>6. ASSUME Len(path) = 3, path[1] = "source"
      PROVE  /\ method = "GET" /\ path[3] = "_meta" => responder = "ProjectMeta"
             /\ method = "GET" /\ path[3] # "_meta" => responder = "PackageSourceListing"
             /\ method = "POST" => responder = "PackageSourceCommand"
             /\ method = "DELETE" => responder = "PackageSourceDelete"
  <2>1. method = "GET" /\ path[3] = "_meta" => responder = "ProjectMeta"
    BY <1>1, <1>2, <1>3, <1>4, <1>6
  <2>2. method = "GET" /\ path[3] # "_meta" => responder = "PackageSourceListing"
    BY <1>1, <1>2, <1>3, <1>4, <1>6
  <2>3. method = "POST" => responder = "PackageSourceCommand"
    BY <1>1, <1>2, <1>3, <1>4, <1>6
  <2>4. method = "DELETE" => responder = "PackageSourceDelete"
    BY <1>1, <1>2, <1>3, <1>4, <1>6
  <2> QED
    BY <2>1, <2>2, <2>3, <2>4
<1>7. ASSUME Len(path) = 4, path[1] = "source"
      PROVE  /\ method = "GET" /\ path[4] = "_history" => responder = "PackageSourceHistory"
             /\ method = "GET" /\ path[4] # "_history" => responder = "PackageSourceFile"
             /\ method = "PUT" => responder = "PackageSourcePlacement"
  <2>1. method = "GET" /\ path[4] = "_history" => responder = "PackageSourceHistory"
    BY <1>1, <1>2, <1>3, <1>4, <1>7
  <2>2. method = "GET" /\ path[4] # "_history" => responder = "PackageSourceFile"
    BY <1>1, <1>2, <1>3, <1>4, <1>7
  <2>3. method = "PUT" => responder = "PackageSourcePlacement"
    BY <1>1, <1>2, <1>3, <1>4, <1>7
  <2> QED
    BY <2>1, <2>2, <2>3
<1>8. ASSUME Len(path) = 2, path[1] = "build"
      PROVE  /\ method = "POST" => responder = "ProjectBuildCommand"
             /\ method = "GET" => responder = "RepoListing"
  <2>1. method = "POST" => responder = "ProjectBuildCommand"
    BY <1>1, <1>2, <1>3, <1>4, <1>8
  <2>2. method = "GET" => responder = "RepoListing"
    BY <1>1, <1>2, <1>3, <1>4, <1>8
  <2> QED
    BY <2>1, <2>2
<1>9. ASSUME Len(path) = 3, path[1] = "build", method = "GET"
      PROVE  /\ path[3] = "_result" => responder = "BuildResults"
             /\ path[3] # "_result" => responder = "ArchListing"
  <2>1. path[3] = "_result" => responder = "BuildResults"
    BY <1>1, <1>2, <1>3, <1>4, <1>9
  <2>2. path[3] # "_result" => responder = "ArchListing"
    BY <1>1, <1>2, <1>3, <1>4, <1>9
  <2> QED
    BY <2>1, <2>2
<1>10. ASSUME Len(path) = 5, path[1] = "build", method = "GET"
      PROVE  /\ path[3] = "build" => responder = "ArchListing"
             /\ path[3] # "build" /\ path[5] = "_jobhistory" => responder = "BuildJobHistory"
             /\ path[3] # "build" /\ path[5] # "_jobhistory" => responder = "BuildBinaryList"
  <2>1. path[3] = "build" => responder = "ArchListing"
    BY <1>1, <1>2, <1>3, <1>4, <1>10
  <2>2. path[3] # "build" /\ path[5] = "_jobhistory" => responder = "BuildJobHistory"
    BY <1>1, <1>2, <1>3, <1>4, <1>10
  <2>3. path[3] # "build" /\ path[5] # "_jobhistory" => responder = "BuildBinaryList"
    BY <1>1, <1>2, <1>3, <1>4, <1>10
  <2> QED
    BY <2>1, <2>2, <2>3
<1>11. ASSUME Len(path) = 6, path[1] = "build", method = "GET"
      PROVE  /\ path[4] = "build" => responder = "ArchListing"
             /\ path[4] # "build" /\ path[6] = "_history" => responder = "BuildHistory"
             /\ path[4] # "build" /\ path[6] = "_log" => responder = "BuildLog"
             /\ path[4] # "build" /\ path[6] = "_status" => responder = "BuildPackageStatus"
             /\ path[4] # "build" /\ path[6] \notin {"_history", "_log", "_status"} =>
                  responder = "BuildBinaryFile"
  <2>1. path[4] = "build" => responder = "ArchListing"
    BY <1>1, <1>2, <1>3, <1>4, <1>11
  <2>2. path[4] # "build" /\ path[6] = "_history" => responder = "BuildHistory"
    BY <1>1, <1>2, <1>3, <1>4, <1>11
  <2>3. path[4] # "build" /\ path[6] = "_log" => responder = "BuildLog"
    BY <1>1, <1>2, <1>3, <1>4, <1>11
  <2>4. path[4] # "build" /\ path[6] = "_status" => responder = "BuildPackageStatus"
    BY <1>1, <1>2, <1>3, <1>4, <1>11
  <2>5. path[4] # "build" /\ path[6] \notin {"_history", "_log", "_status"} =>
                  responder = "BuildBinaryFile"
    BY <1>1, <1>2, <1>3, <1>4, <1>11
  <2> QED
    BY <2>1, <2>2, <2>3, <2>4, <2>5
<1> QED
  BY <1>5, <1>6, <1>7, <1>8, <1>9, <1>10, <1>11 DEF path, method, responder

-----------------------------------------------------------------------------
(* The methods of the client, and what the responders take from their paths. *)

\* The paths that the client puts together.
LEMMA PathTable ==
  /\ InProject = <<"source", "project">> /\ InPackage = <<"source", "project", "package">>
  /\ InBuild = <<"build", "project">>
  /\ InBuilt = <<"build", "project", "repository", "arch", "package">>
  /\ \A x : InProject \o <<x>> = <<"source", "project", x>>
  /\ \A x : InBuild \o <<x>> = <<"build", "project", x>>
  /\ \A x : InPackage \o <<x>> = <<"source", "project", "package", x>>
  /\ \A x : InPair \o <<x>> = <<"build", "project", "repository", "arch", x>>
  /\ \A x : InBuilt \o <<x>> = <<"build", "project", "repository", "arch", "package", x>>
<1>1. /\ InProject = <<"source", "project">> /\ InPackage = <<"source", "project", "package">>
      /\ InBuild = <<"build", "project">>
      /\ InBuilt = <<"build", "project", "repository", "arch", "package">>
  BY DEF InProject, InPackage, InBuild, InBuilt
<1>2. \A x : /\ InProject \o <<x>> = <<"source", "project", x>>
             /\ InBuild \o <<x>> = <<"build", "project", x>>
  BY Joined DEF InProject, InBuild
<1>3. \A x : InPackage \o <<x>> = <<"source", "project", "package", x>>
  BY Joined DEF InPackage
<1>4. \A x : InPair \o <<x>> = <<"build", "project", "repository", "arch", x>>
  <2> TAKE x
  <2>1. <<"build", "project", "repository", "arch">> \o <<x>>
          = <<"build", "project", "repository", "arch", x>>
    <3>1. \A a, b, c, d, y : <<a, b, c, d>> \o <<y>> = <<a, b, c, d, y>>
      BY Joined
    <3> QED
      BY <3>1
  <2> QED
    BY <2>1 DEF InPair
<1>5. \A x : InBuilt \o <<x>> = <<"build", "project", "repository", "arch", "package", x>>
  <2> TAKE x
  <2>1. <<"build", "project", "repository", "arch", "package">> \o <<x>>
          = <<"build", "project", "repository", "arch", "package", x>>
    <3>1. \A a, b, c, d, e, y : <<a, b, c, d, e>> \o <<y>> = <<a, b, c, d, e, y>>
      BY Joined
    <3> QED
      BY <3>1
  <2> QED
    BY <2>1 DEF InBuilt
<1> QED
  BY <1>1, <1>2, <1>3, <1>4, <1>5

\* The tables that Methods is made of.
LEMMA Tables ==
  /\ DOMAIN ProjectBuilder =
           {"delete", "list_packages", "meta", "result", "repositories", "arches",
            "rebuild", "jobhistory"}
  /\ DOMAIN SourceBuilder = {"create", "delete_package", "revisions", "list", "package_meta",
                              "source_file", "upload_for_commit", "commit", "branch"}
  /\ DOMAIN BuildCommands = {"jobstatus", "history", "status", "binary_file", "binaries", "log"}
  /\ \A kind \in DOMAIN ProjectBuilder : Methods[kind] = ProjectBuilder[kind]
  /\ \A kind \in DOMAIN SourceBuilder : Methods[kind] = SourceBuilder[kind]
  /\ \A kind \in DOMAIN BuildCommands : Methods[kind] = BuildCommands[kind]
<1>1. /\ DOMAIN ProjectBuilder =
           {"delete", "list_packages", "meta", "result", "repositories", "arches",
            "rebuild", "jobhistory"}
      /\ DOMAIN SourceBuilder = {"create", "delete_package", "revisions", "list", "package_meta",
                                  "source_file", "upload_for_commit", "commit", "branch"}
      /\ DOMAIN BuildCommands = {"jobstatus", "history", "status", "binary_file", "binaries", "log"}
  BY DEF ProjectBuilder, SourceBuilder, BuildCommands
<1> QED
  BY <1>1 DEF Methods, Kinds

\* The methods of ProjectBuilder one by one.
LEMMA ProjectMethods ==
  /\ Methods["delete"] = Api("DELETE", <<"source", "project">>, "ProjectDelete")
  /\ Methods["list_packages"] = Api("GET", <<"source", "project">>, "ProjectListing")
  /\ Methods["meta"] = Api("GET", <<"source", "project", "_meta">>, "ProjectMeta")
  /\ Methods["result"] = Api("GET", <<"build", "project", "_result">>, "BuildResults")
  /\ Methods["repositories"] = Api("GET", <<"build", "project">>, "RepoListing")
  /\ Methods["arches"] = Api("GET", <<"build", "project", "repository">>, "ArchListing")
  /\ Methods["rebuild"] = Api("POST", <<"build", "project">>, "ProjectBuildCommand")
  /\ Methods["jobhistory"] =
       Api("GET", <<"build", "project", "repository", "arch", "_jobhistory">>, "BuildJobHistory")
BY PathTable, Tables DEF ProjectBuilder

\* Those of PackageBuilder for the sources.
LEMMA SourceMethods ==
  /\ Methods["create"] =
       Api("PUT", <<"source", "project", "package", "_meta">>, "PackageSourcePlacement")
  /\ Methods["delete_package"] =
       Api("DELETE", <<"source", "project", "package">>, "PackageSourceDelete")
  /\ Methods["revisions"] =
       Api("GET", <<"source", "project", "package", "_history">>, "PackageSourceHistory")
  /\ Methods["list"] =
       Api("GET", <<"source", "project", "package">>, "PackageSourceListing")
  /\ Methods["package_meta"] =
       Api("GET", <<"source", "project", "package", "_meta">>, "PackageSourceFile")
  /\ Methods["source_file"] =
       Api("GET", <<"source", "project", "package", "file">>, "PackageSourceFile")
  /\ Methods["upload_for_commit"] =
       Api("PUT", <<"source", "project", "package", "file">>, "PackageSourcePlacement")
  /\ Methods["commit"] =
       Api("POST", <<"source", "project", "package">>, "PackageSourceCommand")
  /\ Methods["branch"] =
       Api("POST", <<"source", "project", "package">>, "PackageSourceCommand")
BY PathTable, Tables DEF SourceBuilder

\* Those of PackageBuilder for the builds, and that of PackageLog.
LEMMA BuildMethods ==
  /\ Methods["jobstatus"] =
       Api("GET", <<"build", "project", "repository", "arch", "package", "_jobstatus">>, "none")
  /\ Methods["history"] =
       Api("GET", <<"build", "project", "repository", "arch", "package", "_history">>,
           "BuildHistory")
  /\ Methods["status"] =
       Api("GET", <<"build", "project", "repository", "arch", "package", "_status">>,
           "BuildPackageStatus")
  /\ Methods["binary_file"] =
       Api("GET", <<"build", "project", "repository", "arch", "package", "file">>,
           "BuildBinaryFile")
  /\ Methods["binaries"] =
       Api("GET", <<"build", "project", "repository", "arch", "package">>, "BuildBinaryList")
  /\ Methods["log"] =
       Api("GET", <<"build", "project", "repository", "arch", "package", "_log">>, "BuildLog")
BY PathTable, Tables DEF BuildCommands

\* A call is of one of the client's methods.
LEMMA KindsAre ==
  ASSUME call \in Calls
  PROVE  /\ call.kind \in Kinds
         /\ Kinds = {"delete", "list_packages", "meta", "result", "repositories", "arches",
                     "rebuild", "jobhistory", "create", "delete_package", "revisions", "list",
                     "package_meta", "source_file", "upload_for_commit", "commit", "branch",
                     "jobstatus", "history", "status", "binary_file", "binaries", "log"}
BY DEF Calls, Kinds, ProjectBuilder, SourceBuilder, BuildCommands

\* What methods and responders have in their paths.
Segs == Roles \cup Words \cup {"_jobstatus", "-"}

\* The path of a request is that of the method, with the names of the call.
LEMMA RequestTable ==
  ASSUME call \in Calls, Methods[call.kind].path \in Seq(Segs)
  PROVE  LET pattern == Methods[call.kind].path
             request == RequestOf(call)
         IN  /\ request.method = Methods[call.kind].method
             /\ \E S : request.path \in Seq(S)
             /\ Len(request.path) = Len(pattern)
             /\ \A i \in 1..Len(pattern) :
                  request.path[i] = IF pattern[i] \in Roles THEN Segment(call.names[pattern[i]])
                                    ELSE pattern[i]
<1> DEFINE pattern == Methods[call.kind].path
           request == RequestOf(call)
           At(i) == IF pattern[i] \in Roles THEN Segment(call.names[pattern[i]]) ELSE pattern[i]
           S == {At(i) : i \in 1..Len(pattern)}
<1>1. DOMAIN pattern = 1..Len(pattern) /\ Len(pattern) \in Nat
  OBVIOUS
<1> HIDE DEF pattern
<1>2. /\ request.method = Methods[call.kind].method
      /\ request.path = [i \in 1..Len(pattern) |-> At(i)]
  BY <1>1 DEF RequestOf, pattern
<1> HIDE DEF At
<1>3. request.path \in [1..Len(pattern) -> S]
  BY <1>2
<1>4. \A i \in 1..Len(pattern) : request.path[i] = At(i)
  BY <1>2
<1> HIDE DEF S, request
<1>5. request.path \in Seq(S) /\ Len(request.path) = Len(pattern)
  BY <1>1, <1>3
<1> QED
  BY <1>2, <1>4, <1>5 DEF pattern, request, At

\* The roles in the path of a method are those it has names for.
LEMMA UsesTable ==
  ASSUME NEW kind, Methods[kind].path \in Seq(Segs)
  PROVE  /\ \A i \in 1..Len(Methods[kind].path) :
              Methods[kind].path[i] \in Roles => Methods[kind].path[i] \in Uses(kind)
         /\ \A role \in Uses(kind) :
              role \in Roles /\ \E i \in 1..Len(Methods[kind].path) : role = Methods[kind].path[i]
BY DEF Uses, ToSet

\* What a responder finds in a path under a name that it takes once.
LEMMA NamesFound ==
  ASSUME NEW responder, NEW S, NEW path \in Seq(S), Segments(responder) \in Seq(Segs),
         NEW j \in 1..Len(path), j \in DOMAIN Segments(responder),
         Segments(responder)[j] # "-",
         \A k \in DOMAIN Segments(responder) :
           Segments(responder)[k] = Segments(responder)[j] => k = j
  PROVE  LET names == NamesFor(responder, path)
             name == Segments(responder)[j]
         IN  name \in DOMAIN names /\ names[name] = path[Len(path) - j + 1]
<1> DEFINE taken == Segments(responder)
           name == taken[j]
           found == SelectInSeq(taken, LAMBDA n : n = name)
           I == {k \in 1..Len(taken) : taken[k] = name}
<1>1. DOMAIN taken = 1..Len(taken) /\ Len(taken) \in Nat
  OBVIOUS
<1>2. I = {j}
  BY <1>1
<1>3. found = IF I # {} THEN Min(I) ELSE 0
  BY DEF SelectInSeq
<1>4. I \in SUBSET Nat
  OBVIOUS
<1> HIDE DEF found, I
<1>5. found = j
  BY <1>2, <1>3, <1>4, MinimumExists
<1>6. name \in ToSet(taken) \ {"-"}
  BY DEF ToSet
<1>7. Reverse(path)[j] = path[Len(path) - j + 1]
  BY DEF Reverse
<1>8. NamesFor(responder, path) =
        [n \in ToSet(taken) \ {"-"} |-> Reverse(path)[SelectInSeq(taken, LAMBDA m : m = n)]]
  BY DEF NamesFor
<1> HIDE DEF taken, name
<1>9. NamesFor(responder, path)[name] = Reverse(path)[found]
  BY <1>6, <1>8 DEF found
<1> QED
  BY <1>5, <1>6, <1>7, <1>8, <1>9 DEF taken, name

\* What a responder takes from a path, counted from the end, is what the client
\* put there.
Takes(pattern, taken) ==
  \A i \in 1..Len(pattern) : pattern[i] \in Roles =>
    \E j \in 1..Len(taken) : taken[j] = pattern[i]

CountsRight(pattern, taken) ==
  \A i \in 1..Len(pattern) : pattern[i] \in Roles =>
    \A j \in 1..Len(taken) : taken[j] = pattern[i] => i + j = Len(pattern) + 1

Aligned(pattern, taken) ==
  /\ pattern \in Seq(Segs) /\ taken \in Seq(Segs)
  /\ Takes(pattern, taken) /\ CountsRight(pattern, taken)

\* The methods and the responders meant for them agree on the segments.
LEMMA SegmentsAgree ==
  ASSUME NEW kind \in Kinds \ {"jobstatus"}
  PROVE  Aligned(Methods[kind].path, Segments(Methods[kind].responder))
<1>1. Aligned(<<"source", "project">>, <<"project">>)
  BY DEF Aligned, Takes, CountsRight, Segs, Roles, Words
<1>2. Aligned(<<"source", "project", "_meta">>, <<"-", "project">>)
  BY DEF Aligned, Takes, CountsRight, Segs, Roles, Words
<1>3. Aligned(<<"build", "project", "_result">>, <<"-", "project">>)
  BY DEF Aligned, Takes, CountsRight, Segs, Roles, Words
<1>4. Aligned(<<"build", "project">>, <<"project">>)
  BY DEF Aligned, Takes, CountsRight, Segs, Roles, Words
<1>5. Aligned(<<"build", "project", "repository">>, <<"repository", "project">>)
  BY DEF Aligned, Takes, CountsRight, Segs, Roles, Words
<1>6. Aligned(<<"build", "project", "repository", "arch", "_jobhistory">>,
             <<"-", "arch", "repository", "project">>)
  BY DEF Aligned, Takes, CountsRight, Segs, Roles, Words
<1>7. Aligned(<<"source", "project", "package", "_meta">>, <<"file", "package", "project">>)
  BY DEF Aligned, Takes, CountsRight, Segs, Roles, Words
<1>8. Aligned(<<"source", "project", "package">>, <<"package", "project">>)
  BY DEF Aligned, Takes, CountsRight, Segs, Roles, Words
<1>9. Aligned(<<"source", "project", "package", "_history">>, <<"-", "package", "project">>)
  BY DEF Aligned, Takes, CountsRight, Segs, Roles, Words
<1>10. Aligned(<<"source", "project", "package", "file">>, <<"file", "package", "project">>)
  BY DEF Aligned, Takes, CountsRight, Segs, Roles, Words
<1>11. Aligned(<<"build", "project", "repository", "arch", "package", "_history">>,
              <<"-", "package", "arch", "repository", "project">>)
  BY DEF Aligned, Takes, CountsRight, Segs, Roles, Words
<1>12. Aligned(<<"build", "project", "repository", "arch", "package", "_status">>,
              <<"-", "package", "arch", "repository", "project">>)
  BY DEF Aligned, Takes, CountsRight, Segs, Roles, Words
<1>13. Aligned(<<"build", "project", "repository", "arch", "package", "file">>,
              <<"file", "package", "arch", "repository", "project">>)
  BY DEF Aligned, Takes, CountsRight, Segs, Roles, Words
<1>14. Aligned(<<"build", "project", "repository", "arch", "package">>,
              <<"package", "arch", "repository", "project">>)
  BY DEF Aligned, Takes, CountsRight, Segs, Roles, Words
<1>15. Aligned(<<"build", "project", "repository", "arch", "package", "_log">>,
              <<"-", "package", "arch", "repository", "project">>)
  BY DEF Aligned, Takes, CountsRight, Segs, Roles, Words
<1>16. /\ Segments("ProjectListing") = <<"project">>
       /\ Segments("ProjectDelete") = <<"project">>
       /\ Segments("ProjectBuildCommand") = <<"project">>
       /\ Segments("RepoListing") = <<"project">>
       /\ Segments("ProjectMeta") = <<"-", "project">>
       /\ Segments("BuildResults") = <<"-", "project">>
       /\ Segments("PackageSourceListing") = <<"package", "project">>
       /\ Segments("PackageSourceCommand") = <<"package", "project">>
       /\ Segments("PackageSourceDelete") = <<"package", "project">>
       /\ Segments("PackageSourceHistory") = <<"-", "package", "project">>
       /\ Segments("PackageSourceFile") = <<"file", "package", "project">>
       /\ Segments("PackageSourcePlacement") = <<"file", "package", "project">>
       /\ Segments("ArchListing") = <<"repository", "project">>
       /\ Segments("BuildJobHistory") = <<"-", "arch", "repository", "project">>
       /\ Segments("BuildBinaryList") = <<"package", "arch", "repository", "project">>
       /\ Segments("BuildBinaryFile") = <<"file", "package", "arch", "repository", "project">>
       /\ Segments("BuildHistory") = <<"-", "package", "arch", "repository", "project">>
       /\ Segments("BuildLog") = <<"-", "package", "arch", "repository", "project">>
       /\ Segments("BuildPackageStatus") = <<"-", "package", "arch", "repository", "project">>
  BY DEF Segments
<1>17. CASE kind = "delete"
  BY <1>1, <1>16, <1>17, ProjectMethods DEF Api
<1>18. CASE kind = "list_packages"
  BY <1>1, <1>16, <1>18, ProjectMethods DEF Api
<1>19. CASE kind = "meta"
  BY <1>2, <1>16, <1>19, ProjectMethods DEF Api
<1>20. CASE kind = "result"
  BY <1>3, <1>16, <1>20, ProjectMethods DEF Api
<1>21. CASE kind = "repositories"
  BY <1>4, <1>16, <1>21, ProjectMethods DEF Api
<1>22. CASE kind = "arches"
  BY <1>5, <1>16, <1>22, ProjectMethods DEF Api
<1>23. CASE kind = "rebuild"
  BY <1>4, <1>16, <1>23, ProjectMethods DEF Api
<1>24. CASE kind = "jobhistory"
  BY <1>6, <1>16, <1>24, ProjectMethods DEF Api
<1>25. CASE kind = "create"
  BY <1>7, <1>16, <1>25, SourceMethods DEF Api
<1>26. CASE kind = "delete_package"
  BY <1>8, <1>16, <1>26, SourceMethods DEF Api
<1>27. CASE kind = "revisions"
  BY <1>9, <1>16, <1>27, SourceMethods DEF Api
<1>28. CASE kind = "list"
  BY <1>8, <1>16, <1>28, SourceMethods DEF Api
<1>29. CASE kind = "package_meta"
  BY <1>7, <1>16, <1>29, SourceMethods DEF Api
<1>30. CASE kind = "source_file"
  BY <1>10, <1>16, <1>30, SourceMethods DEF Api
<1>31. CASE kind = "upload_for_commit"
  BY <1>10, <1>16, <1>31, SourceMethods DEF Api
<1>32. CASE kind = "commit"
  BY <1>8, <1>16, <1>32, SourceMethods DEF Api
<1>33. CASE kind = "branch"
  BY <1>8, <1>16, <1>33, SourceMethods DEF Api
<1>34. CASE kind = "history"
  BY <1>11, <1>16, <1>34, BuildMethods DEF Api
<1>35. CASE kind = "status"
  BY <1>12, <1>16, <1>35, BuildMethods DEF Api
<1>36. CASE kind = "binary_file"
  BY <1>13, <1>16, <1>36, BuildMethods DEF Api
<1>37. CASE kind = "binaries"
  BY <1>14, <1>16, <1>37, BuildMethods DEF Api
<1>38. CASE kind = "log"
  BY <1>15, <1>16, <1>38, BuildMethods DEF Api
<1> QED
  BY <1>17, <1>18, <1>19, <1>20, <1>21, <1>22, <1>23, <1>24, <1>25, <1>26, <1>27, <1>28,
     <1>29, <1>30, <1>31, <1>32, <1>33, <1>34, <1>35, <1>36, <1>37, <1>38 DEF Kinds,
     ProjectBuilder, SourceBuilder, BuildCommands

-----------------------------------------------------------------------------
(* The names that do not get through.                                      *)

\* Names that are words of a route before the one meant for the call.
Misled ==
  \/ call.kind \in {"jobhistory", "binaries"} /\ call.names["repository"] = "build"
  \/ call.kind \in DOMAIN BuildCommands \ {"binaries"} /\ call.names["arch"] = "build"
  \/ call.kind = "arches" /\ call.names["repository"] = "_result"
  \/ call.kind = "list" /\ call.names["package"] = "_meta"
  \/ call.kind = "binaries" /\ call.names["package"] = "_jobhistory"
  \/ call.kind = "source_file" /\ call.names["file"] = "_history"
  \/ call.kind = "binary_file" /\ call.names["file"] \in {"_history", "_log", "_status"}

\* The paths of the methods are sequences of words and roles.
LEMMA PathsOf ==
  ASSUME call \in Calls
  PROVE  Methods[call.kind].path \in Seq(Segs)
<1>1. CASE call.kind = "jobstatus"
  <2>1. <<"build", "project", "repository", "arch", "package", "_jobstatus">> \in Seq(Segs)
    BY DEF Segs, Roles, Words
  <2> QED
    BY <1>1, <2>1, BuildMethods DEF Api
<1>2. CASE call.kind # "jobstatus"
  BY <1>2, KindsAre, SegmentsAgree DEF Aligned
<1> QED
  BY <1>1, <1>2

\* What it is to be oddly named.
LEMMA OddIs ==
  ASSUME call \in Calls
  PROVE  OddlyNamed <=> Named(Roles, Encoded) \/ Misled
<1>1. \A i \in 1..Len(Methods[call.kind].path) :
        Methods[call.kind].path[i] \in Roles => Methods[call.kind].path[i] \in Uses(call.kind)
  BY PathsOf, UsesTable
<1>2. \A role, odd : Named({role}, odd) <=> role \in Uses(call.kind) /\ call.names[role] \in odd
  BY DEF Named
<1>3. DOMAIN BuildCommands = {"jobstatus", "history", "status", "binary_file", "binaries", "log"}
  BY DEF BuildCommands
<1>4. call.kind \in DOMAIN BuildCommands => "arch" \in Uses(call.kind)
  <2>1. call.kind = "jobstatus" =>
          Len(Methods[call.kind].path) = 6 /\ Methods[call.kind].path[4] = "arch"
    BY BuildMethods DEF Api
  <2>2. call.kind = "history" =>
          Len(Methods[call.kind].path) = 6 /\ Methods[call.kind].path[4] = "arch"
    BY BuildMethods DEF Api
  <2>3. call.kind = "status" =>
          Len(Methods[call.kind].path) = 6 /\ Methods[call.kind].path[4] = "arch"
    BY BuildMethods DEF Api
  <2>4. call.kind = "binary_file" =>
          Len(Methods[call.kind].path) = 6 /\ Methods[call.kind].path[4] = "arch"
    BY BuildMethods DEF Api
  <2>5. call.kind = "binaries" =>
          Len(Methods[call.kind].path) = 5 /\ Methods[call.kind].path[4] = "arch"
    BY BuildMethods DEF Api
  <2>6. call.kind = "log" =>
          Len(Methods[call.kind].path) = 6 /\ Methods[call.kind].path[4] = "arch"
    BY BuildMethods DEF Api
  <2> QED
    BY <1>1, <1>3, <2>1, <2>2, <2>3, <2>4, <2>5, <2>6 DEF Roles
<1>5. call.kind \in {"jobhistory", "binaries", "arches"} => "repository" \in Uses(call.kind)
  <2>1. call.kind = "jobhistory" =>
          Len(Methods[call.kind].path) = 5 /\ Methods[call.kind].path[3] = "repository"
    BY ProjectMethods DEF Api
  <2>2. call.kind = "binaries" =>
          Len(Methods[call.kind].path) = 5 /\ Methods[call.kind].path[3] = "repository"
    BY BuildMethods DEF Api
  <2>3. call.kind = "arches" =>
          Len(Methods[call.kind].path) = 3 /\ Methods[call.kind].path[3] = "repository"
    BY ProjectMethods DEF Api
  <2> QED
    BY <1>1, <2>1, <2>2, <2>3 DEF Roles
<1>6. call.kind = "list" => "package" \in Uses(call.kind)
  <2>1. call.kind = "list" =>
          Len(Methods[call.kind].path) = 3 /\ Methods[call.kind].path[3] = "package"
    BY SourceMethods DEF Api
  <2> QED
    BY <1>1, <2>1 DEF Roles
<1>7. call.kind = "binaries" => "package" \in Uses(call.kind)
  <2>1. call.kind = "binaries" =>
          Len(Methods[call.kind].path) = 5 /\ Methods[call.kind].path[5] = "package"
    BY BuildMethods DEF Api
  <2> QED
    BY <1>1, <2>1 DEF Roles
<1>8. call.kind = "source_file" => "file" \in Uses(call.kind)
  <2>1. call.kind = "source_file" =>
          Len(Methods[call.kind].path) = 4 /\ Methods[call.kind].path[4] = "file"
    BY SourceMethods DEF Api
  <2> QED
    BY <1>1, <2>1 DEF Roles
<1>9. call.kind = "binary_file" => "file" \in Uses(call.kind)
  <2>1. call.kind = "binary_file" =>
          Len(Methods[call.kind].path) = 6 /\ Methods[call.kind].path[6] = "file"
    BY BuildMethods DEF Api
  <2> QED
    BY <1>1, <2>1 DEF Roles
<1>10. call.kind \in {"jobhistory", "binaries"} =>
          (Named({"repository"}, {"build"}) <=> call.names["repository"] \in {"build"})
  BY <1>2, <1>5
<1>11. call.kind \in DOMAIN BuildCommands \ {"binaries"} =>
          (Named({"arch"}, {"build"}) <=> call.names["arch"] \in {"build"})
  BY <1>2, <1>4
<1>12. call.kind = "arches" =>
          (Named({"repository"}, {"_result"}) <=> call.names["repository"] \in {"_result"})
  BY <1>2, <1>5
<1>13. call.kind = "list" =>
          (Named({"package"}, {"_meta"}) <=> call.names["package"] \in {"_meta"})
  BY <1>2, <1>6
<1>14. call.kind = "binaries" =>
          (Named({"package"}, {"_jobhistory"}) <=> call.names["package"] \in {"_jobhistory"})
  BY <1>2, <1>7
<1>15. call.kind = "source_file" =>
          (Named({"file"}, {"_history"}) <=> call.names["file"] \in {"_history"})
  BY <1>2, <1>8
<1>16. call.kind = "binary_file" =>
          (Named({"file"}, {"_history", "_log", "_status"}) <=>
             call.names["file"] \in {"_history", "_log", "_status"})
  BY <1>2, <1>9
<1> QED
  BY <1>10, <1>11, <1>12, <1>13, <1>14, <1>15, <1>16 DEF OddlyNamed, Misled

\* The responder meant for a call gets its request if no name misleads it.
LEMMA RightResponder ==
  ASSUME call \in Calls, ~Named(Roles, Encoded)
  PROVE  Dispatch(RequestOf(call)) = Methods[call.kind].responder <=>
           ~Misled /\ call.kind # "jobstatus"
<1> DEFINE pattern == Methods[call.kind].path
           request == RequestOf(call)
           path == request.path
           responder == Dispatch(request)
<1>1. /\ pattern \in Seq(Segs) /\ Len(path) = Len(pattern)
      /\ request.method = Methods[call.kind].method /\ \E S : path \in Seq(S)
      /\ \A i \in 1..Len(pattern) :
           path[i] = IF pattern[i] \in Roles THEN Segment(call.names[pattern[i]]) ELSE pattern[i]
  BY PathsOf, RequestTable
<1>2. \A i \in 1..Len(pattern) :
        path[i] = IF pattern[i] \in Roles THEN call.names[pattern[i]] ELSE pattern[i]
  <2>1. ASSUME NEW i \in 1..Len(pattern), pattern[i] \in Roles
        PROVE  Segment(call.names[pattern[i]]) = call.names[pattern[i]]
    <3>1. pattern[i] \in Uses(call.kind)
      BY <1>1, <2>1, UsesTable
    <3> QED
      BY <2>1, <3>1 DEF Named, Segment
  <2> QED
    BY <1>1, <2>1
<1>3. DOMAIN BuildCommands = {"jobstatus", "history", "status", "binary_file", "binaries", "log"}
  BY DEF BuildCommands
<1>4. PICK S : path \in Seq(S)
  BY <1>1
<1>5. CASE call.kind = "delete"
  <2>1. /\ pattern = <<"source", "project">>
        /\ Methods[call.kind].responder = "ProjectDelete"
        /\ Methods[call.kind].method = "DELETE"
    BY <1>5, ProjectMethods DEF Api
  <2>2. request.method = "DELETE" /\ Len(path) = 2 /\ path[1] = "source"
    BY <1>1, <1>2, <2>1 DEF Roles
  <2> QED
    BY <1>3, <1>4, <1>5, <2>1, <2>2, DispatchTable DEF Misled
<1>6. CASE call.kind = "list_packages"
  <2>1. /\ pattern = <<"source", "project">>
        /\ Methods[call.kind].responder = "ProjectListing" /\ Methods[call.kind].method = "GET"
    BY <1>6, ProjectMethods DEF Api
  <2>2. request.method = "GET" /\ Len(path) = 2 /\ path[1] = "source"
    BY <1>1, <1>2, <2>1 DEF Roles
  <2> QED
    BY <1>3, <1>4, <1>6, <2>1, <2>2, DispatchTable DEF Misled
<1>7. CASE call.kind = "meta"
  <2>1. /\ pattern = <<"source", "project", "_meta">>
        /\ Methods[call.kind].responder = "ProjectMeta" /\ Methods[call.kind].method = "GET"
    BY <1>7, ProjectMethods DEF Api
  <2>2. request.method = "GET" /\ Len(path) = 3 /\ path[1] = "source"
    BY <1>1, <1>2, <2>1 DEF Roles
  <2>3. path[3] = "_meta"
    BY <1>1, <1>2, <2>1 DEF Roles
  <2> QED
    BY <1>3, <1>4, <1>7, <2>1, <2>2, <2>3, DispatchTable DEF Misled
<1>8. CASE call.kind = "result"
  <2>1. /\ pattern = <<"build", "project", "_result">>
        /\ Methods[call.kind].responder = "BuildResults" /\ Methods[call.kind].method = "GET"
    BY <1>8, ProjectMethods DEF Api
  <2>2. request.method = "GET" /\ Len(path) = 3 /\ path[1] = "build"
    BY <1>1, <1>2, <2>1 DEF Roles
  <2>3. path[3] = "_result"
    BY <1>1, <1>2, <2>1 DEF Roles
  <2> QED
    BY <1>3, <1>4, <1>8, <2>1, <2>2, <2>3, DispatchTable DEF Misled
<1>9. CASE call.kind = "repositories"
  <2>1. /\ pattern = <<"build", "project">>
        /\ Methods[call.kind].responder = "RepoListing" /\ Methods[call.kind].method = "GET"
    BY <1>9, ProjectMethods DEF Api
  <2>2. request.method = "GET" /\ Len(path) = 2 /\ path[1] = "build"
    BY <1>1, <1>2, <2>1 DEF Roles
  <2> QED
    BY <1>3, <1>4, <1>9, <2>1, <2>2, DispatchTable DEF Misled
<1>10. CASE call.kind = "arches"
  <2>1. /\ pattern = <<"build", "project", "repository">>
        /\ Methods[call.kind].responder = "ArchListing" /\ Methods[call.kind].method = "GET"
    BY <1>10, ProjectMethods DEF Api
  <2>2. request.method = "GET" /\ Len(path) = 3 /\ path[1] = "build"
    BY <1>1, <1>2, <2>1 DEF Roles
  <2>3. path[3] = call.names["repository"]
    BY <1>1, <1>2, <2>1 DEF Roles
  <2> QED
    BY <1>3, <1>4, <1>10, <2>1, <2>2, <2>3, DispatchTable DEF Misled
<1>11. CASE call.kind = "rebuild"
  <2>1. /\ pattern = <<"build", "project">>
        /\ Methods[call.kind].responder = "ProjectBuildCommand"
        /\ Methods[call.kind].method = "POST"
    BY <1>11, ProjectMethods DEF Api
  <2>2. request.method = "POST" /\ Len(path) = 2 /\ path[1] = "build"
    BY <1>1, <1>2, <2>1 DEF Roles
  <2> QED
    BY <1>3, <1>4, <1>11, <2>1, <2>2, DispatchTable DEF Misled
<1>12. CASE call.kind = "jobhistory"
  <2>1. /\ pattern = <<"build", "project", "repository", "arch", "_jobhistory">>
        /\ Methods[call.kind].responder = "BuildJobHistory" /\ Methods[call.kind].method = "GET"
    BY <1>12, ProjectMethods DEF Api
  <2>2. request.method = "GET" /\ Len(path) = 5 /\ path[1] = "build"
    BY <1>1, <1>2, <2>1 DEF Roles
  <2>3. /\ path[3] = call.names["repository"]
        /\ path[4] = call.names["arch"]
        /\ path[5] = "_jobhistory"
    BY <1>1, <1>2, <2>1 DEF Roles
  <2> QED
    BY <1>3, <1>4, <1>12, <2>1, <2>2, <2>3, DispatchTable DEF Misled
<1>13. CASE call.kind = "create"
  <2>1. /\ pattern = <<"source", "project", "package", "_meta">>
        /\ Methods[call.kind].responder = "PackageSourcePlacement"
        /\ Methods[call.kind].method = "PUT"
    BY <1>13, SourceMethods DEF Api
  <2>2. request.method = "PUT" /\ Len(path) = 4 /\ path[1] = "source"
    BY <1>1, <1>2, <2>1 DEF Roles
  <2>3. path[3] = call.names["package"] /\ path[4] = "_meta"
    BY <1>1, <1>2, <2>1 DEF Roles
  <2> QED
    BY <1>3, <1>4, <1>13, <2>1, <2>2, <2>3, DispatchTable DEF Misled
<1>14. CASE call.kind = "delete_package"
  <2>1. /\ pattern = <<"source", "project", "package">>
        /\ Methods[call.kind].responder = "PackageSourceDelete"
        /\ Methods[call.kind].method = "DELETE"
    BY <1>14, SourceMethods DEF Api
  <2>2. request.method = "DELETE" /\ Len(path) = 3 /\ path[1] = "source"
    BY <1>1, <1>2, <2>1 DEF Roles
  <2>3. path[3] = call.names["package"]
    BY <1>1, <1>2, <2>1 DEF Roles
  <2> QED
    BY <1>3, <1>4, <1>14, <2>1, <2>2, <2>3, DispatchTable DEF Misled
<1>15. CASE call.kind = "revisions"
  <2>1. /\ pattern = <<"source", "project", "package", "_history">>
        /\ Methods[call.kind].responder = "PackageSourceHistory"
        /\ Methods[call.kind].method = "GET"
    BY <1>15, SourceMethods DEF Api
  <2>2. request.method = "GET" /\ Len(path) = 4 /\ path[1] = "source"
    BY <1>1, <1>2, <2>1 DEF Roles
  <2>3. path[3] = call.names["package"] /\ path[4] = "_history"
    BY <1>1, <1>2, <2>1 DEF Roles
  <2> QED
    BY <1>3, <1>4, <1>15, <2>1, <2>2, <2>3, DispatchTable DEF Misled
<1>16. CASE call.kind = "list"
  <2>1. /\ pattern = <<"source", "project", "package">>
        /\ Methods[call.kind].responder = "PackageSourceListing"
        /\ Methods[call.kind].method = "GET"
    BY <1>16, SourceMethods DEF Api
  <2>2. request.method = "GET" /\ Len(path) = 3 /\ path[1] = "source"
    BY <1>1, <1>2, <2>1 DEF Roles
  <2>3. path[3] = call.names["package"]
    BY <1>1, <1>2, <2>1 DEF Roles
  <2> QED
    BY <1>3, <1>4, <1>16, <2>1, <2>2, <2>3, DispatchTable DEF Misled
<1>17. CASE call.kind = "package_meta"
  <2>1. /\ pattern = <<"source", "project", "package", "_meta">>
        /\ Methods[call.kind].responder = "PackageSourceFile"
        /\ Methods[call.kind].method = "GET"
    BY <1>17, SourceMethods DEF Api
  <2>2. request.method = "GET" /\ Len(path) = 4 /\ path[1] = "source"
    BY <1>1, <1>2, <2>1 DEF Roles
  <2>3. path[3] = call.names["package"] /\ path[4] = "_meta"
    BY <1>1, <1>2, <2>1 DEF Roles
  <2> QED
    BY <1>3, <1>4, <1>17, <2>1, <2>2, <2>3, DispatchTable DEF Misled
<1>18. CASE call.kind = "source_file"
  <2>1. /\ pattern = <<"source", "project", "package", "file">>
        /\ Methods[call.kind].responder = "PackageSourceFile"
        /\ Methods[call.kind].method = "GET"
    BY <1>18, SourceMethods DEF Api
  <2>2. request.method = "GET" /\ Len(path) = 4 /\ path[1] = "source"
    BY <1>1, <1>2, <2>1 DEF Roles
  <2>3. path[3] = call.names["package"] /\ path[4] = call.names["file"]
    BY <1>1, <1>2, <2>1 DEF Roles
  <2> QED
    BY <1>3, <1>4, <1>18, <2>1, <2>2, <2>3, DispatchTable DEF Misled
<1>19. CASE call.kind = "upload_for_commit"
  <2>1. /\ pattern = <<"source", "project", "package", "file">>
        /\ Methods[call.kind].responder = "PackageSourcePlacement"
        /\ Methods[call.kind].method = "PUT"
    BY <1>19, SourceMethods DEF Api
  <2>2. request.method = "PUT" /\ Len(path) = 4 /\ path[1] = "source"
    BY <1>1, <1>2, <2>1 DEF Roles
  <2>3. path[3] = call.names["package"] /\ path[4] = call.names["file"]
    BY <1>1, <1>2, <2>1 DEF Roles
  <2> QED
    BY <1>3, <1>4, <1>19, <2>1, <2>2, <2>3, DispatchTable DEF Misled
<1>20. CASE call.kind = "commit"
  <2>1. /\ pattern = <<"source", "project", "package">>
        /\ Methods[call.kind].responder = "PackageSourceCommand"
        /\ Methods[call.kind].method = "POST"
    BY <1>20, SourceMethods DEF Api
  <2>2. request.method = "POST" /\ Len(path) = 3 /\ path[1] = "source"
    BY <1>1, <1>2, <2>1 DEF Roles
  <2>3. path[3] = call.names["package"]
    BY <1>1, <1>2, <2>1 DEF Roles
  <2> QED
    BY <1>3, <1>4, <1>20, <2>1, <2>2, <2>3, DispatchTable DEF Misled
<1>21. CASE call.kind = "branch"
  <2>1. /\ pattern = <<"source", "project", "package">>
        /\ Methods[call.kind].responder = "PackageSourceCommand"
        /\ Methods[call.kind].method = "POST"
    BY <1>21, SourceMethods DEF Api
  <2>2. request.method = "POST" /\ Len(path) = 3 /\ path[1] = "source"
    BY <1>1, <1>2, <2>1 DEF Roles
  <2>3. path[3] = call.names["package"]
    BY <1>1, <1>2, <2>1 DEF Roles
  <2> QED
    BY <1>3, <1>4, <1>21, <2>1, <2>2, <2>3, DispatchTable DEF Misled
<1>22. CASE call.kind = "jobstatus"
  <2>1. /\ pattern = <<"build", "project", "repository", "arch", "package", "_jobstatus">>
        /\ Methods[call.kind].responder = "none" /\ Methods[call.kind].method = "GET"
    BY <1>22, BuildMethods DEF Api
  <2>2. request.method = "GET" /\ Len(path) = 6 /\ path[1] = "build"
    BY <1>1, <1>2, <2>1 DEF Roles
  <2>3. /\ path[3] = call.names["repository"]
        /\ path[4] = call.names["arch"]
        /\ path[5] = call.names["package"]
        /\ path[6] = "_jobstatus"
    BY <1>1, <1>2, <2>1 DEF Roles
  <2> QED
    BY <1>3, <1>4, <1>22, <2>1, <2>2, <2>3, DispatchTable DEF Misled
<1>23. CASE call.kind = "history"
  <2>1. /\ pattern = <<"build", "project", "repository", "arch", "package", "_history">>
        /\ Methods[call.kind].responder = "BuildHistory" /\ Methods[call.kind].method = "GET"
    BY <1>23, BuildMethods DEF Api
  <2>2. request.method = "GET" /\ Len(path) = 6 /\ path[1] = "build"
    BY <1>1, <1>2, <2>1 DEF Roles
  <2>3. /\ path[3] = call.names["repository"]
        /\ path[4] = call.names["arch"]
        /\ path[5] = call.names["package"]
        /\ path[6] = "_history"
    BY <1>1, <1>2, <2>1 DEF Roles
  <2> QED
    BY <1>3, <1>4, <1>23, <2>1, <2>2, <2>3, DispatchTable DEF Misled
<1>24. CASE call.kind = "status"
  <2>1. /\ pattern = <<"build", "project", "repository", "arch", "package", "_status">>
        /\ Methods[call.kind].responder = "BuildPackageStatus"
        /\ Methods[call.kind].method = "GET"
    BY <1>24, BuildMethods DEF Api
  <2>2. request.method = "GET" /\ Len(path) = 6 /\ path[1] = "build"
    BY <1>1, <1>2, <2>1 DEF Roles
  <2>3. /\ path[3] = call.names["repository"]
        /\ path[4] = call.names["arch"]
        /\ path[5] = call.names["package"]
        /\ path[6] = "_status"
    BY <1>1, <1>2, <2>1 DEF Roles
  <2> QED
    BY <1>3, <1>4, <1>24, <2>1, <2>2, <2>3, DispatchTable DEF Misled
<1>25. CASE call.kind = "binary_file"
  <2>1. /\ pattern = <<"build", "project", "repository", "arch", "package", "file">>
        /\ Methods[call.kind].responder = "BuildBinaryFile" /\ Methods[call.kind].method = "GET"
    BY <1>25, BuildMethods DEF Api
  <2>2. request.method = "GET" /\ Len(path) = 6 /\ path[1] = "build"
    BY <1>1, <1>2, <2>1 DEF Roles
  <2>3. /\ path[3] = call.names["repository"]
        /\ path[4] = call.names["arch"]
        /\ path[5] = call.names["package"]
        /\ path[6] = call.names["file"]
    BY <1>1, <1>2, <2>1 DEF Roles
  <2> QED
    BY <1>3, <1>4, <1>25, <2>1, <2>2, <2>3, DispatchTable DEF Misled
<1>26. CASE call.kind = "binaries"
  <2>1. /\ pattern = <<"build", "project", "repository", "arch", "package">>
        /\ Methods[call.kind].responder = "BuildBinaryList" /\ Methods[call.kind].method = "GET"
    BY <1>26, BuildMethods DEF Api
  <2>2. request.method = "GET" /\ Len(path) = 5 /\ path[1] = "build"
    BY <1>1, <1>2, <2>1 DEF Roles
  <2>3. /\ path[3] = call.names["repository"]
        /\ path[4] = call.names["arch"]
        /\ path[5] = call.names["package"]
    BY <1>1, <1>2, <2>1 DEF Roles
  <2> QED
    BY <1>3, <1>4, <1>26, <2>1, <2>2, <2>3, DispatchTable DEF Misled
<1>27. CASE call.kind = "log"
  <2>1. /\ pattern = <<"build", "project", "repository", "arch", "package", "_log">>
        /\ Methods[call.kind].responder = "BuildLog" /\ Methods[call.kind].method = "GET"
    BY <1>27, BuildMethods DEF Api
  <2>2. request.method = "GET" /\ Len(path) = 6 /\ path[1] = "build"
    BY <1>1, <1>2, <2>1 DEF Roles
  <2>3. /\ path[3] = call.names["repository"]
        /\ path[4] = call.names["arch"]
        /\ path[5] = call.names["package"]
        /\ path[6] = "_log"
    BY <1>1, <1>2, <2>1 DEF Roles
  <2> QED
    BY <1>3, <1>4, <1>27, <2>1, <2>2, <2>3, DispatchTable DEF Misled
<1> QED
  BY <1>5, <1>6, <1>7, <1>8, <1>9, <1>10, <1>11, <1>12, <1>13, <1>14, <1>15, <1>16, <1>17,
     <1>18, <1>19, <1>20, <1>21, <1>22, <1>23, <1>24, <1>25, <1>26, <1>27, KindsAre

\* The responder meant for a call finds the segments that the client wrote for
\* the names of the call.
LEMMA NamesRight ==
  ASSUME call \in Calls, call.kind # "jobstatus", NEW role \in Uses(call.kind)
  PROVE  LET names == NamesFor(Methods[call.kind].responder, RequestOf(call).path)
         IN  role \in DOMAIN names /\ names[role] = Segment(call.names[role])
<1> DEFINE pattern == Methods[call.kind].path
           responder == Methods[call.kind].responder
           taken == Segments(responder)
           path == RequestOf(call).path
<1>1. /\ pattern \in Seq(Segs) /\ taken \in Seq(Segs)
      /\ Takes(pattern, taken) /\ CountsRight(pattern, taken)
  BY KindsAre, SegmentsAgree DEF Aligned
<1>2. /\ Len(path) = Len(pattern) /\ \E S : path \in Seq(S)
      /\ \A i \in 1..Len(pattern) :
           path[i] = IF pattern[i] \in Roles THEN Segment(call.names[pattern[i]]) ELSE pattern[i]
  BY <1>1, RequestTable
<1>3. PICK S : path \in Seq(S)
  BY <1>2
<1>4. role \in Roles /\ \E i \in 1..Len(pattern) : role = pattern[i]
  BY <1>1, UsesTable
<1>5. PICK i \in 1..Len(pattern) : role = pattern[i]
  BY <1>4
<1>6. PICK j \in 1..Len(taken) : taken[j] = role
  BY <1>1, <1>4, <1>5 DEF Takes
<1>7. \A k \in 1..Len(taken) : taken[k] = role => i + k = Len(pattern) + 1
  BY <1>1, <1>4, <1>5 DEF CountsRight
<1>8. DOMAIN taken = 1..Len(taken) /\ Len(taken) \in Nat /\ Len(pattern) \in Nat
  BY <1>1
<1> HIDE DEF pattern, responder, taken, path
<1>9. j \in 1..Len(path) /\ Len(path) - j + 1 = i
  BY <1>2, <1>6, <1>7, <1>8
<1>10. \A k \in DOMAIN taken : taken[k] = taken[j] => k = j
  BY <1>6, <1>7, <1>8
<1>11. taken[j] # "-"
  BY <1>4, <1>6 DEF Roles
<1>12. j \in DOMAIN taken
  BY <1>6, <1>8
<1>13. role \in DOMAIN NamesFor(responder, path) /\
       NamesFor(responder, path)[role] = path[Len(path) - j + 1]
  BY <1>1, <1>3, <1>6, <1>9, <1>10, <1>11, <1>12, NamesFound DEF taken
<1>14. path[i] = Segment(call.names[role])
  BY <1>2, <1>4, <1>5
<1> QED
  BY <1>9, <1>13, <1>14 DEF responder, path

\* jobstatus goes where a file of a package is asked for, if not to the archs.
LEMMA NothingForJobstatus ==
  ASSUME call \in Calls, call.kind = "jobstatus"
  PROVE  Dispatch(RequestOf(call)) # Methods[call.kind].responder
<1> DEFINE pattern == Methods[call.kind].path
           request == RequestOf(call)
           path == request.path
<1>1. /\ pattern = <<"build", "project", "repository", "arch", "package", "_jobstatus">>
      /\ Methods[call.kind].responder = "none" /\ Methods[call.kind].method = "GET"
  BY BuildMethods DEF Api
<1>2. /\ pattern \in Seq(Segs) /\ Len(path) = Len(pattern)
      /\ request.method = Methods[call.kind].method /\ \E S : path \in Seq(S)
      /\ \A i \in 1..Len(pattern) :
           path[i] = IF pattern[i] \in Roles THEN Segment(call.names[pattern[i]]) ELSE pattern[i]
  BY PathsOf, RequestTable
<1>3. PICK S : path \in Seq(S)
  BY <1>2
<1>4. request.method = "GET" /\ Len(path) = 6 /\ path[1] = "build"
  BY <1>1, <1>2 DEF Roles
<1> QED
  BY <1>1, <1>3, <1>4, DispatchTable

\* What a delivered request arrived as.
Delivery ==
  LET request == RequestOf(call)
      responder == Dispatch(request)
  IN  [responder |-> responder, names |-> NamesFor(responder, request.path)]

\* Such a request arrives right unless a name of the call is odd.
LEMMA ArrivesUnlessOdd ==
  ASSUME call \in Calls, delivered = Delivery
  PROVE  ArrivesRight <=> ~OddlyNamed /\ call.kind # "jobstatus"
<1> DEFINE meant == Methods[call.kind].responder
           names == NamesFor(meant, RequestOf(call).path)
<1>1. /\ delivered.responder = Dispatch(RequestOf(call))
      /\ delivered.names = NamesFor(delivered.responder, RequestOf(call).path)
  BY DEF Delivery
<1>2. OddlyNamed <=> Named(Roles, Encoded) \/ Misled
  BY OddIs
<1>3. CASE call.kind = "jobstatus"
  BY <1>1, <1>3, NothingForJobstatus DEF ArrivesRight
<1>4. CASE call.kind # "jobstatus" /\ ~Named(Roles, Encoded)
  <2>1. delivered.responder = meant <=> ~Misled
    BY <1>1, <1>4, RightResponder
  <2>2. \A role \in Uses(call.kind) :
          role \in DOMAIN names /\ names[role] = Segment(call.names[role])
    BY <1>4, NamesRight
  <2>3. \A role \in Uses(call.kind) : role \in Roles
    BY DEF Uses
  <2>4. \A role \in Uses(call.kind) : Segment(call.names[role]) = call.names[role]
    BY <1>4, <2>3 DEF Named, Segment
  <2>5. delivered.responder = meant => delivered.names = names
    BY <1>1
  <2> HIDE DEF meant, names
  <2>6. ArrivesRight <=> delivered.responder = meant
    BY <2>2, <2>4, <2>5 DEF ArrivesRight, meant
  <2> QED
    BY <1>2, <1>4, <2>1, <2>6
<1>5. CASE call.kind # "jobstatus" /\ Named(Roles, Encoded)
  <2>1. PICK role \in Uses(call.kind) : call.names[role] \in Encoded
    BY <1>5 DEF Named
  <2>2. Segment(call.names[role]) # call.names[role]
    BY <2>1, CallsAssumption DEF Segment
  <2>3. names[role] = Segment(call.names[role])
    BY <1>5, NamesRight
  <2>4. delivered.responder = meant => delivered.names = names
    BY <1>1
  <2> HIDE DEF meant, names
  <2>5. ~ArrivesRight
    BY <2>2, <2>3, <2>4 DEF ArrivesRight, meant
  <2> QED
    BY <1>2, <1>5, <2>5
<1> QED
  BY <1>3, <1>4, <1>5

\* The inductive invariant: what is delivered is the request of the call that is
\* on its way, for no call is made before the last one returned.
Arrived == TypeOK /\ (delivered # Nobody => call \in Calls /\ delivered = Delivery)


\* It is kept by every step.
LEMMA NextArrived == Arrived /\ [Next]_vars => Arrived'
<1> SUFFICES ASSUME Arrived, [Next]_vars PROVE Arrived'
  OBVIOUS
<1>1. TypeOK'
  BY NextTyped DEF Arrived
<1>2. CASE UNCHANGED <<call, delivered>>
  BY <1>1, <1>2 DEF Arrived, Delivery, RequestOf, Segment
<1>3. ASSUME NEW c \in Calls, Call(c)
      PROVE  Arrived'
  <2>1. delivered = Nobody
    BY <1>3 DEF Call, Arrived, TypeOK
  <2> QED
    BY <1>1, <1>3, <2>1 DEF Call, Arrived
<1>4. CASE Deliver
  <2>1. call' = call /\ call \in Calls /\ delivered' = Delivery
    BY <1>4 DEF Deliver, Arrived, TypeOK, Delivery
  <2>2. Delivery' = Delivery
    BY <2>1 DEF Delivery, RequestOf, Segment
  <2> QED
    BY <1>1, <2>1, <2>2 DEF Arrived
<1>5. CASE Return
  BY <1>1, <1>5 DEF Return, Arrived
<1>6. ASSUME NEW job \in Jobs, AddJobHistory(job)
      PROVE  UNCHANGED <<call, delivered>>
  BY <1>6 DEF AddJobHistory
<1> QED
  BY <1>2, <1>3, <1>4, <1>5, <1>6 DEF Next, vars

\* Whatever names there are, also ones that are words of the routes: a call
\* reaches the responder meant for it, with its names, exactly if none is odd.
THEOREM OddNamesOnly == Spec => []OnlyOddNamesGoAstray
<1>1. Init => Arrived
  BY CallsAssumption DEF Init, Arrived, TypeOK
<1>2. Arrived => OnlyOddNamesGoAstray
  BY ArrivesUnlessOdd DEF Arrived, OnlyOddNamesGoAstray
<1> QED
  BY <1>1, <1>2, NextArrived, PTL DEF Spec
=============================================================================
