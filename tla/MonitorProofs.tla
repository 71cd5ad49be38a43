---------------------------- MODULE MonitorProofs ----------------------------
(***************************************************************************)
(* The monitor for any builds and any codes of the server: its vector of   *)
(* entries, searched and updated result by result, is a map from builds to *)
(* codes, and an answer does to the map what MonitorVerdict says.          *)
(*                                                                         *)
(* An answer is a fold over its results.  The fold is first shown to be    *)
(* the last of a sequence of vectors, one for each result, and then, by    *)
(* induction over the results, what each of these vectors holds.           *)
(***************************************************************************)
EXTENDS Monitor, LibraryLemmas

\* The pairs that a vector has entries of.
PairsOf(entries) == {entries[i].pair : i \in DOMAIN entries}

\* A vector with one entry for a pair.
WellFormed(entries) ==
  /\ entries \in Seq(MonitorData)
  /\ \A i, j \in DOMAIN entries : entries[i].pair = entries[j].pair => i = j

CodeOf(p) == FromResult(p, server[p]).code

\* What an entry of p has to say once the results of the pairs in seen were
\* looked at.
Expected(p, seen) ==
  IF p \notin seen \/ (p \in Heard /\ CodeOf(p) = "unknown") THEN Known(p) ELSE CodeOf(p)

\* The vector when those results were looked at.
Told(entries, seen) ==
  /\ WellFormed(entries)
  /\ PairsOf(entries) = Heard \cup seen
  /\ \A i \in DOMAIN entries : entries[i].code = Expected(entries[i].pair, seen)

-----------------------------------------------------------------------------
(* The search for an entry, and what it does to the vector.                *)

\* The search finds the entry of a pair, or nothing if there is none.
LEMMA Search ==
  ASSUME NEW entries, WellFormed(entries), NEW p
  PROVE  LET i == SelectInSeq(entries, LAMBDA entry : entry.pair = p)
         IN  /\ p \notin PairsOf(entries) => i = 0
             /\ p \in PairsOf(entries) => i \in DOMAIN entries /\ entries[i].pair = p
             /\ \A j \in DOMAIN entries : entries[j].pair = p => i = j
<1> DEFINE i == SelectInSeq(entries, LAMBDA entry : entry.pair = p)
           Fits == {j \in 1..Len(entries) : entries[j].pair = p}
<1>1. i = IF Fits # {} THEN Min(Fits) ELSE 0
  BY DEF SelectInSeq
<1>2. entries \in Seq(MonitorData) /\ DOMAIN entries = 1..Len(entries) /\ Len(entries) \in Nat
  BY DEF WellFormed
<1>3. Fits \in SUBSET Nat /\ (p \in PairsOf(entries) <=> Fits # {})
  BY <1>2 DEF PairsOf
<1>4. Fits # {} => Min(Fits) \in Fits
  BY <1>3, MinimumExists
<1>5. p \in PairsOf(entries) => i \in DOMAIN entries /\ entries[i].pair = p
  BY <1>1, <1>2, <1>3, <1>4
<1>6. p \notin PairsOf(entries) => i = 0
  BY <1>1, <1>3
<1>7. \A j \in DOMAIN entries : entries[j].pair = p => i = j
  BY <1>5 DEF WellFormed, PairsOf
<1> QED
  BY <1>5, <1>6, <1>7

\* The code that is known of a pair is that of its entry.
LEMMA KnownIsEntry ==
  ASSUME TypeOK, NEW i \in DOMAIN last
  PROVE  Known(last[i].pair) = last[i].code
<1>1. WellFormed(last)
  BY DEF TypeOK, WellFormed
<1>2. SelectInSeq(last, LAMBDA entry : entry.pair = last[i].pair) = i
  BY <1>1, Search
<1> QED
  BY <1>2 DEF Known

\* What a result says is a code.
LEMMA ResultSays ==
  ASSUME TypeOK, NEW p \in Listed
  PROVE  /\ p \in Pairs /\ FromResult(p, server[p]) \in MonitorData
         /\ FromResult(p, server[p]).pair = p
         /\ FromResult(p, server[p]).code = CodeOf(p) /\ CodeOf(p) \in PackageCodes
<1>1. p \in Pairs /\ server[p] \in Result
  BY DEF TypeOK, Listed
<1>2. CodeOf(p) \in PackageCodes
  <2>1. server[p].dirty \in BOOLEAN /\ server[p].code \in ServerCodes \cup {NoStatus}
    BY <1>1 DEF Result
  <2>2. "unknown" \in PackageCodes
    BY DEF PackageCodes
  <2> QED
    BY <2>1, <2>2, MonitorAssumption DEF CodeOf, FromResult
<1> QED
  BY <1>1, <1>2 DEF CodeOf, FromResult, MonitorData

\* One result more.
LEMMA RememberTells ==
  ASSUME TypeOK, NEW entries, NEW seen \in SUBSET Listed, Told(entries, seen), NEW p \in Listed
  PROVE  Told(Remember(entries, FromResult(p, server[p])), seen \cup {p})
<1> DEFINE data == FromResult(p, server[p])
           i == SelectInSeq(entries, LAMBDA entry : entry.pair = p)
           new == Remember(entries, data)
<1>1. data \in MonitorData /\ data.pair = p /\ data.code = CodeOf(p)
  BY ResultSays
<1>2. /\ p \notin PairsOf(entries) => i = 0
      /\ p \in PairsOf(entries) => i \in DOMAIN entries /\ entries[i].pair = p
      /\ \A j \in DOMAIN entries : entries[j].pair = p => i = j
  BY Search DEF Told
<1>3. new = IF i = 0 THEN Append(entries, data)
            ELSE IF data.code # "unknown" THEN [entries EXCEPT ![i] = data] ELSE entries
  BY <1>1 DEF Remember, SamePair
<1>4. /\ entries \in Seq(MonitorData) /\ DOMAIN entries = 1..Len(entries) /\ Len(entries) \in Nat
      /\ \A j, k \in DOMAIN entries : entries[j].pair = entries[k].pair => j = k
      /\ PairsOf(entries) = Heard \cup seen
      /\ \A j \in DOMAIN entries : entries[j].code = Expected(entries[j].pair, seen)
  BY DEF Told, WellFormed
<1> HIDE DEF data, i, new
<1>5. CASE p \notin PairsOf(entries)
  <2>1. new = Append(entries, data)
    BY <1>2, <1>3, <1>5
  <2>2. /\ new \in Seq(MonitorData) /\ DOMAIN new = 1..(Len(entries) + 1)
        /\ new[Len(entries) + 1] = data
        /\ \A j \in DOMAIN entries : j \in DOMAIN new /\ new[j] = entries[j]
        /\ \A j \in DOMAIN new : j \in DOMAIN entries \/ j = Len(entries) + 1
    BY <1>1, <1>4, <2>1
  <2>3. \A j \in DOMAIN entries : entries[j].pair # p
    BY <1>5 DEF PairsOf
  <2>4. WellFormed(new)
    BY <1>1, <1>4, <2>2, <2>3 DEF WellFormed
  <2>5. PairsOf(new) = PairsOf(entries) \cup {p}
    <3>1. ASSUME NEW q \in PairsOf(new)
          PROVE  q \in PairsOf(entries) \cup {p}
      BY <1>1, <2>2 DEF PairsOf
    <3>2. ASSUME NEW q \in PairsOf(entries) \cup {p}
          PROVE  q \in PairsOf(new)
      <4>1. Len(entries) + 1 \in DOMAIN new
        BY <1>4, <2>2
      <4> QED
        BY <1>1, <2>2, <4>1 DEF PairsOf
    <3> QED
      BY <3>1, <3>2
  <2>6. p \notin Heard
    BY <1>4, <1>5
  <2>7. ASSUME NEW j \in DOMAIN new
        PROVE  new[j].code = Expected(new[j].pair, seen \cup {p})
    <3>1. CASE j \in DOMAIN entries
      BY <1>4, <2>2, <2>3, <3>1 DEF Expected
    <3>2. CASE j = Len(entries) + 1
      BY <1>1, <2>2, <2>6, <3>2 DEF Expected
    <3> QED
      BY <2>2, <3>1, <3>2
  <2> QED
    BY <1>4, <2>4, <2>5, <2>7 DEF Told, new, data
<1>6. CASE p \in PairsOf(entries) /\ data.code # "unknown"
  <2>1. i \in DOMAIN entries /\ entries[i].pair = p /\ i # 0
    BY <1>2, <1>4, <1>6
  <2>2. new = [entries EXCEPT ![i] = data]
    BY <1>3, <1>6, <2>1
  <2>3. /\ new \in Seq(MonitorData) /\ DOMAIN new = DOMAIN entries /\ new[i] = data
        /\ \A j \in DOMAIN entries : new[j].pair = entries[j].pair
        /\ \A j \in DOMAIN entries : j # i => new[j] = entries[j] /\ entries[j].pair # p
    BY <1>1, <1>2, <1>4, <2>1, <2>2
  <2>4. WellFormed(new)
    BY <1>4, <2>3 DEF WellFormed
  <2>5. PairsOf(new) = PairsOf(entries) /\ p \in PairsOf(entries)
    BY <1>6, <2>3 DEF PairsOf
  <2>6. ASSUME NEW j \in DOMAIN new
        PROVE  new[j].code = Expected(new[j].pair, seen \cup {p})
    <3>1. CASE j = i
      BY <1>1, <1>6, <2>3, <3>1 DEF Expected
    <3>2. CASE j # i
      BY <1>4, <2>3, <3>2 DEF Expected
    <3> QED
      BY <3>1, <3>2
  <2> QED
    BY <1>4, <2>4, <2>5, <2>6 DEF Told, new, data
<1>7. CASE p \in PairsOf(entries) /\ data.code = "unknown"
  <2>1. i \in DOMAIN entries /\ entries[i].pair = p /\ i # 0
    BY <1>2, <1>4, <1>7
  <2>2. new = entries
    BY <1>3, <1>7, <2>1
  <2>3. ASSUME NEW j \in DOMAIN entries
        PROVE  entries[j].code = Expected(entries[j].pair, seen \cup {p})
    <3>1. CASE entries[j].pair # p
      BY <1>4, <3>1 DEF Expected
    <3>2. CASE entries[j].pair = p /\ p \in Heard
      BY <1>1, <1>4, <1>7, <3>2 DEF Expected
    <3>3. CASE entries[j].pair = p /\ p \notin Heard
      BY <1>1, <1>4, <1>7, <3>3 DEF Expected
    <3> QED
      BY <3>1, <3>2, <3>3
  <2> QED
    BY <1>4, <1>7, <2>2, <2>3 DEF Told, WellFormed, new, data
<1> QED
  BY <1>5, <1>6, <1>7

-----------------------------------------------------------------------------
(* The fold over an answer.                                                *)

\* What the fold comes to for the results whose numbers are in s, if f says what
\* it comes to for fewer.
Body(s, f, results) ==
  IF s = {} THEN last
  ELSE Remember(f[s \ {Max(s)}], FromResult(results[Max(s)], server[results[Max(s)]]))

\* f says what the fold comes to for any of the first n results.
Folds(f, n, results) == f = [s \in SUBSET (1..n) |-> Body(s, f, results)]

\* The fold of the library is such a function.
LEMMA FoldIsIteration ==
  ASSUME NEW results
  PROVE  FoldLeft(LAMBDA entries, p : Remember(entries, FromResult(p, server[p])), last, results)
           = (CHOOSE f : f = [s \in SUBSET DOMAIN results |-> Body(s, f, results)])[DOMAIN results]
BY DEF FoldLeft, MapThenFoldSet, Body

\* There is one.
LEMMA IterationExists ==
  ASSUME TypeOK, NEW n \in Nat, NEW results \in [1..n -> Listed]
  PROVE  \E f : Folds(f, n, results)
<1> DEFINE Vectors == Seq(MonitorData)
           After(entries, i) == Remember(entries, FromResult(results[i], server[results[i]]))
           step == [x \in Vectors \X (1..n) |-> After(x[1], x[2])]
<1>1. ASSUME NEW entries \in Vectors, NEW i \in 1..n
      PROVE  After(entries, i) \in Vectors /\ step[<<entries, i>>] = After(entries, i)
  <2>1. FromResult(results[i], server[results[i]]) \in MonitorData
    BY ResultSays
  <2>2. After(entries, i) \in Vectors
    <3> DEFINE data == FromResult(results[i], server[results[i]])
    <3> HIDE DEF data
    <3>1. ASSUME NEW j
          PROVE  [entries EXCEPT ![j] = data] \in Vectors
      <4>1. entries \in [1..Len(entries) -> MonitorData] /\ Len(entries) \in Nat
        OBVIOUS
      <4>2. [entries EXCEPT ![j] = data] \in [1..Len(entries) -> MonitorData]
        BY <2>1, <4>1 DEF data
      <4> QED
        BY <4>1, <4>2
    <3>2. Append(entries, data) \in Vectors
      BY <2>1 DEF data
    <3> QED
      BY <3>1, <3>2 DEF Remember, data
  <2> HIDE DEF Vectors, After
  <2> QED
    BY <2>2
<1>2. last \in Vectors
  BY DEF TypeOK
<1> HIDE DEF Vectors, After
<1>3. step \in [Vectors \X (1..n) -> Vectors]
  BY <1>1
<1> HIDE DEF step
<1>4. PICK f \in [SUBSET (1..n) -> Vectors] : Comes(f, n, last, step)
  BY <1>2, <1>3, StepsExist
<1>5. ASSUME NEW s \in SUBSET (1..n)
      PROVE  f[s] = Body(s, f, results)
  <2>1. CASE s = {}
    BY <1>4, <2>1 DEF Body, Comes
  <2>2. CASE s # {}
    <3>1. Max(s) \in 1..n /\ s \ {Max(s)} \in SUBSET (1..n)
      BY <2>2, MaxOfFirst
    <3>2. f[s \ {Max(s)}] \in Vectors
      BY <3>1
    <3>3. f[s] = After(f[s \ {Max(s)}], Max(s))
      BY <1>1, <1>4, <2>2, <3>1, <3>2 DEF Comes
    <3> QED
      BY <2>2, <3>3 DEF Body, After
  <2> QED
    BY <2>1, <2>2
<1>6. Folds(f, n, results)
  BY <1>4, <1>5 DEF Folds
<1> QED
  BY <1>6

\* The vector after an answer has been told of all its results.
LEMMA PollTells ==
  ASSUME TypeOK, Poll
  PROVE  Told(last', Listed)
<1> DEFINE results == SetToSeq(Listed)
           n == Cardinality(Listed)
           f == CHOOSE g : g = [s \in SUBSET DOMAIN results |-> Body(s, g, results)]
           Seen(i) == {results[j] : j \in 1..i}
<1>1. IsFiniteSet(Listed)
  BY MonitorAssumption, FS_Subset DEF Listed
<1>2. /\ results \in [1..n -> Listed] /\ n \in Nat /\ DOMAIN results = 1..n
      /\ Seen(n) = Listed
  BY <1>1, SetAsSequence DEF ToSet
<1> HIDE DEF results, n
<1>3. last' = f[1..n]
  <2>1. last' = FoldLeft(LAMBDA entries, p : Remember(entries, FromResult(p, server[p])),
                         last, results)
    BY DEF Poll, results
  <2> QED
    BY <1>2, <2>1, FoldIsIteration
<1>4. Folds(f, n, results)
  <2>1. \E g : Folds(g, n, results)
    BY <1>2, IterationExists
  <2> QED
    BY <1>2, <2>1 DEF Folds
<1> HIDE DEF f
<1> DEFINE Good == {i \in Nat : i <= n => Told(f[1..i], Seen(i))}
<1>5. 0 \in Good
  <2>1. f[1..0] = last
    BY <1>2, <1>4 DEF Folds, Body
  <2>2. Seen(0) = {}
    OBVIOUS
  <2>3. Told(last, {})
    <3>1. WellFormed(last)
      BY DEF TypeOK, WellFormed
    <3>2. PairsOf(last) = Heard
      BY DEF PairsOf, Heard
    <3>3. \A i \in DOMAIN last : last[i].code = Expected(last[i].pair, {})
      BY KnownIsEntry DEF Expected
    <3> QED
      BY <3>1, <3>2, <3>3 DEF Told
  <2> QED
    BY <2>1, <2>2, <2>3
<1>6. ASSUME NEW i \in Nat, i \in Good
      PROVE  i + 1 \in Good
  <2> DEFINE m == i + 1
  <2> SUFFICES ASSUME m <= n
               PROVE  Told(f[1..m], Seen(m))
    OBVIOUS
  <2>1. Told(f[1..i], Seen(i)) /\ m \in 1..n /\ m \in Nat
    BY <1>2, <1>6
  <2>2. results[m] \in Listed /\ Seen(i) \in SUBSET Listed /\ Seen(m) = Seen(i) \cup {results[m]}
    BY <1>2, <2>1
  <2>3. f[1..m] = Remember(f[1..i], FromResult(results[m], server[results[m]]))
    <3>1. 1..m \in SUBSET (1..n) /\ 1..m # {} /\ m \in 1..m
      BY <1>2, <2>1
    <3>2. Max(1..m) = m
      BY <2>1, <3>1, MaxOfFirst
    <3>3. (1..m) \ {m} = 1..i
      OBVIOUS
    <3>4. f[1..m] = Body(1..m, f, results)
      BY <1>4, <3>1 DEF Folds
    <3> QED
      BY <3>1, <3>2, <3>3, <3>4 DEF Body
  <2> HIDE DEF Seen
  <2>4. Told(Remember(f[1..i], FromResult(results[m], server[results[m]])),
             Seen(i) \cup {results[m]})
    BY <2>1, <2>2, RememberTells
  <2> HIDE DEF m
  <2> QED
    BY <2>2, <2>3, <2>4
<1> HIDE DEF Good
<1>7. n \in Good
  BY <1>2, <1>5, <1>6, CountingUp
<1>8. Told(f[1..n], Seen(n))
  BY <1>2, <1>7 DEF Good
<1> HIDE DEF Seen
<1> QED
  BY <1>2, <1>3, <1>8

-----------------------------------------------------------------------------
(* Types.                                                                  *)

\* The monitor starts with no entries.
LEMMA InitTyped == Init => TypeOK
<1>1. ASSUME Init
      PROVE  server \in [Pairs -> Result \cup {NotListed}]
  <2>1. [dirty |-> TRUE, code |-> NoStatus] \in Result
    BY DEF Result
  <2> HIDE DEF Result
  <2> QED
    BY <1>1, <2>1 DEF Init
<1> QED
  BY <1>1 DEF Init, TypeOK

\* A step keeps the types: an answer leaves one entry for each pair.
LEMMA NextTyped ==
  ASSUME TypeOK, [Next]_vars
  PROVE  TypeOK'
<1>1. CASE Poll
  <2>1. WellFormed(last')
    BY <1>1, PollTells DEF Told
  <2>2. verdict' \in {"none", "not_built", "failed", "good", "error"}
    BY <1>1 DEF Poll, Outcome
  <2>3. server' \in [Pairs -> Result \cup {NotListed}]
    BY <1>1 DEF Poll, TypeOK
  <2> QED
    BY <2>1, <2>2, <2>3 DEF TypeOK, WellFormed
<1>2. CASE PollFails
  BY <1>2 DEF PollFails, TypeOK
<1>3. CASE EmptyAnswer
  BY <1>2, <1>3 DEF EmptyAnswer
<1>4. ASSUME NEW p \in Pairs, NEW result \in Result \cup {NotListed}, ServerMoves(p, result)
      PROVE  TypeOK'
  BY <1>4 DEF ServerMoves, TypeOK
<1>5. CASE UNCHANGED vars
  BY <1>5 DEF vars, TypeOK
<1> QED
  BY <1>1, <1>2, <1>3, <1>4, <1>5 DEF Next

\* The vector holds entries, and one at most of each pair.
THEOREM TypeCorrectness == Spec => []TypeOK
BY InitTyped, NextTyped, PTL DEF Spec

-----------------------------------------------------------------------------
(* What an answer does to what is known.                                   *)

\* What is known is what the entries say, of a pair each.
KnownIsSaid ==
  /\ \A p \in Heard : \E i \in DOMAIN last : last[i].pair = p /\ last[i].code = Known(p)
  /\ \A i \in DOMAIN last : \E p \in Heard : last[i].pair = p /\ last[i].code = Known(p)

\* It is so whenever the vector is well formed.
LEMMA Saying == TypeOK => KnownIsSaid
BY KnownIsEntry DEF KnownIsSaid, Heard

\* So it is after a step.
LEMMA SayingNext == TypeOK' => KnownIsSaid'
BY Saying, PTL

\* An answer tells of all its results, forgets nothing, and ends the monitor if
\* all that is known is final.
LEMMA PollSays ==
  ASSUME TypeOK, Poll
  PROVE  /\ Heard' = Heard \cup Listed
         /\ \A p \in Heard' : Known(p)' = Expected(p, Listed) /\ Known(p)' \in PackageCodes
         /\ verdict' = "none" <=> \E p \in Heard' : Known(p)' \notin FinalCodes
         /\ verdict' # "none" => verdict' = Outcome(last')
<1>1. Told(last', Listed) /\ TypeOK'
  BY PollTells, NextTyped DEF Next
<1>2. /\ \A p \in Heard' : \E i \in DOMAIN last' : last'[i].pair = p /\ last'[i].code = Known(p)'
      /\ \A i \in DOMAIN last' : \E p \in Heard' : last'[i].pair = p /\ last'[i].code = Known(p)'
  BY <1>1, SayingNext DEF KnownIsSaid
<1>3. \A i \in DOMAIN last' : /\ last'[i].code = Expected(last'[i].pair, Listed)
                              /\ last'[i].code \in PackageCodes
  <2>1. last' \in Seq(MonitorData)
    BY <1>1 DEF Told, WellFormed
  <2>2. \A i \in DOMAIN last' : last'[i] \in MonitorData
    BY <2>1
  <2> QED
    BY <1>1, <2>2 DEF Told, MonitorData
<1>4. \A p \in Heard' : Known(p)' = Expected(p, Listed) /\ Known(p)' \in PackageCodes
  BY <1>2, <1>3
<1>5. Heard' = Heard \cup Listed
  BY <1>1 DEF Told, PairsOf, Heard
<1>6. (\A i \in DOMAIN last' : IsFinal(last'[i].code)) <=>
        \A p \in Heard' : Known(p)' \in FinalCodes
  BY <1>2 DEF IsFinal, FinalCodes
<1>7. Outcome(last') # "none"
  BY DEF Outcome
<1> QED
  BY <1>4, <1>5, <1>6, <1>7 DEF Poll

-----------------------------------------------------------------------------
(* Safety.                                                                 *)

\* With a verdict there is nothing more that the monitor does.
LEMMA AfterVerdict == [Next]_vars /\ verdict # "none" => UNCHANGED vars
BY DEF Next, Poll, PollFails, EmptyAnswer, ServerMoves, vars

\* What is known depends on the entries only.
LEMMA SameEntries ==
  ASSUME UNCHANGED last
  PROVE  Heard' = Heard /\ \A p : Known(p)' = Known(p)
BY DEF Heard, Known, SelectInSeq

\* The answer a verdict comes with is quiet.
LEMMA QuietNext ==
  ASSUME TypeOK, VerdictOnQuietAnswer, [Next]_vars
  PROVE  VerdictOnQuietAnswer'
<1>1. CASE Poll
  <2> SUFFICES ASSUME verdict' \notin {"none", "error"}, NEW p \in Listed',
                      ~server'[p].dirty, server'[p].code \notin {NoStatus, "unknown"}
               PROVE  /\ server'[p].code \in FinalCodes /\ p \in Heard'
                      /\ Known(p)' = server'[p].code
    BY DEF VerdictOnQuietAnswer
  <2>1. server' = server /\ p \in Listed /\ p \in Heard'
    BY <1>1, PollSays DEF Poll, Listed
  <2>2. Known(p)' = Expected(p, Listed) /\ Known(p)' \in FinalCodes
    BY <1>1, <2>1, PollSays
  <2>3. Expected(p, Listed) = server[p].code
    BY <2>1 DEF Expected, CodeOf, FromResult
  <2> QED
    BY <2>1, <2>2, <2>3
<1>2. CASE UNCHANGED vars
  BY <1>2, SameEntries DEF vars, VerdictOnQuietAnswer, Listed
<1>3. CASE Next /\ ~Poll
  BY <1>3 DEF Next, PollFails, EmptyAnswer, ServerMoves, VerdictOnQuietAnswer
<1> QED
  BY <1>1, <1>2, <1>3

\* A verdict comes with an answer of which every result that tells something
\* is final and remembered.
THEOREM VerdictIsQuiet == Spec => []VerdictOnQuietAnswer
<1>1. Init => VerdictOnQuietAnswer
  BY DEF Init, VerdictOnQuietAnswer
<1> QED
  BY <1>1, QuietNext, TypeCorrectness, PTL DEF Spec

\* What a verdict takes a dirty result for was known from an earlier answer.
THEOREM DirtyResultsDecideNothing == Spec => VerdictNotFromDirty
<1>1. ASSUME TypeOK, Next, verdict' \notin {"none", "error"}, NEW p \in Listed, server[p].dirty
      PROVE  p \in Heard /\ Known(p) = Known(p)'
  <2>1. CASE Poll
    <3>1. /\ p \in Heard' /\ Known(p)' = Expected(p, Listed)
          /\ Known(p)' \in FinalCodes
      BY <1>1, <2>1, PollSays
    <3>2. CodeOf(p) = "unknown"
      BY <1>1 DEF CodeOf, FromResult
    <3>3. "unknown" \notin FinalCodes
      BY DEF FinalCodes
    <3> QED
      BY <1>1, <3>1, <3>2, <3>3 DEF Expected
  <2>2. CASE ~Poll
    BY <1>1, <2>2 DEF Next, PollFails, EmptyAnswer, ServerMoves
  <2> QED
    BY <2>1, <2>2
<1>2. TypeOK /\ [Next]_vars =>
        [verdict' \notin {"none", "error"} =>
           \A p \in Listed : server[p].dirty => p \in Heard /\ Known(p) = Known(p)']_vars
  BY <1>1
<1> QED
  BY <1>2, TypeCorrectness, PTL DEF Spec, VerdictNotFromDirty

-----------------------------------------------------------------------------
(* The monitor implements MonitorVerdict: the map of what it has heard is  *)
(* that of the entries.                                                    *)

heardMap == [p \in Heard |-> Known(p)]

\* A verdict is the one of the map.
LEMMA OutcomeIsVerdict ==
  TypeOK => Outcome(last) = Promise!VerdictOf(heardMap)
<1> SUFFICES ASSUME TypeOK
             PROVE  Outcome(last) = Promise!VerdictOf(heardMap)
  OBVIOUS
<1> DEFINE codes == {last[i].code : i \in DOMAIN last}
<1>1. codes = {Known(p) : p \in Heard}
  BY Saying DEF KnownIsSaid
<1>2. DOMAIN heardMap = Heard /\ \A p \in Heard : heardMap[p] = Known(p)
  BY DEF heardMap
<1>3. codes \subseteq {"excluded", "disabled"} <=>
        \A p \in DOMAIN heardMap : heardMap[p] \in {"disabled", "excluded"}
  BY <1>1, <1>2
<1>4. "failed" \in codes <=> \E p \in DOMAIN heardMap : heardMap[p] = "failed"
  BY <1>1, <1>2
<1> HIDE DEF codes
<1> QED
  BY <1>3, <1>4 DEF Outcome, Promise!VerdictOf, codes

\* So it is after a step.
LEMMA OutcomeIsVerdictNext ==
  TypeOK' => Outcome(last') = Promise!VerdictOf(heardMap')
<1>1. TypeOK' => (Outcome(last) = Promise!VerdictOf(heardMap))'
  BY OutcomeIsVerdict, PTL
<1> QED
  BY <1>1

\* The monitor has heard of nothing when it starts.
LEMMA InitSimulates == Init => Promise!Init
<1>1. Init => Heard = {}
  BY DEF Init, Heard
<1> QED
  BY <1>1 DEF Init, Promise!Init

\* An answer is heard.
LEMMA PollHears ==
  ASSUME TypeOK, Poll
  PROVE  Promise!Hear
<1>1. /\ Heard' = Heard \cup Listed
      /\ \A p \in Heard' : Known(p)' = Expected(p, Listed) /\ Known(p)' \in PackageCodes
      /\ verdict' = "none" <=> \E p \in Heard' : Known(p)' \notin FinalCodes
      /\ verdict' # "none" => verdict' = Outcome(last')
  BY PollSays
<1>2. /\ DOMAIN heardMap = Heard /\ \A p \in Heard : heardMap[p] = Known(p)
      /\ DOMAIN heardMap' = Heard' /\ \A p \in Heard' : heardMap'[p] = Known(p)'
      /\ heardMap' \in [Heard' -> PackageCodes]
  BY <1>1 DEF heardMap
<1>3. Heard' \in SUBSET Pairs
  <2>1. TypeOK'
    BY NextTyped DEF Next
  <2>2. \A i \in DOMAIN last' : last'[i] \in MonitorData
    BY <2>1 DEF TypeOK
  <2> QED
    BY <2>2 DEF Heard, MonitorData
<1>4. \A p \in DOMAIN heardMap : heardMap[p] # "unknown" => heardMap'[p] # "unknown"
  BY <1>1, <1>2 DEF Expected
<1>5. verdict' = IF Promise!AllFinal(heardMap') THEN Promise!VerdictOf(heardMap') ELSE "none"
  <2>1. Promise!AllFinal(heardMap') <=> verdict' # "none"
    BY <1>1, <1>2 DEF Promise!AllFinal
  <2>2. Outcome(last') = Promise!VerdictOf(heardMap')
    BY OutcomeIsVerdictNext, NextTyped DEF Next
  <2> QED
    BY <1>1, <2>1, <2>2
<1> HIDE DEF heardMap
<1>6. /\ \E P \in SUBSET Pairs : heardMap' \in [P -> PackageCodes]
      /\ DOMAIN heardMap \subseteq DOMAIN heardMap'
  BY <1>1, <1>2, <1>3
<1> QED
  BY <1>4, <1>5, <1>6 DEF Promise!Hear, Poll, heardMap

\* Every step is one of MonitorVerdict, or none.
LEMMA NextSimulates ==
  ASSUME TypeOK, [Next]_vars
  PROVE  [Promise!Next]_(Promise!vars)
<1>1. CASE Poll
  BY <1>1, PollHears DEF Promise!Next
<1>2. CASE PollFails
  <2>1. Promise!GiveUp
    BY <1>2, SameEntries DEF PollFails, Promise!GiveUp
  <2> QED
    BY <2>1 DEF Promise!Next
<1>3. CASE EmptyAnswer
  BY <1>2, <1>3 DEF EmptyAnswer
<1>4. CASE UNCHANGED <<last, verdict>>
  BY <1>4, SameEntries DEF Promise!vars
<1> QED
  BY <1>1, <1>2, <1>3, <1>4 DEF Next, ServerMoves, vars

\* The vector does what MonitorVerdict promises: one code per build, none
\* dropped or forgotten, and a verdict when all are final, and the right one.
THEOREM ImplementsTheVerdict == Spec => KeepsPromise
<1>1. TypeOK /\ [Next]_vars => [Promise!Next]_(Promise!vars)
  BY NextSimulates
<1> QED
  BY <1>1, InitSimulates, TypeCorrectness, PTL DEF Spec, KeepsPromise, Promise!Spec
=============================================================================
