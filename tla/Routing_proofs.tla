---------------------------- MODULE Routing_proofs ----------------------------
(***************************************************************************)
(* Proofs about Routing, for any number of workers, any open duties, any   *)
(* outcomes and any bound on the attempts.  First the window of detect:    *)
(* the rows of a history have places, so that the window holds the latest  *)
(* of them and no row twice.  Then what a recommendation is when nothing   *)
(* makes progress, and the invariant that counts attempts.                 *)
(***************************************************************************)
EXTENDS Routing, FiniteSums, FiniteSetTheorems, FunctionTheorems, TLAPS

(* Rows that can be told apart by the times they were stamped.             *)
Stamped(rows) ==
  /\ IsFiniteSet(rows)
  /\ \A x \in rows : x.at \in Nat
  /\ \A x, y \in rows : x.at = y.at => x = y

Before(x, rows) == {y \in rows : y.at < x.at}

(* What is stamped before a row is fewer than all of them.                 *)
LEMMA PlaceTyped ==
  ASSUME NEW rows, Stamped(rows), NEW x \in rows
  PROVE  /\ IsFiniteSet(Before(x, rows))
         /\ Place(x, rows) = Cardinality(Before(x, rows))
         /\ Place(x, rows) \in 0..(Cardinality(rows) - 1)
<1>1. Before(x, rows) \in SUBSET rows /\ x \notin Before(x, rows)
  BY DEF Before, Stamped
<1>2. /\ IsFiniteSet(Before(x, rows))
      /\ Cardinality(Before(x, rows)) <= Cardinality(rows)
      /\ Cardinality(rows) # Cardinality(Before(x, rows))
  BY <1>1, FS_Subset DEF Stamped
<1>3. Cardinality(rows) \in Nat /\ Cardinality(Before(x, rows)) \in Nat
  BY <1>2, FS_CardinalityType DEF Stamped
<1> QED
  BY <1>2, <1>3 DEF Place, Before

(* The later of two rows has the higher place,                             *)
LEMMA PlacesDiffer ==
  ASSUME NEW rows, Stamped(rows), NEW x \in rows, NEW y \in rows,
         Place(x, rows) = Place(y, rows)
  PROVE  x = y
<1>1. ASSUME NEW u \in rows, NEW v \in rows, u.at < v.at
      PROVE  Place(u, rows) # Place(v, rows)
  <2>1. Before(u, rows) \in SUBSET Before(v, rows)
    BY <1>1 DEF Before, Stamped
  <2>2. u \in Before(v, rows) /\ u \notin Before(u, rows)
    BY <1>1 DEF Before, Stamped
  <2>3. IsFiniteSet(Before(v, rows))
    BY PlaceTyped
  <2>4. Cardinality(Before(v, rows)) # Cardinality(Before(u, rows))
    BY <2>1, <2>2, <2>3, FS_Subset
  <2> QED
    BY <2>4, PlaceTyped
<1>2. x.at \in Nat /\ y.at \in Nat /\ (x.at = y.at => x = y)
  BY DEF Stamped
<1> QED
  BY <1>1, <1>2

(* so that every place is taken.                                           *)
LEMMA PlacesAreTaken ==
  ASSUME NEW rows, Stamped(rows), NEW k \in 0..(Cardinality(rows) - 1)
  PROVE  \E x \in rows : Place(x, rows) = k
<1> DEFINE f == [x \in rows |-> Place(x, rows)]
           Places == 0..(Cardinality(rows) - 1)
<1>1. Cardinality(rows) \in Nat /\ IsFiniteSet(rows)
  BY FS_CardinalityType DEF Stamped
<1>2. IsFiniteSet(Places) /\ Cardinality(Places) = Cardinality(rows)
  BY <1>1, FS_Interval
<1>3. f \in Injection(rows, Places)
  BY PlaceTyped, PlacesDiffer DEF Injection, IsInjective
<1>4. f \in Surjection(rows, Places)
  BY <1>2, <1>3, FS_Injection
<1> QED
  BY <1>4 DEF Surjection

(* The rows of one signature are stamped if those of the history are.      *)
LEMMA SignatureStamped ==
  ASSUME Stamped(history), NEW s
  PROVE  Stamped(OfSignature(s)) /\ OfSignature(s) \subseteq history
<1>1. OfSignature(s) \in SUBSET history
  BY DEF OfSignature
<1>2. IsFiniteSet(OfSignature(s))
  BY <1>1, FS_Subset DEF Stamped
<1> QED
  BY <1>1, <1>2 DEF Stamped

(* How many rows detect looks at.                                          *)
Size(s) == IF Cardinality(OfSignature(s)) > 6 THEN 6 ELSE Cardinality(OfSignature(s))

(* The window has as many rows as there are, up to six, each of them once. *)
LEMMA WindowOfLatest ==
  ASSUME Stamped(history), NEW s
  PROVE  /\ Size(s) \in Nat
         /\ Cardinality(OfSignature(s)) >= 3 => Size(s) >= 3
         /\ DOMAIN Recent(s) = 1..Size(s)
         /\ \A i \in 1..Size(s) : Recent(s)[i] \in OfSignature(s)
         /\ \A i, j \in 1..Size(s) : Recent(s)[i] = Recent(s)[j] => i = j
<1> DEFINE rows == OfSignature(s)
           n == Cardinality(rows)
           PlaceOf(i) == n - Size(s) + i - 1
<1>1. Stamped(rows) /\ n \in Nat
  BY SignatureStamped, FS_CardinalityType DEF Stamped
<1>2. Size(s) \in Nat /\ Size(s) <= n /\ (n >= 3 => Size(s) >= 3)
  BY <1>1 DEF Size
<1>3. Recent(s) = [i \in 1..Size(s) |-> CHOOSE x \in rows : Place(x, rows) = PlaceOf(i)]
  BY DEF Recent, Size
<1>4. ASSUME NEW i \in 1..Size(s)
      PROVE  Recent(s)[i] \in rows /\ Place(Recent(s)[i], rows) = PlaceOf(i)
  <2>1. PlaceOf(i) \in 0..(n - 1)
    BY <1>1, <1>2
  <2>2. \E x \in rows : Place(x, rows) = PlaceOf(i)
    BY <1>1, <2>1, PlacesAreTaken
  <2> HIDE DEF PlaceOf
  <2> QED
    BY <1>3, <2>2
<1>5. ASSUME NEW i \in 1..Size(s), NEW j \in 1..Size(s), Recent(s)[i] = Recent(s)[j]
      PROVE  i = j
  <2>1. PlaceOf(i) = PlaceOf(j)
    BY <1>4, <1>5
  <2> QED
    BY <1>1, <1>2, <2>1
<1> QED
  BY <1>2, <1>3, <1>4, <1>5

-----------------------------------------------------------------------------

(* Three attempts or more and none of them fruitful: detect notices.       *)
LEMMA NoProgressIsNoticed ==
  ASSUME Stamped(history), NEW s, Cardinality(OfSignature(s)) >= 3,
         \A x \in OfSignature(s) : ~x.success /\ x.debt >= 0
  PROVE  Detect(Recent(s)).kind # "NONE"
<1>1. /\ Size(s) \in Nat /\ Size(s) >= 3
      /\ Failures(Recent(s)) = 1..Size(s) /\ NoProgress(Recent(s)) = 1..Size(s)
  BY WindowOfLatest DEF Failures, NoProgress
<1>2. Cardinality(1..Size(s)) = Size(s)
  BY <1>1, FS_Interval
<1>3. /\ ~(Cardinality(Failures(Recent(s))) < Threshold)
      /\ Cardinality(NoProgress(Recent(s))) >= Threshold
  BY <1>1, <1>2 DEF Threshold
<1> QED
  BY <1>3 DEF Detect

(* What detect notices has three failures behind it, of rows on record.    *)
LEMMA NoticedHasFailures ==
  ASSUME Stamped(history), NEW s, Detect(Recent(s)).kind # "NONE"
  PROVE  Cardinality({x \in history : x.signature = s /\ ~x.success}) >= Threshold
<1> DEFINE failed == {x \in history : x.signature = s /\ ~x.success}
           at == Failures(Recent(s))
           f == [i \in at |-> Recent(s)[i]]
<1>1. ~(Cardinality(at) < Threshold)
  BY DEF Detect, NotDetected
<1>2. f \in Injection(at, failed)
  <2>1. at = {i \in 1..Size(s) : ~Recent(s)[i].success}
    BY WindowOfLatest DEF Failures
  <2>2. \A i \in at : Recent(s)[i] \in failed
    BY <2>1, WindowOfLatest DEF OfSignature
  <2>3. \A i, j \in at : Recent(s)[i] = Recent(s)[j] => i = j
    BY <2>1, WindowOfLatest
  <2> HIDE DEF at, failed
  <2> QED
    BY <2>2, <2>3 DEF Injection, IsInjective
<1>3. IsFiniteSet(failed)
  <2>1. failed \in SUBSET history
    OBVIOUS
  <2> QED
    BY <2>1, FS_Subset DEF Stamped
<1>4. IsFiniteSet(at) /\ Cardinality(at) <= Cardinality(failed)
  BY <1>2, <1>3, FS_Injection
<1>5. Cardinality(at) \in Nat /\ Cardinality(failed) \in Nat
  BY <1>3, <1>4, FS_CardinalityType
<1> QED
  BY <1>1, <1>4, <1>5 DEF Threshold

(* A duty whose history stagnates is recommended its fallback.             *)
LEMMA StagnantGoesToFallback ==
  ASSUME NEW d, NEW budget, HasFallback(d), d.human \in BOOLEAN,
         Detect(Recent(Signature(d))).kind # "NONE"
  PROVE  Recommend(d, budget).selected = Fallback(d)
<1> DEFINE stagnation == Detect(Recent(Signature(d)))
           scores == Scores(d, Candidates(d), stagnation, budget)
           selected == AfterStagnation(d, stagnation, Best(scores))
           confidence == Confidence(scores, selected)
<1>1. Recommend(d, budget) = Decision(d, stagnation, selected, confidence)
  BY DEF Recommend, RecommendAfter, Select
<1>2. selected = IF Severe(d) THEN "HUMAN_REVIEW"
                 ELSE IF Contains(Candidates(d), "DECOMPOSE") THEN "DECOMPOSE"
                 ELSE Best(scores)
  BY DEF AfterStagnation
<1> HIDE DEF stagnation, scores, selected, confidence
<1>3. Recommend(d, budget).selected =
        IF Doubtful(d, confidence) \/ d.human THEN "HUMAN_REVIEW" ELSE selected
  BY <1>1 DEF Decision
<1>4. Doubtful(d, confidence) => Severe(d)
  BY DEF Doubtful, Severe
<1> QED
  BY <1>2, <1>3, <1>4 DEF Fallback, HasFallback

-----------------------------------------------------------------------------

Reporting == {w \in Worker : work[w].step = "reporting"}

(* Who does what, and that no two reports have one time stamp.             *)
Types ==
  /\ duties \in Portfolios /\ clock \in Nat
  /\ work = [w \in Worker |-> work[w]]
  /\ \A w \in Worker : work[w].step \in {"idle", "trying", "reporting"}
  /\ Stamped(history)
  /\ \A x \in history : x.at < clock
  /\ \A w \in Reporting :
       /\ work[w].row.at \in Nat /\ work[w].row.at < clock
       /\ \A x \in history : x.at # work[w].row.at
       /\ \A v \in Reporting : work[v].row.at = work[w].row.at => v = w

(* What an action of one worker leaves alone.                              *)
LEMMA OthersRest ==
  ASSUME work = [v \in Worker |-> work[v]], NEW w \in Worker, NEW job,
         work' = [work EXCEPT ![w] = job]
  PROVE  /\ work' = [v \in Worker |-> work'[v]]
         /\ work'[w] = job
         /\ \A v \in Worker \ {w} : work'[v] = work[v]
  OBVIOUS

(* A worker asks: it is trying, and no report is under way for it.         *)
LEMMA AskMoves ==
  ASSUME Types, NEW w \in Worker, NEW d, NEW budget, Ask(w, d, budget)
  PROVE  /\ work' = [v \in Worker |-> work'[v]]
         /\ work'[w].step = "trying" /\ work'[w].duty = d
         /\ work'[w].decision = Recommend(d, budget)
         /\ \A v \in Worker \ {w} : work'[v] = work[v]
         /\ w \notin Trying /\ w \notin Reporting
         /\ Trying' = Trying \cup {w} /\ Reporting' = Reporting
         /\ Reported' = Reported
<1> DEFINE job == [step |-> "trying", duty |-> d, decision |-> Recommend(d, budget)]
<1>1. work' = [work EXCEPT ![w] = job] /\ work[w].step = "idle"
  BY DEF Ask, Idle
<1>2. /\ work' = [v \in Worker |-> work'[v]] /\ work'[w] = job
      /\ \A v \in Worker \ {w} : work'[v] = work[v]
  <2> HIDE DEF job
  <2> QED
    BY <1>1, OthersRest DEF Types
<1>3. job.step = "trying" /\ job.duty = d /\ job.decision = Recommend(d, budget)
  OBVIOUS
<1> HIDE DEF job
<1>4. /\ w \notin Trying /\ w \notin Reporting
      /\ Trying' = Trying \cup {w} /\ Reporting' = Reporting
  BY <1>1, <1>2, <1>3 DEF Trying, Reporting
<1>5. Reported' = Reported
  BY <1>2, <1>4 DEF Reported, Reporting
<1> QED
  BY <1>2, <1>3, <1>4, <1>5

(* A worker reports: what it tried becomes a row, stamped now.             *)
LEMMA ReportMoves ==
  ASSUME Types, NEW w \in Worker, NEW o, Report(w, o)
  PROVE  /\ work' = [v \in Worker |-> work'[v]]
         /\ work'[w].step = "reporting" /\ work'[w].row.at = clock
         /\ work'[w].row.signature = Signature(work[w].duty)
         /\ work'[w].row.strategy = work[w].decision.selected
         /\ \A v \in Worker \ {w} : work'[v] = work[v]
         /\ w \in Trying /\ w \notin Reporting
         /\ Trying' = Trying \ {w} /\ Reporting' = Reporting \cup {w}
         /\ Reported' = Reported \cup {work'[w].row}
<1> DEFINE row == [at |-> clock, signature |-> Signature(work[w].duty),
                   strategy |-> work[w].decision.selected,
                   success |-> o.success, debt |-> o.debt, cost |-> o.cost]
           job == [step |-> "reporting", row |-> row]
<1>1. work' = [work EXCEPT ![w] = job] /\ work[w].step = "trying"
  BY DEF Report
<1>2. /\ job.step = "reporting" /\ job.row.at = clock
      /\ job.row.signature = Signature(work[w].duty)
      /\ job.row.strategy = work[w].decision.selected
  OBVIOUS
<1> HIDE DEF job
<1>3. /\ work' = [v \in Worker |-> work'[v]] /\ work'[w] = job
      /\ \A v \in Worker \ {w} : work'[v] = work[v]
  BY <1>1, OthersRest DEF Types
<1>4. /\ w \in Trying /\ w \notin Reporting
      /\ Trying' = Trying \ {w} /\ Reporting' = Reporting \cup {w}
  BY <1>1, <1>2, <1>3 DEF Trying, Reporting
<1>5. Reported' = Reported \cup {work'[w].row}
  <2>1. Reported = {work[v].row : v \in Reporting}
    BY DEF Reported, Reporting
  <2>2. Reported' = {work'[v].row : v \in Reporting \cup {w}}
    BY <1>4 DEF Reported, Reporting
  <2>3. \A v \in Reporting : work'[v] = work[v]
    BY <1>3, <1>4 DEF Reporting
  <2> QED
    BY <2>1, <2>2, <2>3
<1> QED
  BY <1>2, <1>3, <1>4, <1>5

(* A report is stored: no row is lost or made up.                          *)
LEMMA RecordMoves ==
  ASSUME Types, NEW w \in Worker, RecordOutcome(w)
  PROVE  /\ work' = [v \in Worker |-> work'[v]]
         /\ work'[w].step = "idle"
         /\ \A v \in Worker \ {w} : work'[v] = work[v]
         /\ w \in Reporting /\ w \notin Trying
         /\ Trying' = Trying /\ Reporting' = Reporting \ {w}
         /\ history' = history \cup {work[w].row}
         /\ history' \cup Reported' = history \cup Reported
<1>1. /\ work' = [work EXCEPT ![w] = Idle] /\ work[w].step = "reporting"
      /\ history' = history \cup {work[w].row}
  BY DEF RecordOutcome
<1>2. Idle.step = "idle"
  BY DEF Idle
<1>3. /\ work' = [v \in Worker |-> work'[v]] /\ work'[w] = Idle
      /\ \A v \in Worker \ {w} : work'[v] = work[v]
  BY <1>1, OthersRest DEF Types
<1>4. /\ w \in Reporting /\ w \notin Trying
      /\ Trying' = Trying /\ Reporting' = Reporting \ {w}
  BY <1>1, <1>2, <1>3 DEF Trying, Reporting
<1>5. history' \cup Reported' = history \cup Reported
  <2>1. Reported = {work[v].row : v \in Reporting}
    BY DEF Reported, Reporting
  <2>2. Reported' = {work'[v].row : v \in Reporting \ {w}}
    BY <1>4 DEF Reported, Reporting
  <2>3. \A v \in Reporting \ {w} : work'[v] = work[v]
    BY <1>3 DEF Reporting
  <2> QED
    BY <1>1, <1>4, <2>1, <2>2, <2>3
<1> QED
  BY <1>1, <1>2, <1>3, <1>4, <1>5

(* The invariant of the times is one.                                      *)
LEMMA TypesHold ==
  /\ RoutingInit => Types
  /\ Types /\ [RoutingNext]_routingVars => Types'
<1>1. RoutingInit => Types
  <2> SUFFICES ASSUME RoutingInit PROVE Types
    OBVIOUS
  <2>1. work = [w \in Worker |-> work[w]] /\ \A w \in Worker : work[w].step = "idle"
    BY DEF RoutingInit, Idle
  <2>2. Stamped(history)
    BY FS_EmptySet DEF RoutingInit, Stamped
  <2> QED
    BY <2>1, <2>2 DEF RoutingInit, Types, Reporting
<1>2. ASSUME Types, NEW w \in Worker, NEW d, NEW budget, Ask(w, d, budget)
      PROVE  Types'
  <2>1. UNCHANGED <<duties, history, clock>>
    BY <1>2 DEF Ask
  <2>2. Reporting' = Reporting /\ \A v \in Reporting : work'[v] = work[v]
    BY <1>2, AskMoves DEF Reporting
  <2>3. /\ work' = [v \in Worker |-> work'[v]]
        /\ \A v \in Worker : work'[v].step \in {"idle", "trying", "reporting"}
    <3>1. /\ work' = [v \in Worker |-> work'[v]] /\ work'[w].step = "trying"
          /\ \A v \in Worker \ {w} : work'[v] = work[v]
      BY <1>2, AskMoves
    <3>2. \A v \in Worker : work[v].step \in {"idle", "trying", "reporting"}
      BY <1>2 DEF Types
    <3> QED
      BY <3>1, <3>2
  <2>4. Stamped(history')
    BY <1>2, <2>1 DEF Types, Stamped
  <2>5. \A v \in Reporting' :
          /\ work'[v].row.at \in Nat /\ work'[v].row.at < clock'
          /\ \A x \in history' : x.at # work'[v].row.at
          /\ \A u \in Reporting' : work'[u].row.at = work'[v].row.at => u = v
    BY <1>2, <2>1, <2>2 DEF Types
  <2> QED
    BY <1>2, <2>1, <2>3, <2>4, <2>5 DEF Types
<1>3. ASSUME Types, NEW w \in Worker, NEW o, Report(w, o)
      PROVE  Types'
  <2>1. UNCHANGED <<duties, history>> /\ clock' = clock + 1
    BY <1>3 DEF Report
  <2>2. \A v \in Reporting : work'[v] = work[v]
    BY <1>3, ReportMoves DEF Reporting
  <2>3. \A x \in history : x.at \in Nat /\ x.at < clock
    BY <1>3 DEF Types, Stamped
  <2>4. /\ duties' \in Portfolios /\ clock' \in Nat
        /\ work' = [v \in Worker |-> work'[v]] /\ Stamped(history')
        /\ \A v \in Worker : work'[v].step \in {"idle", "trying", "reporting"}
        /\ \A x \in history' : x.at < clock'
    <3>1. clock \in Nat /\ clock' \in Nat /\ \A x \in history : x.at < clock'
      BY <1>3, <2>1, <2>3 DEF Types
    <3>2. /\ work' = [v \in Worker |-> work'[v]]
          /\ \A v \in Worker : work'[v].step \in {"idle", "trying", "reporting"}
      BY <1>3, ReportMoves DEF Types
    <3>3. Stamped(history')
      BY <1>3, <2>1 DEF Types, Stamped
    <3> QED
      BY <1>3, <2>1, <3>1, <3>2, <3>3 DEF Types
  <2>5. ASSUME NEW v \in Reporting'
        PROVE  /\ work'[v].row.at \in Nat /\ work'[v].row.at < clock'
               /\ \A x \in history' : x.at # work'[v].row.at
               /\ \A u \in Reporting' : work'[u].row.at = work'[v].row.at => u = v
    <3>1. work'[w].row.at = clock /\ Reporting' = Reporting \cup {w}
      BY <1>3, ReportMoves
    <3>2. \A u \in Reporting :
             /\ work'[u].row.at \in Nat /\ work'[u].row.at < clock
             /\ \A x \in history : x.at # work'[u].row.at
      BY <1>3, <2>2 DEF Types
    <3>3. \A u, t \in Reporting : work'[u].row.at = work'[t].row.at => u = t
      BY <1>3, <2>2 DEF Types
    <3>4. clock \in Nat
      BY <1>3 DEF Types
    <3> QED
      BY <2>1, <2>3, <3>1, <3>2, <3>3, <3>4
  <2> QED
    BY <2>4, <2>5 DEF Types
<1>4. ASSUME Types, NEW w \in Worker, RecordOutcome(w)
      PROVE  Types'
  <2> DEFINE row == work[w].row
  <2>1. UNCHANGED <<duties, clock>> /\ history' = history \cup {row}
    BY <1>4, RecordMoves DEF RecordOutcome
  <2>2. Reporting' = Reporting \ {w} /\ w \in Reporting
    BY <1>4, RecordMoves
  <2>3. \A v \in Reporting \ {w} : work'[v] = work[v]
    BY <1>4, RecordMoves DEF Reporting
  <2>4. row.at \in Nat /\ row.at < clock /\ \A x \in history : x.at # row.at
    BY <1>4, <2>2 DEF Types
  <2>5. \A v \in Reporting \ {w} : work[v].row.at # row.at
    BY <1>4, <2>2 DEF Types
  <2> HIDE DEF row
  <2>6. IsFiniteSet(history')
    BY <1>4, <2>1, FS_AddElement DEF Types, Stamped
  <2>7. Stamped(history') /\ \A x \in history' : x.at < clock'
    BY <1>4, <2>1, <2>4, <2>6 DEF Types, Stamped
  <2>8. /\ work' = [v \in Worker |-> work'[v]]
        /\ \A v \in Worker : work'[v].step \in {"idle", "trying", "reporting"}
    BY <1>4, RecordMoves DEF Types
  <2>9. ASSUME NEW v \in Reporting'
        PROVE  /\ work'[v].row.at \in Nat /\ work'[v].row.at < clock'
               /\ \A x \in history' : x.at # work'[v].row.at
               /\ \A u \in Reporting' : work'[u].row.at = work'[v].row.at => u = v
    <3>1. v \in Reporting /\ work'[v] = work[v] /\ work[v].row.at # row.at
      BY <2>2, <2>3, <2>5
    <3>2. /\ work[v].row.at \in Nat /\ work[v].row.at < clock
          /\ \A x \in history : x.at # work[v].row.at
          /\ \A u \in Reporting : work[u].row.at = work[v].row.at => u = v
      BY <1>4, <3>1 DEF Types
    <3> QED
      BY <2>1, <2>2, <2>3, <3>1, <3>2
  <2> QED
    BY <1>4, <2>1, <2>7, <2>8, <2>9 DEF Types
<1>5. ASSUME Types, UNCHANGED routingVars PROVE Types'
  BY <1>5 DEF Types, routingVars, Stamped, Reporting
<1> QED
  BY <1>1, <1>2, <1>3, <1>4, <1>5 DEF RoutingNext

-----------------------------------------------------------------------------

(* Nothing has come of the duties of d's signature, which have somewhere to*)
(* go: where FruitlessAttemptsAreBounded says something of d.              *)
Hopeless(d) == (\A e \in Alike(d) : HasFallback(e) /\ ~e.invalid) /\ Fruitless(d)

Bounded(d) ==
  Hopeless(d) => Cardinality(Elsewhere(d)) + Cardinality(InFlight(d))
                   <= Threshold + Cardinality(Worker) - 1

(* What is counted is finite, and a worker has one row to report at most.  *)
LEMMA CountsAreFinite ==
  ASSUME Types, IsFiniteSet(Worker), NEW d
  PROVE  /\ IsFiniteSet(Reporting) /\ IsFiniteSet(Trying)
         /\ IsFiniteSet(Reported) /\ Cardinality(Reported) <= Cardinality(Reporting)
         /\ IsFiniteSet(Elsewhere(d)) /\ Cardinality(Elsewhere(d)) \in Nat
         /\ IsFiniteSet(InFlight(d)) /\ Cardinality(InFlight(d)) \in Nat
         /\ Cardinality(InFlight(d)) <= Cardinality(Trying)
<1>1. Reporting \in SUBSET Worker /\ Trying \in SUBSET Worker /\ InFlight(d) \in SUBSET Trying
  BY DEF Reporting, Trying, InFlight
<1>2. IsFiniteSet(Reporting) /\ IsFiniteSet(Trying)
  BY <1>1, FS_Subset
<1>3. IsFiniteSet(InFlight(d)) /\ Cardinality(InFlight(d)) <= Cardinality(Trying)
  BY <1>1, <1>2, FS_Subset
<1>4. IsFiniteSet(Reported) /\ Cardinality(Reported) <= Cardinality(Reporting)
  <2> DEFINE f == [w \in Reporting |-> work[w].row]
  <2>1. f \in Surjection(Reporting, Reported)
    BY DEF Surjection, Reported, Reporting
  <2> QED
    BY <1>2, <2>1, FS_Surjection
<1>5. IsFiniteSet(Elsewhere(d))
  <2>1. IsFiniteSet(history \cup Reported)
    BY <1>4, FS_Union DEF Types, Stamped
  <2>2. Elsewhere(d) \in SUBSET (history \cup Reported)
    BY DEF Elsewhere
  <2> QED
    BY <2>1, <2>2, FS_Subset
<1> QED
  BY <1>2, <1>3, <1>4, <1>5, FS_CardinalityType

(* Workers that report, workers that try and one at rest are different.    *)
LEMMA WorkersAddUp ==
  ASSUME Types, IsFiniteSet(Worker), NEW w \in Worker, w \notin Reporting, w \notin Trying
  PROVE  Cardinality(Reporting) + Cardinality(Trying) <= Cardinality(Worker) - 1
<1>1. /\ Reporting \cup Trying \in SUBSET (Worker \ {w})
      /\ Reporting \cap Trying = {}
  BY DEF Reporting, Trying
<1>2. IsFiniteSet(Reporting) /\ IsFiniteSet(Trying)
  BY CountsAreFinite
<1>3. Cardinality(Reporting \cup Trying) =
        Cardinality(Reporting) + Cardinality(Trying) - Cardinality({})
  BY <1>1, <1>2, FS_Union
<1>4. Cardinality({}) = 0 /\ Cardinality(Reporting) \in Nat /\ Cardinality(Trying) \in Nat
  BY <1>2, FS_EmptySet, FS_CardinalityType
<1>5. Cardinality(Reporting \cup Trying) <= Cardinality(Worker \ {w})
  BY <1>1, FS_RemoveElement, FS_Subset
<1>6. Cardinality(Worker \ {w}) = Cardinality(Worker) - 1
  BY FS_RemoveElement
<1> QED
  BY <1>3, <1>4, <1>5, <1>6

(* While a history has two rows at most, one more worker may try: what is  *)
(* not on record is with the others.                                       *)
LEMMA ShortHistoryIsBounded ==
  ASSUME Types, IsFiniteSet(Worker), NEW d,
         Cardinality(OfSignature(Signature(d))) <= 2,
         NEW w \in Worker, w \notin Reporting, w \notin Trying
  PROVE  Cardinality(Elsewhere(d)) + Cardinality(InFlight(d)) + 1
           <= Threshold + Cardinality(Worker) - 1
<1> DEFINE rows == OfSignature(Signature(d))
<1>1. IsFiniteSet(rows) /\ Cardinality(rows) \in Nat
  BY SignatureStamped, FS_CardinalityType DEF Types, Stamped
<1>2. /\ IsFiniteSet(rows \cup Reported)
      /\ Cardinality(rows \cup Reported) =
           Cardinality(rows) + Cardinality(Reported) - Cardinality(rows \cap Reported)
  BY <1>1, CountsAreFinite, FS_Union
<1>3. Cardinality(rows \cap Reported) \in Nat
  BY <1>1, FS_Intersection, FS_CardinalityType, CountsAreFinite
<1>4. Cardinality(Elsewhere(d)) <= Cardinality(rows \cup Reported)
  <2>1. Elsewhere(d) \in SUBSET (rows \cup Reported)
    BY DEF Elsewhere, OfSignature
  <2> QED
    BY <1>2, <2>1, FS_Subset
<1>5. /\ Cardinality(Reported) \in Nat /\ Cardinality(Reporting) \in Nat
      /\ Cardinality(Trying) \in Nat /\ Cardinality(Worker) \in Nat
      /\ Cardinality(Elsewhere(d)) \in Nat /\ Cardinality(InFlight(d)) \in Nat
      /\ Cardinality(Reported) <= Cardinality(Reporting)
      /\ Cardinality(InFlight(d)) <= Cardinality(Trying)
  BY CountsAreFinite, FS_CardinalityType
<1>6. Cardinality(Reporting) + Cardinality(Trying) <= Cardinality(Worker) - 1
  BY WorkersAddUp
<1> HIDE DEF rows
<1>7. Cardinality(rows) <= 2
  BY DEF rows
<1> QED
  BY <1>1, <1>2, <1>3, <1>4, <1>5, <1>6, <1>7 DEF Threshold

(* Rows never vanish, so a duty that is hopeless was hopeless before.      *)
LEMMA HopelessBefore ==
  ASSUME duties' = duties, NEW d, history \cup Reported \subseteq history' \cup Reported'
  PROVE  /\ Hopeless(d)' => Hopeless(d)
         /\ Alike(d)' = Alike(d) /\ Fallbacks(d)' = Fallbacks(d)
<1>1. Alike(d)' = Alike(d)
  BY DEF Alike
<1>2. Fallbacks(d)' = Fallbacks(d)
  BY <1>1 DEF Fallbacks
<1>3. Fruitless(d)' => Fruitless(d)
  BY DEF Fruitless
<1>4. (\A e \in Alike(d) : HasFallback(e) /\ ~e.invalid)'
        => \A e \in Alike(d) : HasFallback(e) /\ ~e.invalid
  BY <1>1
<1> QED
  BY <1>1, <1>2, <1>3, <1>4 DEF Hopeless

(* A worker that asks is sent elsewhere only while the history is short.   *)
LEMMA AskKeepsBound ==
  ASSUME Types, ConstantsAreRight, NEW w \in Worker, NEW e \in duties, NEW budget,
         Ask(w, e, budget), NEW d \in duties, Bounded(d)
  PROVE  Bounded(d)'
<1> SUFFICES ASSUME Hopeless(d)'
             PROVE  (Cardinality(Elsewhere(d)) + Cardinality(InFlight(d))
                       <= Threshold + Cardinality(Worker) - 1)'
  BY DEF Bounded
<1>1. UNCHANGED <<duties, history, clock>> /\ Reported' = Reported
  BY AskMoves DEF Ask
<1>2. Hopeless(d) /\ Alike(d)' = Alike(d) /\ Fallbacks(d)' = Fallbacks(d)
  BY <1>1, HopelessBefore
<1>3. Elsewhere(d)' = Elsewhere(d)
  BY <1>1, <1>2 DEF Elsewhere
<1>4. /\ w \notin InFlight(d) /\ InFlight(d) = InFlight(d)' \ {w}
  <2>1. /\ Trying' = Trying \cup {w} /\ w \notin Trying
        /\ \A v \in Worker \ {w} : work'[v] = work[v]
    BY AskMoves
  <2>2. \A v \in Trying : work'[v] = work[v]
    BY <2>1 DEF Trying
  <2> QED
    BY <1>2, <2>1, <2>2 DEF InFlight
<1>5. CASE w \in InFlight(d)'
  <2>1. /\ Signature(e) = Signature(d)
        /\ Recommend(e, budget).selected \notin Fallbacks(d)
    <3>1. work'[w].duty = e /\ work'[w].decision = Recommend(e, budget)
      BY AskMoves
    <3> QED
      BY <1>2, <1>5, <3>1 DEF InFlight
  <2>2. e \in Alike(d) /\ Fallback(e) \in Fallbacks(d)
    BY <2>1 DEF Alike, Fallbacks
  <2>3. HasFallback(e) /\ e.human \in BOOLEAN
    BY <1>2, <2>2 DEF Hopeless, ConstantsAreRight, Types, IsDuty
  <2>4. \A x \in OfSignature(Signature(e)) : ~x.success /\ x.debt >= 0
    BY <1>2, <2>1 DEF Hopeless, Fruitless, OfSignature
  <2>5. ~(Cardinality(OfSignature(Signature(e))) >= 3)
    BY <2>1, <2>2, <2>3, <2>4, NoProgressIsNoticed, StagnantGoesToFallback DEF Types
  <2>6. Cardinality(OfSignature(Signature(e))) \in Nat
    BY SignatureStamped, FS_CardinalityType DEF Types, Stamped
  <2>7. Cardinality(OfSignature(Signature(d))) <= 2
    BY <2>1, <2>5, <2>6
  <2>8. /\ IsFiniteSet(Worker) /\ IsFiniteSet(InFlight(d))
        /\ w \notin Trying /\ w \notin Reporting
    BY CountsAreFinite, AskMoves DEF ConstantsAreRight
  <2>9. Cardinality(Elsewhere(d)) + Cardinality(InFlight(d)) + 1
          <= Threshold + Cardinality(Worker) - 1
    BY <2>7, <2>8, ShortHistoryIsBounded
  <2>10. Cardinality(InFlight(d)') = Cardinality(InFlight(d)) + 1
    <3>1. InFlight(d)' = InFlight(d) \cup {w}
      BY <1>4, <1>5
    <3> QED
      BY <1>4, <2>8, <3>1, FS_AddElement
  <2>11. Cardinality(Elsewhere(d)) \in Nat /\ Cardinality(InFlight(d)) \in Nat
    BY <2>8, CountsAreFinite
  <2> QED
    BY <1>3, <2>9, <2>10, <2>11
<1>6. CASE w \notin InFlight(d)'
  <2>1. InFlight(d)' = InFlight(d)
    BY <1>4, <1>6
  <2> QED
    BY <1>2, <1>3, <2>1 DEF Bounded
<1> QED
  BY <1>5, <1>6

(* A report takes what it adds to the rows from what was under way.        *)
LEMMA ReportKeepsBound ==
  ASSUME Types, ConstantsAreRight, NEW w \in Worker, NEW o, Report(w, o),
         NEW d \in duties, Bounded(d)
  PROVE  Bounded(d)'
<1> SUFFICES ASSUME Hopeless(d)'
             PROVE  (Cardinality(Elsewhere(d)) + Cardinality(InFlight(d))
                       <= Threshold + Cardinality(Worker) - 1)'
  BY DEF Bounded
<1> DEFINE row == work'[w].row
<1>1. /\ UNCHANGED <<duties, history>> /\ Reported' = Reported \cup {row}
      /\ row.signature = Signature(work[w].duty)
      /\ row.strategy = work[w].decision.selected
      /\ w \in Trying /\ Trying' = Trying \ {w}
      /\ \A v \in Worker \ {w} : work'[v] = work[v]
  BY ReportMoves DEF Report
<1> HIDE DEF row
<1>2. Hopeless(d) /\ Alike(d)' = Alike(d) /\ Fallbacks(d)' = Fallbacks(d)
  BY <1>1, HopelessBefore
<1>3. /\ IsFiniteSet(Elsewhere(d)) /\ Cardinality(Elsewhere(d)) \in Nat
      /\ IsFiniteSet(InFlight(d)) /\ Cardinality(InFlight(d)) \in Nat
  BY CountsAreFinite DEF ConstantsAreRight
<1>4. InFlight(d)' = InFlight(d) \ {w}
  <2>1. \A v \in Trying \ {w} : work'[v] = work[v]
    BY <1>1 DEF Trying
  <2> QED
    BY <1>1, <1>2, <2>1 DEF InFlight
<1>5. Elsewhere(d)' = IF w \in InFlight(d) THEN Elsewhere(d) \cup {row} ELSE Elsewhere(d)
  <2>1. w \in InFlight(d) <=> row.signature = Signature(d) /\ row.strategy \notin Fallbacks(d)
    BY <1>1 DEF InFlight
  <2>2. history' \cup Reported' = (history \cup Reported) \cup {row}
    BY <1>1
  <2> QED
    BY <1>2, <2>1, <2>2 DEF Elsewhere
<1>6. /\ Cardinality(InFlight(d)') =
           IF w \in InFlight(d) THEN Cardinality(InFlight(d)) - 1 ELSE Cardinality(InFlight(d))
      /\ Cardinality(Elsewhere(d) \cup {row}) \in
           {Cardinality(Elsewhere(d)), Cardinality(Elsewhere(d)) + 1}
  BY <1>3, <1>4, FS_RemoveElement, FS_AddElement
<1>7. /\ Cardinality(Elsewhere(d)) + Cardinality(InFlight(d))
           <= Threshold + Cardinality(Worker) - 1
      /\ Cardinality(Worker) \in Nat
  BY <1>2, FS_CardinalityType DEF Bounded, ConstantsAreRight
<1> QED
  BY <1>3, <1>5, <1>6, <1>7 DEF Threshold

(* Storing a report changes neither count.                                 *)
LEMMA RecordKeepsBound ==
  ASSUME Types, NEW w \in Worker, RecordOutcome(w), NEW d \in duties, Bounded(d)
  PROVE  Bounded(d)'
<1>1. /\ duties' = duties /\ history' \cup Reported' = history \cup Reported
      /\ w \notin Trying /\ Trying' = Trying
      /\ \A v \in Worker \ {w} : work'[v] = work[v]
  BY RecordMoves DEF RecordOutcome
<1>2. /\ Hopeless(d)' => Hopeless(d)
      /\ Alike(d)' = Alike(d) /\ Fallbacks(d)' = Fallbacks(d)
  BY <1>1, HopelessBefore
<1>3. Elsewhere(d)' = Elsewhere(d)
  BY <1>1, <1>2 DEF Elsewhere
<1>4. InFlight(d)' = InFlight(d)
  <2>1. \A v \in Trying : work'[v] = work[v]
    BY <1>1 DEF Trying
  <2> QED
    BY <1>1, <1>2, <2>1 DEF InFlight
<1> QED
  BY <1>2, <1>3, <1>4 DEF Bounded

(* At the start nothing is counted.                                        *)
LEMMA NothingYet ==
  ASSUME RoutingInit, ConstantsAreRight, NEW d \in duties
  PROVE  Bounded(d)
<1>1. Reported = {} /\ Trying = {} /\ history = {}
  BY DEF RoutingInit, Idle, Reported, Trying
<1>2. Elsewhere(d) = {} /\ InFlight(d) = {}
  BY <1>1 DEF Elsewhere, InFlight
<1>3. Cardinality({}) = 0 /\ Cardinality(Worker) \in Nat
  BY FS_EmptySet, FS_CardinalityType DEF ConstantsAreRight
<1> QED
  BY <1>2, <1>3 DEF Bounded, Threshold

(* The attempts that a duty without progress gets outside of its fallback  *)
(* are bounded, however late and out of order their reports arrive.        *)
THEOREM FruitlessAttemptsBounded ==
  ASSUME ConstantsAreRight
  PROVE  RoutingSpec => []FruitlessAttemptsAreBounded
<1> DEFINE IInv == Types /\ \A d \in duties : Bounded(d)
<1>1. RoutingInit => IInv
  BY TypesHold, NothingYet
<1>2. IInv /\ [RoutingNext]_routingVars => IInv'
  <2> SUFFICES ASSUME IInv, [RoutingNext]_routingVars PROVE IInv'
    OBVIOUS
  <2>1. Types'
    BY TypesHold
  <2>2. ASSUME NEW w \in Worker, NEW e \in duties, NEW budget, Ask(w, e, budget)
        PROVE  \A d \in duties' : Bounded(d)'
    <3>1. duties' = duties
      BY <2>2 DEF Ask
    <3> QED
      BY <2>2, <3>1, AskKeepsBound
  <2>3. ASSUME NEW w \in Worker, NEW o, Report(w, o)
        PROVE  \A d \in duties' : Bounded(d)'
    <3>1. duties' = duties
      BY <2>3 DEF Report
    <3> QED
      BY <2>3, <3>1, ReportKeepsBound
  <2>4. ASSUME NEW w \in Worker, RecordOutcome(w)
        PROVE  \A d \in duties' : Bounded(d)'
    <3>1. duties' = duties
      BY <2>4 DEF RecordOutcome
    <3> QED
      BY <2>4, <3>1, RecordKeepsBound
  <2>5. ASSUME UNCHANGED routingVars
        PROVE  \A d \in duties' : Bounded(d)'
    BY <2>5 DEF routingVars, Bounded, Hopeless, Alike, Fruitless, Elsewhere, InFlight, Fallbacks,
                Reported, Trying
  <2> QED
    BY <2>1, <2>2, <2>3, <2>4, <2>5 DEF RoutingNext
<1>3. IInv => FruitlessAttemptsAreBounded
  BY DEF FruitlessAttemptsAreBounded, Bounded, Hopeless
<1> QED
  BY <1>1, <1>2, <1>3, PTL DEF RoutingSpec

-----------------------------------------------------------------------------

(* Only a history of three failures makes a duty escalate that is neither  *)
(* critical nor reserved for a person.                                     *)
LEMMA EscalatedForCause ==
  ASSUME Stamped(history), NEW d, NEW budget, d.human \in BOOLEAN,
         Recommend(d, budget).escalated, ~d.human, d.severity # "CRITICAL"
  PROVE  Cardinality({x \in history : x.signature = Signature(d) /\ ~x.success}) >= Threshold
<1> DEFINE stagnation == Detect(Recent(Signature(d)))
<1>1. PICK selected, confidence :
        Recommend(d, budget) = Decision(d, stagnation, selected, confidence)
  BY DEF Recommend, RecommendAfter, Select
<1> HIDE DEF stagnation
<1>2. stagnation.kind # "NONE"
  BY <1>1 DEF Decision, Doubtful
<1> QED
  BY <1>2, NoticedHasFailures DEF stagnation

(* A history that grows keeps the failures that it has.                    *)
LEMMA FailuresStay ==
  ASSUME Stamped(history), NEW row, history' = history \cup {row}, NEW s,
         Cardinality({x \in history : x.signature = s /\ ~x.success}) >= Threshold
  PROVE  Cardinality({x \in history' : x.signature = s /\ ~x.success}) >= Threshold
<1> DEFINE failed == {x \in history : x.signature = s /\ ~x.success}
           after == {x \in history' : x.signature = s /\ ~x.success}
<1>1. IsFiniteSet(after)
  <2>1. IsFiniteSet(history \cup {row})
    BY FS_AddElement DEF Stamped
  <2>2. after \in SUBSET (history \cup {row})
    OBVIOUS
  <2> QED
    BY <2>1, <2>2, FS_Subset
<1>2. failed \in SUBSET after
  OBVIOUS
<1>3. IsFiniteSet(failed) /\ Cardinality(failed) <= Cardinality(after)
  BY <1>1, <1>2, FS_Subset
<1>4. Cardinality(failed) \in Nat /\ Cardinality(after) \in Nat
  BY <1>1, <1>3, FS_CardinalityType
<1> QED
  BY <1>3, <1>4 DEF Threshold

(* No duty is escalated for the failures of another: those that make it    *)
(* stagnate are on record under its own signature, and stay there.         *)
THEOREM EscalationIsCaused ==
  ASSUME ConstantsAreRight
  PROVE  RoutingSpec => []EscalationHasCause
<1> DEFINE Failed(s) == {x \in history : x.signature = s /\ ~x.success}
           Causes(w) == LET d == work[w].duty
                        IN  work[w].decision.escalated /\ ~d.human /\ d.severity # "CRITICAL"
                              => Cardinality(Failed(Signature(d))) >= Threshold
           IInv == Types /\ EscalationHasCause
<1>1. EscalationHasCause <=> \A w \in Trying : Causes(w)
  BY DEF EscalationHasCause
<1>2. RoutingInit => IInv
  BY TypesHold DEF RoutingInit, Idle, EscalationHasCause, Trying
<1>3. IInv /\ [RoutingNext]_routingVars => IInv'
  <2> SUFFICES ASSUME IInv, [RoutingNext]_routingVars PROVE EscalationHasCause'
    BY TypesHold
  <2>1. ASSUME NEW w \in Worker, NEW d \in duties, NEW budget, Ask(w, d, budget)
        PROVE  EscalationHasCause'
    <3>1. /\ history' = history /\ Trying' = Trying \cup {w}
          /\ work'[w].duty = d /\ work'[w].decision = Recommend(d, budget)
          /\ \A v \in Worker \ {w} : work'[v] = work[v]
          /\ Trying \subseteq Worker \ {w}
      BY <2>1, AskMoves DEF Ask, Trying
    <3>2. \A v \in Trying : Causes(v)'
      BY <1>1, <3>1
    <3>3. Causes(w)'
      <4>1. d.human \in BOOLEAN /\ Stamped(history)
        BY DEF ConstantsAreRight, IsDuty, Types
      <4> QED
        BY <3>1, <4>1, EscalatedForCause
    <3> HIDE DEF Causes
    <3>4. \A v \in Trying' : Causes(v)'
      BY <3>1, <3>2, <3>3
    <3> QED
      BY <3>4 DEF EscalationHasCause, Causes
  <2>2. ASSUME NEW w \in Worker, NEW o, Report(w, o)
        PROVE  EscalationHasCause'
    <3>1. /\ history' = history /\ Trying' = Trying \ {w}
          /\ \A v \in Trying \ {w} : work'[v] = work[v]
      BY <2>2, ReportMoves DEF Report, Trying
    <3> QED
      BY <3>1 DEF EscalationHasCause
  <2>3. ASSUME NEW w \in Worker, RecordOutcome(w)
        PROVE  EscalationHasCause'
    <3>1. /\ history' = history \cup {work[w].row} /\ Trying' = Trying
          /\ \A v \in Trying : work'[v] = work[v]
      BY <2>3, RecordMoves DEF Trying
    <3>2. Stamped(history)
      BY DEF Types
    <3>3. \A s : Cardinality(Failed(s)) >= Threshold => Cardinality(Failed(s)') >= Threshold
      BY <3>1, <3>2, FailuresStay
    <3> HIDE DEF Failed
    <3>4. \A v \in Trying' : Causes(v)'
      BY <1>1, <3>1, <3>3
    <3> QED
      BY <3>4 DEF EscalationHasCause, Failed
  <2>4. ASSUME UNCHANGED routingVars PROVE EscalationHasCause'
    BY <2>4 DEF routingVars, EscalationHasCause, Trying
  <2> QED
    BY <2>1, <2>2, <2>3, <2>4, TypesHold DEF RoutingNext, Types
<1> QED
  BY <1>2, <1>3, PTL DEF RoutingSpec

-----------------------------------------------------------------------------

(* The candidates of a duty are strategies, one at least.                  *)
LEMMA CandidatesAreStrategies ==
  ASSUME NEW d, IsDuty(d)
  PROVE  Candidates(d) \in Seq(Strategies) /\ Len(Candidates(d)) # 0
<1>1. /\ {"TEST", "COUNTEREXAMPLE_SEARCH", "STATIC_ANALYSIS", "FORMAL_PROOF", "SIMULATION",
           "DOCUMENTATION_SEARCH", "DECOMPOSE", "REPAIR_IMPLEMENTATION",
           "RESOURCE_LOWERING", "HUMAN_REVIEW", "DEFER", "REJECT"} = Strategies
  BY DEF Strategies, DefaultCost
<1> DEFINE own == KindStrategies(d.kind)
<1>2. d.kind \in Kinds
  BY DEF IsDuty
<1>3. own \in Seq(Strategies)
  BY <1>1, <1>2 DEF Kinds, KindStrategies
<1>4. Len(own) \in {2, 3, 4}
  BY <1>2 DEF Kinds, KindStrategies
<1> HIDE DEF own
<1>5. Append(own, "HUMAN_REVIEW") \in Seq(Strategies) /\ <<"REJECT">> \in Seq(Strategies)
  BY <1>1, <1>3
<1>6. Len(Append(own, "HUMAN_REVIEW")) # 0 /\ Len(<<"REJECT">>) # 0
  BY <1>3, <1>4
<1> QED
  BY <1>3, <1>4, <1>5, <1>6 DEF Candidates, own

(* A prediction is a whole number of millionths, whatever the history.     *)
LEMMA PredictionIsWhole ==
  ASSUME NEW d, NEW strategy \in Strategies, NEW tried, IsFiniteSet(tried),
         NEW stagnation, NEW budget
  PROVE  Score(d, strategy, Stats(tried), stagnation, budget).predicted \in Int
<1> DEFINE stats == Stats(tried)
           posterior == Posterior(stats, strategy)
           cost == ExpectedCost(stats, strategy)
<1>1. stats.attempts \in Nat /\ stats.successes \in Nat
  <2>1. IsFiniteSet({x \in tried : x.success})
    BY FS_Subset
  <2> QED
    BY <2>1, FS_CardinalityType DEF Stats
<1>2. PriorPercent[strategy] \in Nat
  BY DEF PriorPercent, Strategies, DefaultCost
<1>3. posterior \in Int
  <2> HIDE DEF stats
  <2>1. stats.attempts + 4 \in Nat /\ stats.attempts + 4 > 0
    BY <1>1
  <2>2. stats.successes * Million + PriorPercent[strategy] * 40000 \in Int
    BY <1>1, <1>2 DEF Million
  <2> QED
    BY <2>1, <2>2 DEF Posterior
<1>4. Predicted(d, strategy, posterior, cost, stagnation, budget) \in Int
  <2> HIDE DEF posterior, cost
  <2> QED
    BY <1>3 DEF Predicted
<1> QED
  BY <1>4 DEF Score, Scored

(* So the confidence of a decision is one, and can be compared.            *)
LEMMA ConfidenceIsWhole ==
  ASSUME Stamped(history), NEW d, IsDuty(d), NEW stagnation, NEW budget, NEW selected
  PROVE  Confidence(Scores(d, Candidates(d), stagnation, budget), selected) \in Int
<1> DEFINE candidates == Candidates(d)
           scores == Scores(d, candidates, stagnation, budget)
           own == {i \in DOMAIN scores : scores[i].strategy = selected}
<1>1. \A i \in DOMAIN candidates : candidates[i] \in Strategies
  BY CandidatesAreStrategies
<1> HIDE DEF candidates
<1>2. ASSUME NEW i \in DOMAIN scores
      PROVE  scores[i].predicted \in Int
  <2> DEFINE tried == Tried(Signature(d), candidates[i])
  <2>1. i \in DOMAIN candidates
    BY <1>2 DEF Scores
  <2>2. scores[i] = Score(d, candidates[i], Stats(tried), stagnation, budget)
    BY <2>1 DEF Scores
  <2>3. IsFiniteSet(tried)
    <3>1. IsFiniteSet(OfSignature(Signature(d))) /\ tried \in SUBSET OfSignature(Signature(d))
      BY SignatureStamped DEF Stamped, Tried
    <3> QED
      BY <3>1, FS_Subset
  <2> HIDE DEF tried
  <2> QED
    BY <1>1, <2>1, <2>2, <2>3, PredictionIsWhole
<1> HIDE DEF scores
<1>3. CASE own = {}
  BY <1>3 DEF Confidence, scores, candidates
<1>4. CASE own # {}
  <2>1. (CHOOSE i \in own : TRUE) \in own
    BY <1>4
  <2>2. Confidence(scores, selected) = scores[CHOOSE i \in own : TRUE].predicted
    BY <1>4 DEF Confidence
  <2> QED
    BY <1>2, <2>1, <2>2 DEF scores, candidates
<1> QED
  BY <1>3, <1>4

(* A critical duty is left to a tool on a confidence of 0.80 at least, and *)
(* a duty that requires human authority never is.                          *)
THEOREM CriticalDutiesAreGuarded ==
  ASSUME ConstantsAreRight
  PROVE  RoutingSpec => []ToolsAreTrusted
<1> DEFINE Trusted(d, decision) ==
             decision.selected # "HUMAN_REVIEW" =>
               /\ ~d.human
               /\ d.severity = "CRITICAL" => decision.confidence >= 800000
           IInv == Types /\ ToolsAreTrusted
<1>1. ToolsAreTrusted <=> \A w \in Trying : Trusted(work[w].duty, work[w].decision)
  BY DEF ToolsAreTrusted
<1>2. RoutingInit => IInv
  BY TypesHold DEF RoutingInit, Idle, ToolsAreTrusted, Trying
<1>3. ASSUME Types, NEW d \in duties, NEW budget
      PROVE  Trusted(d, Recommend(d, budget))
  <2> DEFINE stagnation == Detect(Recent(Signature(d)))
             scores == Scores(d, Candidates(d), stagnation, budget)
             selected == AfterStagnation(d, stagnation, Best(scores))
             confidence == Confidence(scores, selected)
  <2>1. IsDuty(d) /\ Stamped(history)
    BY <1>3 DEF Types, ConstantsAreRight
  <2>2. confidence \in Int
    BY <2>1, ConfidenceIsWhole
  <2>3. Recommend(d, budget) = Decision(d, stagnation, selected, confidence)
    BY DEF Recommend, RecommendAfter, Select
  <2> HIDE DEF stagnation, scores, selected, confidence
  <2> QED
    BY <2>1, <2>2, <2>3 DEF Decision, Doubtful, IsDuty
<1>4. IInv /\ [RoutingNext]_routingVars => IInv'
  <2> SUFFICES ASSUME IInv, [RoutingNext]_routingVars PROVE ToolsAreTrusted'
    BY TypesHold
  <2>1. ASSUME NEW w \in Worker, NEW d \in duties, NEW budget, Ask(w, d, budget)
        PROVE  ToolsAreTrusted'
    <3>1. /\ Trying' = Trying \cup {w} /\ \A v \in Trying : work'[v] = work[v]
          /\ work'[w].duty = d /\ work'[w].decision = Recommend(d, budget)
      BY <2>1, AskMoves DEF Trying
    <3>2. Trusted(d, Recommend(d, budget))
      BY <1>3
    <3> HIDE DEF Trusted
    <3>3. \A v \in Trying' : Trusted(work'[v].duty, work'[v].decision)
      BY <1>1, <3>1, <3>2
    <3> QED
      BY <3>3 DEF Trusted, ToolsAreTrusted
  <2>2. ASSUME NEW w \in Worker, NEW o, Report(w, o)
        PROVE  ToolsAreTrusted'
    <3>1. /\ Trying' = Trying \ {w} /\ \A v \in Trying \ {w} : work'[v] = work[v]
      BY <2>2, ReportMoves DEF Trying
    <3> QED
      BY <3>1 DEF ToolsAreTrusted
  <2>3. ASSUME NEW w \in Worker, RecordOutcome(w)
        PROVE  ToolsAreTrusted'
    <3>1. Trying' = Trying /\ \A v \in Trying : work'[v] = work[v]
      BY <2>3, RecordMoves DEF Trying
    <3> QED
      BY <3>1 DEF ToolsAreTrusted
  <2>4. ASSUME UNCHANGED routingVars PROVE ToolsAreTrusted'
    BY <2>4 DEF routingVars, ToolsAreTrusted, Trying
  <2> QED
    BY <2>1, <2>2, <2>3, <2>4 DEF RoutingNext
<1> QED
  BY <1>2, <1>4, PTL DEF RoutingSpec

-----------------------------------------------------------------------------

(* What is known of the rows that are kept, of the strategies that are     *)
(* tried and of the number of attempts.                                    *)
Whole(rows) == \A x \in rows : x.strategy \in Strategies /\ x.cost \in Int /\ x.debt \in Int

Sound ==
  /\ Whole(history \cup Reported)
  /\ \A w \in Trying : work[w].decision.selected \in Strategies
  /\ clock + Cardinality(Trying) <= MaxAttempts

(* The costs on record add up to a whole number, of nothing to 0,          *)
LEMMA CostIsWhole ==
  ASSUME NEW tried, IsFiniteSet(tried), Whole(tried)
  PROVE  Stats(tried).cost \in Int /\ (tried = {} => Stats(tried).cost = 0)
<1> DEFINE f == [x \in tried |-> x.cost]
           iter == CHOOSE h : h = [s \in SUBSET tried |->
                     IF s = {} THEN 0
                     ELSE LET x == CHOOSE x \in s : TRUE IN x.cost + h[s \ {x}]]
<1>1. Stats(tried).cost = iter[tried]
  BY DEF Stats, MapThenSumSet, MapThenFoldSet
<1>2. \A x \in tried : f[x] \in Int
  BY DEF Whole
<1>3. PICK g \in [SUBSET tried -> Int] : Adds(g, f, tried)
  BY <1>2, AddsExists
<1>4. \A s \in SUBSET tried : s # {} => f[Pick(s)] = Pick(s).cost
  BY DEF Pick
<1>5. g = [s \in SUBSET tried |->
             IF s = {} THEN 0 ELSE LET x == CHOOSE x \in s : TRUE IN x.cost + g[s \ {x}]]
  BY <1>3, <1>4 DEF Adds, Pick
<1>6. iter = [s \in SUBSET tried |->
                IF s = {} THEN 0
                ELSE LET x == CHOOSE x \in s : TRUE IN x.cost + iter[s \ {x}]]
  BY <1>5
<1> HIDE DEF iter
<1>7. Adds(iter, f, tried)
  BY <1>4, <1>6 DEF Adds, Pick
<1>8. Stats(tried).cost = Total(f, tried)
  BY <1>1, <1>7, TotalIs
<1> HIDE DEF f
<1>9. Total(f, tried) \in Int
  BY <1>2, TotalTyped
<1>10. tried = {} => Total(f, tried) = 0
  BY TotalOfNone
<1> QED
  BY <1>8, <1>9, <1>10

(* and so do the changes of debt.                                          *)
LEMMA DebtIsWhole ==
  ASSUME NEW tried, IsFiniteSet(tried), Whole(tried)
  PROVE  Stats(tried).debt \in Int
<1> DEFINE f == [x \in tried |-> x.debt]
           iter == CHOOSE h : h = [s \in SUBSET tried |->
                     IF s = {} THEN 0
                     ELSE LET x == CHOOSE x \in s : TRUE IN x.debt + h[s \ {x}]]
<1>1. Stats(tried).debt = iter[tried]
  BY DEF Stats, MapThenSumSet, MapThenFoldSet
<1>2. \A x \in tried : f[x] \in Int
  BY DEF Whole
<1>3. PICK g \in [SUBSET tried -> Int] : Adds(g, f, tried)
  BY <1>2, AddsExists
<1>4. \A s \in SUBSET tried : s # {} => f[Pick(s)] = Pick(s).debt
  BY DEF Pick
<1>5. g = [s \in SUBSET tried |->
             IF s = {} THEN 0 ELSE LET x == CHOOSE x \in s : TRUE IN x.debt + g[s \ {x}]]
  BY <1>3, <1>4 DEF Adds, Pick
<1>6. iter = [s \in SUBSET tried |->
                IF s = {} THEN 0
                ELSE LET x == CHOOSE x \in s : TRUE IN x.debt + iter[s \ {x}]]
  BY <1>5
<1> HIDE DEF iter
<1>7. Adds(iter, f, tried)
  BY <1>4, <1>6 DEF Adds, Pick
<1>8. Stats(tried).debt = Total(f, tried)
  BY <1>1, <1>7, TotalIs
<1> HIDE DEF f
<1> QED
  BY <1>2, <1>8, TotalTyped

(* A utility is a whole number: no mean is taken of no attempts.           *)
LEMMA UtilityIsWhole ==
  ASSUME NEW d, IsDuty(d), NEW strategy \in Strategies, NEW tried, IsFiniteSet(tried),
         Whole(tried), NEW stagnation, NEW budget
  PROVE  Score(d, strategy, Stats(tried), stagnation, budget).utility \in Int
<1> DEFINE stats == Stats(tried)
           posterior == Posterior(stats, strategy)
           cost == ExpectedCost(stats, strategy)
           predicted == Predicted(d, strategy, posterior, cost, stagnation, budget)
           reduction == DebtReduction(d, stats, posterior)
           weight == QuarterWeight[d.severity]
<1>1. /\ stats.attempts \in Nat /\ (stats.attempts = 0 => tried = {})
      /\ stats.successes \in Nat
  <2>1. IsFiniteSet({x \in tried : x.success})
    BY FS_Subset
  <2>2. Cardinality(tried) = 0 => tried = {}
    BY FS_EmptySet
  <2> QED
    BY <2>1, <2>2, FS_CardinalityType DEF Stats
<1>2. stats.cost \in Int /\ stats.debt \in Int /\ (tried = {} => stats.cost = 0)
  BY CostIsWhole, DebtIsWhole
<1>3. Score(d, strategy, stats, stagnation, budget).utility =
        Utility(d, predicted, reduction, cost)
  BY DEF Score, Scored
<1>4. predicted \in Int
  BY PredictionIsWhole DEF Score, Scored
<1> HIDE DEF stats
<1>5. weight \in Int
  BY DEF IsDuty, QuarterWeight
<1>6. cost \in Int
  <2>1. DefaultCost[strategy] \in Int
    BY DEF DefaultCost, Strategies
  <2>2. CASE stats.cost = 0
    BY <2>1, <2>2 DEF ExpectedCost, Million
  <2>3. CASE stats.cost # 0
    <3>1. stats.attempts > 0 /\ stats.cost * Million \in Int
      BY <1>1, <1>2, <2>3 DEF Million
    <3> QED
      BY <1>1, <2>3, <3>1 DEF ExpectedCost
  <2> QED
    BY <2>2, <2>3
<1>7. posterior \in Int
  <2>1. PriorPercent[strategy] \in Nat
    BY DEF PriorPercent, Strategies, DefaultCost
  <2>2. stats.attempts + 4 \in Nat /\ stats.attempts + 4 > 0
    BY <1>1
  <2>3. stats.successes * Million + PriorPercent[strategy] * 40000 \in Int
    BY <1>1, <2>1 DEF Million
  <2> QED
    BY <2>2, <2>3 DEF Posterior
<1> HIDE DEF posterior, cost, predicted, weight
<1>8. reduction \in Int
  <2>1. weight * posterior \in Int
    BY <1>5, <1>7
  <2>2. ((weight * posterior) \div 20) * 7 \in Int
    BY <2>1
  <2>3. (-stats.debt) * 4 * Million \in Int
    BY <1>2 DEF Million
  <2>4. stats.attempts # 0 => ((-stats.debt) * 4 * Million) \div stats.attempts \in Int
    BY <1>1, <2>3
  <2> QED
    BY <2>2, <2>4 DEF DebtReduction, weight
<1> HIDE DEF reduction
<1>9. Utility(d, predicted, reduction, cost) \in Int
  <2>1. predicted * weight * 4 \in Int /\ (Million - predicted) * weight \in Int
    BY <1>4, <1>5 DEF Million
  <2>2. (((Million - predicted) * weight) * 5) \div 2 \in Int
    BY <2>1
  <2>3. (cost * 8) \div 25 \in Int
    BY <1>6
  <2> QED
    BY <1>8, <2>1, <2>2, <2>3 DEF Utility, weight
<1> QED
  BY <1>3, <1>9 DEF stats

(* One of the scores is the best: the order of the sort is total.          *)
LEMMA BestIsScored ==
  ASSUME NEW n \in Nat \ {0}, NEW scores, DOMAIN scores = 1..n,
         \A i \in 1..n : scores[i].utility \in Int /\ scores[i].predicted \in Int
  PROVE  \E i \in 1..n : Best(scores) = scores[i].strategy
<1> DEFINE D == 1..n
           u == [i \in D |-> scores[i].utility]
           p == [i \in D |-> scores[i].predicted]
           Over(i, j) == u[i] > u[j] \/ (u[i] = u[j] /\ p[i] > p[j])
           Ahead(i, j) == Over(i, j) \/ (u[i] = u[j] /\ p[i] = p[j] /\ i < j)
           R == {x \in D \X D : Ahead(x[2], x[1])}
<1>1. \A i, j \in D : Above(scores[i], scores[j]) <=> Over(i, j)
  BY DEF Above
<1>2. \A i \in D : i \in Int /\ u[i] \in Int /\ p[i] \in Int
  OBVIOUS
<1> HIDE DEF u, p
<1>3. \A i, j \in D : i = j \/ Ahead(i, j) \/ Ahead(j, i)
  BY <1>2
<1>4. \A i, j, k \in D : Ahead(j, i) /\ Ahead(k, j) => Ahead(k, i)
  BY <1>2
<1>5. \A i, j \in D : Ahead(i, j) => ~Over(j, i) /\ (j < i => Over(i, j))
  BY <1>2
<1>6. \A i \in D : ~Over(i, i) /\ ~(i < i)
  BY <1>2
<1> HIDE DEF Ahead, Over
<1>7. \A i, j \in D : <<i, j>> \in R <=> Ahead(j, i)
  OBVIOUS
<1> HIDE DEF R
<1>8. IsFiniteSet(D) /\ D # {}
  <2>1. 1 \in D
    OBVIOUS
  <2>2. IsFiniteSet(D)
    BY FS_Interval
  <2> QED
    BY <2>1, <2>2
<1> HIDE DEF D
<1>9. PICK m \in D : \A i \in D : i = m \/ <<i, m>> \in R
  BY <1>3, <1>4, <1>7, <1>8, FiniteHasTop
<1> DEFINE Fits(i) == \A j \in D : ~Over(j, i) /\ (j < i => Over(i, j))
<1>10. Fits(m)
  BY <1>5, <1>6, <1>7, <1>9
<1>11. DOMAIN scores = D
  BY DEF D
<1>12. Best(scores) = scores[CHOOSE i \in D : \A j \in D :
                               ~Above(scores[j], scores[i])
                               /\ (j < i => Above(scores[i], scores[j]))].strategy
  BY <1>11 DEF Best
<1>13. \E i \in D : \A j \in D : ~Above(scores[j], scores[i])
                                 /\ (j < i => Above(scores[i], scores[j]))
  BY <1>1, <1>10
<1> QED
  BY <1>12, <1>13 DEF D

(* So what is recommended is a strategy.                                   *)
LEMMA RecommendsStrategy ==
  ASSUME Stamped(history), Whole(history), NEW d, IsDuty(d), NEW budget
  PROVE  Recommend(d, budget).selected \in Strategies
<1> DEFINE candidates == Candidates(d)
           stagnation == Detect(Recent(Signature(d)))
           scores == Scores(d, candidates, stagnation, budget)
           selected == AfterStagnation(d, stagnation, Best(scores))
           confidence == Confidence(scores, selected)
<1>1. candidates \in Seq(Strategies)
  BY CandidatesAreStrategies
<1>2. Len(candidates) # 0
  BY CandidatesAreStrategies
<1> HIDE DEF candidates, stagnation
<1>3. DOMAIN scores = 1..Len(candidates) /\ Len(candidates) \in Nat \ {0}
  BY <1>1, <1>2 DEF Scores
<1>4. ASSUME NEW i \in 1..Len(candidates)
      PROVE  /\ scores[i].utility \in Int /\ scores[i].predicted \in Int
             /\ scores[i].strategy \in Strategies
  <2> DEFINE tried == Tried(Signature(d), candidates[i])
  <2>1. candidates[i] \in Strategies
    BY <1>1
  <2>2. scores[i] = Score(d, candidates[i], Stats(tried), stagnation, budget)
    BY <1>1 DEF Scores
  <2>3. tried \in SUBSET history
    BY DEF Tried, OfSignature
  <2>4. IsFiniteSet(tried) /\ Whole(tried)
    BY <2>3, FS_Subset DEF Stamped, Whole
  <2> HIDE DEF tried, scores
  <2>5. scores[i].strategy = candidates[i]
    BY <2>2 DEF Score, Scored
  <2> QED
    BY <2>1, <2>2, <2>4, <2>5, PredictionIsWhole, UtilityIsWhole
<1> HIDE DEF scores
<1>5. Best(scores) \in Strategies
  BY <1>3, <1>4, BestIsScored
<1>6. "HUMAN_REVIEW" \in Strategies /\ "DECOMPOSE" \in Strategies
  BY DEF Strategies, DefaultCost
<1>7. selected \in Strategies
  BY <1>5, <1>6 DEF AfterStagnation
<1>8. Recommend(d, budget) = Decision(d, stagnation, selected, confidence)
  BY DEF Recommend, RecommendAfter, Select, scores, stagnation, candidates
<1> HIDE DEF selected, confidence
<1> QED
  BY <1>6, <1>7, <1>8 DEF Decision

(* The rows stay whole, the strategies known and the attempts bounded.     *)
LEMMA SoundHolds ==
  ASSUME ConstantsAreRight
  PROVE  /\ RoutingInit => Sound
         /\ Types /\ Sound /\ [RoutingNext]_routingVars => Sound'
<1>0. Types => IsFiniteSet(Trying) /\ Cardinality(Trying) \in Nat /\ clock \in Nat
  BY CountsAreFinite, FS_CardinalityType DEF ConstantsAreRight, Types
<1>1. RoutingInit => Sound
  <2> SUFFICES ASSUME RoutingInit PROVE Sound
    OBVIOUS
  <2>1. Trying = {} /\ Reported = {} /\ history = {} /\ clock = 0
    BY DEF RoutingInit, Idle, Trying, Reported
  <2> QED
    BY <2>1, FS_EmptySet DEF Sound, Whole, ConstantsAreRight
<1>2. ASSUME Types, Sound, NEW w \in Worker, NEW d \in duties, NEW budget, Ask(w, d, budget)
      PROVE  Sound'
  <2>1. /\ history' = history /\ clock' = clock /\ Reported' = Reported
        /\ Trying' = Trying \cup {w} /\ w \notin Trying
        /\ work'[w].decision = Recommend(d, budget)
        /\ \A v \in Trying : work'[v] = work[v]
    BY <1>2, AskMoves DEF Ask, Trying
  <2>2. Recommend(d, budget).selected \in Strategies
    <3>1. IsDuty(d) /\ Stamped(history) /\ Whole(history)
      BY <1>2 DEF Types, Sound, Whole, ConstantsAreRight
    <3> QED
      BY <3>1, RecommendsStrategy
  <2>3. clock' + Cardinality(Trying') <= MaxAttempts
    <3>1. clock + Cardinality(Trying) < MaxAttempts
      BY <1>2 DEF Ask, Started, Trying
    <3>2. Cardinality(Trying \cup {w}) = Cardinality(Trying) + 1
      BY <1>0, <1>2, <2>1, FS_AddElement
    <3> QED
      BY <1>0, <1>2, <2>1, <3>1, <3>2 DEF ConstantsAreRight
  <2>4. \A v \in Trying' : work'[v].decision.selected \in Strategies
    BY <1>2, <2>1, <2>2 DEF Sound
  <2>5. Whole(history' \cup Reported')
    BY <1>2, <2>1 DEF Sound
  <2> QED
    BY <2>3, <2>4, <2>5 DEF Sound, Whole
<1>3. ASSUME Types, Sound, NEW w \in Worker, NEW o \in Outcomes, Report(w, o)
      PROVE  Sound'
  <2>1. /\ history' = history /\ clock' = clock + 1
        /\ Trying' = Trying \ {w} /\ w \in Trying
        /\ Reported' = Reported \cup {work'[w].row}
        /\ work'[w].row.strategy = work[w].decision.selected
        /\ \A v \in Trying \ {w} : work'[v] = work[v]
    BY <1>3, ReportMoves DEF Report, Trying
  <2>2. work'[w].row.cost = o.cost /\ work'[w].row.debt = o.debt
    <3> DEFINE row == [at |-> clock, signature |-> Signature(work[w].duty),
                       strategy |-> work[w].decision.selected,
                       success |-> o.success, debt |-> o.debt, cost |-> o.cost]
               job == [step |-> "reporting", row |-> row]
    <3>1. work' = [work EXCEPT ![w] = job] /\ job.row.cost = o.cost /\ job.row.debt = o.debt
      BY <1>3 DEF Report
    <3> HIDE DEF job
    <3> QED
      BY <1>3, <3>1, OthersRest DEF Types
  <2>3. Whole(history' \cup Reported')
    BY <1>3, <2>1, <2>2 DEF Sound, Whole, ConstantsAreRight
  <2>4. \A v \in Trying' : work'[v].decision.selected \in Strategies
    BY <1>3, <2>1 DEF Sound
  <2>5. clock' + Cardinality(Trying') <= MaxAttempts
    <3>1. Cardinality(Trying \ {w}) = Cardinality(Trying) - 1
      BY <1>0, <1>3, <2>1, FS_RemoveElement
    <3> QED
      BY <1>0, <1>3, <2>1, <3>1 DEF Sound, ConstantsAreRight
  <2> QED
    BY <2>3, <2>4, <2>5 DEF Sound, Whole
<1>4. ASSUME Types, Sound, NEW w \in Worker, RecordOutcome(w)
      PROVE  Sound'
  <2>1. /\ clock' = clock /\ Trying' = Trying
        /\ history' \cup Reported' = history \cup Reported
        /\ \A v \in Trying : work'[v] = work[v]
    BY <1>4, RecordMoves DEF RecordOutcome, Trying
  <2> QED
    BY <1>4, <2>1 DEF Sound, Whole
<1>5. ASSUME Sound, UNCHANGED routingVars PROVE Sound'
  BY <1>5 DEF Sound, Whole, routingVars, Trying, Reported
<1> QED
  BY <1>1, <1>2, <1>3, <1>4, <1>5 DEF RoutingNext, Types

(* What is recommended is always one of the strategies, whatever has been  *)
(* reported: the scores are whole numbers, of which one is the best.  No   *)
(* two rows have one time stamp, so that "the latest rows" means something.*)
THEOREM RoutingTypeCorrect ==
  ASSUME ConstantsAreRight
  PROVE  RoutingSpec => []RoutingTypeOK
<1> DEFINE IInv == Types /\ Sound
<1>1. RoutingInit => IInv
  BY TypesHold, SoundHolds
<1>2. IInv /\ [RoutingNext]_routingVars => IInv'
  BY TypesHold, SoundHolds
<1>3. IInv => RoutingTypeOK
  <2> SUFFICES ASSUME Types, Sound PROVE RoutingTypeOK
    OBVIOUS
  <2>1. Cardinality(Trying) \in Nat /\ clock \in Nat
    BY CountsAreFinite, FS_CardinalityType DEF ConstantsAreRight, Types
  <2>2. clock \in 0..MaxAttempts
    BY <2>1 DEF Sound, ConstantsAreRight
  <2>3. \A x \in history : x.at \in 0..clock - 1 /\ x.strategy \in Strategies
    BY <2>1 DEF Types, Stamped, Sound, Whole
  <2>4. \A x, y \in history : x.at = y.at => x = y
    BY DEF Types, Stamped
  <2> QED
    BY <2>2, <2>3, <2>4 DEF RoutingTypeOK, Types, Sound
<1> QED
  BY <1>1, <1>2, <1>3, PTL DEF RoutingSpec

(* A worker is sent to a person only for a cause on record, and to a tool  *)
(* only where one can be trusted, always with a strategy that is known.    *)
THEOREM HandoversStayDue ==
  ASSUME ConstantsAreRight
  PROVE  RoutingSpec => []HandoversAreDue
<1>1. RoutingTypeOK /\ ToolsAreTrusted /\ EscalationHasCause => HandoversAreDue
  BY DEF HandoversAreDue
<1> QED
  BY <1>1, RoutingTypeCorrect, CriticalDutiesAreGuarded, EscalationIsCaused, PTL

=============================================================================
