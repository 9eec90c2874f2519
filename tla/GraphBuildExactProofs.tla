------------------------- MODULE GraphBuildExactProofs -------------------------
(***************************************************************************)
(* A build that reports success left exactly its sources behind, for any   *)
(* sources, restored documents, sequence of builds, failures and threads.  *)
(*                                                                         *)
(* report_readiness compares two counts with what it expects, and looks at *)
(* few documents.  That the counts say all of it rests on what came        *)
(* before: that they had a right base, that each source was seen to have a *)
(* Document and its amenities, and that since then nothing is deleted and  *)
(* only this build's own threads write.                                    *)
(***************************************************************************)
EXTENDS GraphBuildProofs

(***************************************************************************)
(* Counting.                                                               *)
(***************************************************************************)
\* When the members of F have each a part of D \ R to themselves, and D has no
\* room for more, they have all of it.
LEMMA NothingElse ==
  ASSUME NEW D, IsFiniteSet(D), NEW F, IsFiniteSet(F), NEW R, R \subseteq D,
         NEW pick \in Injection(F, D \ R),
         Cardinality(D) = Cardinality(R) + Cardinality(F)
  PROVE  \A d \in D \ R : \E f \in F : pick[f] = d
<1>1. IsFiniteSet(R) /\ IsFiniteSet(D \ R) /\ D \intersect R = R
  BY FS_Subset
<1>2. Cardinality(D \ R) = Cardinality(D) - Cardinality(R)
  BY <1>1, FS_Difference
<1>3. Cardinality(R) \in Nat /\ Cardinality(F) \in Nat
  BY <1>1, FS_CardinalityType
<1>4. Cardinality(F) = Cardinality(D \ R)
  BY <1>2, <1>3
<1>5. pick \in Surjection(F, D \ R)
  BY <1>1, <1>4, FS_Injection
<1>6. QED
  BY <1>5 DEF Surjection

\* When every member of D is the first part of one pair of H, and H has as many
\* members as D, no pair has another first part.
LEMMA NoneLeftOver ==
  ASSUME NEW D, IsFiniteSet(D), NEW H, IsFiniteSet(H), Cardinality(H) = Cardinality(D),
         \A a \in D : Cardinality({h \in H : h[1] = a}) = 1
  PROVE  \A h \in H : h[1] \in D
<1> DEFINE own == [a \in D |-> CHOOSE h \in H : h[1] = a]
<1>1. own \in [D -> H] /\ \A a \in D : own[a][1] = a
  <2> SUFFICES ASSUME NEW a \in D PROVE own[a] \in H /\ own[a][1] = a
    OBVIOUS
  <2>1. {h \in H : h[1] = a} # {}
    BY FS_EmptySet
  <2>2. QED
    BY <2>1
<1> HIDE DEF own
<1>2. own \in Injection(D, H)
  BY <1>1 DEF Injection, IsInjective
<1>3. own \in Surjection(D, H)
  BY <1>2, FS_Injection
<1>4. \A h \in H : \E a \in D : own[a] = h
  BY <1>3 DEF Surjection
<1>5. QED
  BY <1>1, <1>4

(***************************************************************************)
(* The invariant.  LateHere is the property's premise: threads that wrote  *)
(* late belong to the build that runs.                                     *)
(***************************************************************************)
LateHere == \A a \in late : a.build = build
Ours(a) == recipe[a.build] = recipe[build]
Outside == {a \in documents : a.file \notin Sources}
Offers(set) == {o[2] : o \in {p \in offers : p[1] \in set}}

\* The amenities have been compared.
Told == step = "readiness" \/ (step = "indexes" /\ phase # "setup")

\* Attempts write in their build's time, from its canary or first ingest on.
Clock ==
  /\ \A a \in Attempts : writer[a] # "none" => a.build <= build
  /\ phase = "setup" => \A a \in Attempts : writer[a] # "none" => a.build < build
  /\ \A a \in late : writer[a] # "none"

\* No additive build has a canary, or wipes.
Kinds ==
  step \in {"wipe", "inspect", "plan"} \/ phase \in {"canary", "discard"} => Mode # "additive"

\* What is there of the sources, once it is cleared, is of this build's recipe.
Fresh ==
  LateHere /\ ~Ended =>
    /\ phase # "setup" \/ step \in {"plan", "count_loaded"} =>
         \A a \in documents : a.file \in Sources => Ours(a)
    /\ phase = "setup" /\ step \in {"clear", "clear_lexical"} =>
         \A a \in documents : a.file \in Sources \ todo => Ours(a)

\* An additive build counted what is not of its sources.
Baseline ==
  LateHere /\ ~Ended /\ Mode = "additive" /\ phase # "setup" => loaded = Cardinality(Outside)

\* Some Documents of each source offer its list; no more is known, others may
\* have come since.
HasAmenities ==
  Told => \A f \in Sources : \E set \in SUBSET DocumentsOf(f) : Offers(set) = Amenities[f]

Indexed == step = "readiness" => phase # "setup" /\ MeetsContract(indexes)

SInv ==
  /\ OInv /\ IsFiniteSet(hotels)
  /\ Clock /\ Kinds /\ Fresh /\ Baseline /\ HasAmenities /\ Indexed

LEMMA BuildsCount == Builds \subseteq Nat \ {0} /\ 0 \notin Builds
  BY GraphBuildAssumption DEF Builds

LEMMA ExactInit == Init => SInv
<1> SUFFICES ASSUME Init PROVE SInv
  OBVIOUS
<1>1. OInv
  BY OneInit
<1>2. IsFiniteSet(hotels)
  <2> DEFINE first == [f \in Restored |-> <<Loaded(f), 1>>]
  <2>1. first \in Surjection(Restored, hotels)
    BY DEF Init, Surjection
  <2>2. QED
    BY <2>1, GraphBuildAssumption, FS_Surjection
<1>3. Clock
  BY DEF Init, Clock
<1>4. QED
  BY <1>1, <1>2, <1>3
     DEF Init, SInv, Kinds, Fresh, Baseline, HasAmenities, Indexed, Told, Ended, Ends

(***************************************************************************)
(* Steps.                                                                  *)
(***************************************************************************)
\* Between one start and the next a build keeps its number and its recipe, no
\* thread is forgotten, and neither the preparation nor an ended build resumes.
LEMMA Within ==
  ASSUME SInv, [Next]_vars, ~Start, ~Refuse
  PROVE  /\ UNCHANGED <<build, recipe>> /\ Mode' = Mode
         /\ late \subseteq late'
         /\ LateHere' => LateHere
         /\ phase' = "setup" => phase = "setup"
         /\ Ended => Ended' /\ phase' = phase
<1>1. UNCHANGED <<build, recipe>> /\ late \subseteq late'
  BY DEF Next, BuildStep, Wipe, Inspect, ClearEntities, ClearLexical, CountLoaded, Plan,
     StartDocument, IngestEnds, RetryNext, CheckCanary, CheckFailures, CheckDocuments,
     CheckHotels, Materialize, CheckAmenities, EnsureIndexes, Readiness, Gate, Interrupt,
     Answered, DocumentDone, DocumentFails, DocumentTimesOut, Thread, WriteLexical,
     WriteEntities, WriterEnds, WritesOn, threads, vars
<1>2. phase' = "setup" => phase = "setup"
  BY DEF Next, BuildStep, Wipe, Inspect, ClearEntities, ClearLexical, CountLoaded, Plan,
     StartDocument, IngestEnds, RetryNext, CheckCanary, CheckResumeCanary, CheckRebuildCanary,
     CheckFailures, CheckDocuments, CheckHotels, Materialize, CheckAmenities, EnsureIndexes,
     Readiness, Gate, Enter, Interrupt, Answered, DocumentDone, DocumentFails,
     DocumentTimesOut, Thread, WriteLexical, WriteEntities, WriterEnds, WritesOn, vars,
     SInv, OInv, TInv, Loops, Phases
<1>3. ASSUME Ended PROVE Ended' /\ phase' = phase
  <2>1. running = {} /\ ~BuildStep /\ ~Interrupt
    BY <1>3 DEF SInv, OInv, TInv, Loops, Ended, Ends, BuildStep, Wipe, Inspect, ClearEntities,
       ClearLexical, CountLoaded, Plan, StartDocument, IngestEnds, RetryNext, CheckCanary,
       CheckFailures, CheckDocuments, CheckHotels, Materialize, CheckAmenities, EnsureIndexes,
       Readiness, Interrupt
  <2>2. UNCHANGED <<step, phase>>
    BY <2>1 DEF Next, Answered, DocumentDone, DocumentFails, DocumentTimesOut, Thread,
       WriteLexical, WriteEntities, WriterEnds, WritesOn, vars
  <2>3. QED
    BY <1>3, <2>2 DEF Ended
<1>4. QED
  BY <1>1, <1>2, <1>3 DEF Mode, LateHere

\* Attempts start under the build that runs, after its preparation.
LEMMA ClockStep ==
  ASSUME SInv, [Next]_vars
  PROVE  Clock'
<1> USE DEF SInv, Clock
<1>1. build \in Nat /\ \A a \in Attempts : a.build \in Nat
  BY GraphBuildAssumption DEF OInv, TInv, TypeOK, Attempts, Builds
<1>2. CASE Start \/ Refuse
  <2>1. build' = build + 1 /\ UNCHANGED <<writer, late>>
    BY <1>2 DEF Start, Refuse, Starts, threads
  <2>2. \A a \in Attempts : writer[a] # "none" => a.build <= build
    OBVIOUS
  <2>3. \A a \in Attempts : writer'[a] # "none" => a.build < build'
    BY <1>1, <2>1, <2>2
  <2>4. QED
    BY <1>1, <2>1, <2>3
<1>3. CASE ~Start /\ ~Refuse
  <2>1. build' = build /\ (phase' = "setup" => phase = "setup")
    BY <1>3, Within
  <2>2. CASE \A a \in Attempts : writer'[a] # "none" <=> writer[a] # "none"
    <3>1. \A a \in late' : writer[a] # "none"
      <4>1. late' \subseteq late \union {a \in Attempts : writer[a] # "none"}
        BY <1>3 DEF Next, BuildStep, Wipe, Inspect, ClearEntities, ClearLexical, CountLoaded,
           Plan, StartDocument, IngestEnds, RetryNext, CheckCanary, CheckFailures,
           CheckDocuments, CheckHotels, Materialize, CheckAmenities, EnsureIndexes, Readiness,
           Gate, Interrupt, Answered, DocumentDone, DocumentFails, DocumentTimesOut, Thread,
           WriteLexical, WriteEntities, WriterEnds, WritesOn, threads, vars
      <4>2. QED
        BY <4>1
    <3>2. late' \subseteq Attempts
      BY TypeStep DEF OInv, TInv, TypeOK
    <3>3. QED
      BY <2>1, <2>2, <3>1, <3>2
  <2>3. CASE ~(\A a \in Attempts : writer'[a] # "none" <=> writer[a] # "none")
    <3>1. StartDocument \/ \E f \in Sources : DocumentFails(f)
      <4>1. CASE Interrupt
        BY <2>3, <4>1 DEF Interrupt, Writing, OInv, TInv, TypeOK
      <4>2. CASE \E f \in Sources : Answered(f)
        BY <2>3, <4>2 DEF Answered, DocumentDone, DocumentTimesOut, threads
      <4>3. CASE \E a \in Attempts : Thread(a)
        BY <2>3, <4>3 DEF Thread, WriteLexical, WriteEntities, WriterEnds, WritesOn, Writing,
           OInv, TInv, TypeOK
      <4>4. QED
        BY <1>3, <2>3, <4>1, <4>2, <4>3 DEF Next, BuildStep, Wipe, Inspect, ClearEntities,
           ClearLexical, CountLoaded, Plan, IngestEnds, RetryNext, CheckCanary, CheckFailures,
           CheckDocuments, CheckHotels, Materialize, CheckAmenities, EnsureIndexes, Readiness,
           Gate, threads, vars
    <3>2. PICK f \in Sources, end \in {"extracting", "ended"} :
             writer' = [writer EXCEPT ![Attempt(f)] = end]
      <4>1. First(todo) \in Sources \/ ~StartDocument
        BY FirstIsOne DEF StartDocument, OInv, TInv, TypeOK
      <4>2. QED
        BY <3>1, <4>1 DEF StartDocument, DocumentFails
    <3>3. /\ phase' = phase /\ phase \in Phases /\ late' = late
          /\ Attempt(f).build = build
      BY <3>1 DEF StartDocument, DocumentFails, OInv, TInv, Loops, Attempt
    <3>4. late \subseteq Attempts
      BY DEF OInv, TInv, TypeOK
    <3>5. \A a \in Attempts : writer'[a] # "none" => writer[a] # "none" \/ a.build = build
      BY <3>2, <3>3
    <3>6. \A a \in Attempts : writer[a] # "none" => writer'[a] # "none"
      BY <3>2 DEF OInv, TInv, TypeOK
    <3>7. phase' # "setup"
      BY <3>3 DEF Phases
    <3>8. QED
      BY <1>1, <2>1, <3>3, <3>4, <3>5, <3>6, <3>7
  <2>4. QED
    BY <2>2, <2>3
<1>4. QED
  BY <1>2, <1>3

LEMMA KindsStep ==
  ASSUME SInv, [Next]_vars
  PROVE  Kinds'
<1> USE DEF SInv, Kinds
<1>1. CASE Start \/ Refuse
  BY <1>1 DEF Start, Refuse, Starts, Enter
<1>2. CASE ~Start /\ ~Refuse
  <2>1. Mode' = Mode
    BY <1>2, Within
  <2>2. CASE UNCHANGED <<step, phase>>
    BY <2>1, <2>2
  <2>3. CASE Interrupt
    BY <2>1, <2>3 DEF Interrupt
  <2>4. CASE BuildStep
    <3>1. CASE \/ Wipe \/ Inspect \/ ClearEntities \/ ClearLexical \/ CountLoaded \/ Plan
      BY <2>1, <3>1 DEF Wipe, Inspect, ClearEntities, ClearLexical, CountLoaded, Plan, Enter,
         OInv, TInv, Loops
    <3>2. CASE StartDocument \/ IngestEnds \/ RetryNext \/ CheckCanary
      BY <2>1, <3>2 DEF StartDocument, IngestEnds, RetryNext, CheckCanary, CheckResumeCanary,
         CheckRebuildCanary, Enter, OInv, Course, TInv, Loops, Phases
    <3>3. CASE \/ CheckFailures \/ CheckDocuments \/ CheckHotels \/ Materialize
               \/ CheckAmenities \/ EnsureIndexes \/ Readiness
      BY <2>1, <3>3 DEF CheckFailures, CheckDocuments, CheckHotels, Materialize, CheckAmenities,
         EnsureIndexes, Readiness, Gate, Enter, OInv, Course
    <3>4. QED
      BY <2>4, <3>1, <3>2, <3>3 DEF BuildStep
  <2>5. QED
    BY <1>2, <2>2, <2>3, <2>4 DEF Next, Answered, DocumentDone, DocumentFails,
       DocumentTimesOut, Thread, WriteLexical, WriteEntities, WriterEnds, WritesOn, vars
<1>3. QED
  BY <1>1, <1>2

\* Only a thread adds a Document, under LateHere one of this build.
LEMMA WrittenByOurs ==
  ASSUME SInv, [Next]_vars, ~Start, ~Refuse, LateHere'
  PROVE  \A a \in documents' : a \in documents \/ (Ours(a) /\ a.file \in Sources /\ ~BuildStep)
<1>1. CASE documents' \subseteq documents
  BY <1>1
<1>2. CASE ~(documents' \subseteq documents)
  <2>1. PICK a \in Attempts : WriteLexical(a)
    BY <1>2 DEF Next, BuildStep, Wipe, Inspect, ClearEntities, ClearLexical,
       CountLoaded, Plan, StartDocument, IngestEnds, RetryNext, CheckCanary, CheckFailures,
       CheckDocuments, CheckHotels, Materialize, CheckAmenities, EnsureIndexes, Readiness,
       Gate, Interrupt, Answered, DocumentDone, DocumentFails, DocumentTimesOut, Thread,
       WriteEntities, WriterEnds, graph, vars
  <2>2. documents' = documents \union {a} /\ (Awaited(a) \/ a \in late')
    BY <2>1 DEF WriteLexical, WritesOn
  <2>3. a.build = build /\ a.file \in Sources
    BY <2>2, Within DEF Awaited, LateHere, Attempts
  <2>4. ~BuildStep
    BY <1>2 DEF BuildStep, Wipe, Inspect, ClearEntities, ClearLexical,
       CountLoaded, Plan, StartDocument, IngestEnds, RetryNext, CheckCanary, CheckFailures,
       CheckDocuments, CheckHotels, Materialize, CheckAmenities, EnsureIndexes, Readiness,
       Gate, graph
  <2>5. QED
    BY <2>2, <2>3, <2>4 DEF Ours
<1>3. QED
  BY <1>1, <1>2

\* A build clears, wipes or proves what its sources have, before it extracts.
LEMMA FreshStep ==
  ASSUME SInv, [Next]_vars
  PROVE  Fresh'
<1>1. CASE Start
  <2>1. phase' = "setup" /\ (step' = "indexes" \/ (step' = "clear" /\ todo' = Sources))
    BY <1>1 DEF Start, Enter
  <2>2. QED
    BY <2>1 DEF Fresh
<1>2. CASE Refuse
  BY <1>2 DEF Refuse, Enter, Fresh, Ended, Ends
<1>3. ASSUME ~Start, ~Refuse, LateHere', ~Ended'
      PROVE  /\ phase' # "setup" \/ step' \in {"plan", "count_loaded"} =>
                  \A a \in documents' : a.file \in Sources => Ours(a)
             /\ phase' = "setup" /\ step' \in {"clear", "clear_lexical"} =>
                  \A a \in documents' : a.file \in Sources \ todo' => Ours(a)
  <2>1. /\ LateHere /\ ~Ended
        /\ \A a \in documents' : a \in documents \/ Ours(a)
        /\ phase' = "setup" => phase = "setup"
    BY <1>3, Within, WrittenByOurs
  <2>2. /\ phase # "setup" \/ step \in {"plan", "count_loaded"} =>
             \A a \in documents' : a.file \in Sources => Ours(a)
        /\ phase = "setup" /\ step \in {"clear", "clear_lexical"} =>
             \A a \in documents' : a.file \in Sources \ todo => Ours(a)
    BY <2>1 DEF SInv, Fresh
  <2>3. CASE Wipe
    BY <2>3 DEF Wipe
  <2>4. CASE Inspect
    <3>1. /\ phase' = "setup" /\ documents' = documents
          /\ complete' = {f \in Sources : Proven(f)}
          /\ todo' = Sources \ complete'
          /\ step' = IF complete' = Sources THEN "plan" ELSE "clear"
      BY <2>4 DEF Inspect, graph, SInv, OInv, Course
    <3>2. \A a \in documents : a.file \in complete' => Ours(a)
      BY <3>1 DEF Proven, DocumentsOf, Ours
    <3>3. QED
      BY <3>1, <3>2
  <2>5. CASE ClearLexical
    <3> PICK g : g = First(todo)
      OBVIOUS
    <3>1. /\ step = "clear_lexical" /\ todo' = todo \ {g} /\ phase' = phase
          /\ \A a \in documents' : a.file # g
      BY <2>5 DEF ClearLexical, DocumentsOf
    <3>2. step' \in {"plan", "count_loaded"} => phase = "setup" /\ todo' = {}
      BY <2>5, <3>1 DEF ClearLexical, SInv, OInv, Course
    <3>3. QED
      BY <2>2, <3>1, <3>2
  <2>6. CASE CountLoaded \/ Plan
    BY <2>2, <2>6 DEF CountLoaded, Plan, Enter
  <2>7. CASE ClearEntities
    BY <2>2, <2>7 DEF ClearEntities
  <2>8. CASE ~Wipe /\ ~Inspect /\ ~ClearLexical /\ ~CountLoaded /\ ~Plan /\ ~ClearEntities
    <3>1. CASE BuildStep
      <4>1. phase # "setup" \/ step = "indexes"
        BY <1>3, <2>8, <3>1 DEF BuildStep, StartDocument, IngestEnds, RetryNext, CheckCanary,
           CheckFailures, CheckDocuments, CheckHotels, Materialize, CheckAmenities,
           EnsureIndexes, Readiness, Gate, Enter, SInv, OInv, TInv, Loops, Course, Gating,
           Phases, Ended, Ends
      <4>2. step = "indexes" => step' \notin {"plan", "count_loaded", "clear", "clear_lexical"}
                                  /\ phase' = phase
        BY <2>8, <3>1 DEF BuildStep, StartDocument, IngestEnds, RetryNext, CheckCanary,
           CheckFailures, CheckDocuments, CheckHotels, Materialize, CheckAmenities,
           EnsureIndexes, Readiness, Gate
      <4>3. step' \in {"plan", "count_loaded"} => phase # "setup"
        BY <4>1, <4>2
      <4>4. phase # "setup" => phase' # "setup"
        BY <2>1
      <4>5. QED
        BY <2>2, <4>1, <4>2, <4>4
    <3>2. CASE UNCHANGED <<step, phase, todo>>
      BY <2>2, <3>2
    <3>3. QED
      BY <1>3, <3>1, <3>2 DEF Next, Interrupt, Ended, Ends, Answered, DocumentDone,
         DocumentFails, DocumentTimesOut, Thread, WriteLexical, WriteEntities, WriterEnds,
         WritesOn, vars
  <2>9. QED
    BY <2>3, <2>4, <2>5, <2>6, <2>7, <2>8
<1>4. CASE ~Start /\ ~Refuse
  <2>1. \A a : Ours(a)' <=> Ours(a)
    BY <1>4, Within DEF Ours
  <2>2. QED
    BY <1>3, <1>4, <2>1 DEF Fresh
<1>5. QED
  BY <1>1, <1>2, <1>4

\* An additive build counts once its sources are cleared; what is not of its
\* sources then stays as it is.
LEMMA BaselineStep ==
  ASSUME SInv, [Next]_vars
  PROVE  Baseline'
<1>1. CASE Start \/ Refuse
  BY <1>1 DEF Start, Refuse, Enter, Baseline, Ended, Ends
<1>2. CASE ~Start /\ ~Refuse
  <2> SUFFICES ASSUME LateHere', ~Ended', Mode' = "additive", phase' # "setup"
               PROVE  loaded' = Cardinality(Outside')
    BY DEF Baseline
  <2>1. /\ LateHere /\ ~Ended /\ Mode = "additive"
        /\ \A a \in documents' : a \in documents \/ (a.file \in Sources /\ ~BuildStep)
    BY <1>2, Within, WrittenByOurs
  <2>2. ~Wipe /\ ~Inspect /\ ~Plan
    BY <2>1 DEF SInv, Kinds, Wipe, Inspect, Plan
  <2>3. CASE CountLoaded
    <3>1. documents' = documents /\ loaded' = Cardinality(documents)
      BY <2>3 DEF CountLoaded, CountDocuments, graph
    <3>2. \A a \in late : a.build # build
      <4>1. phase = "setup" /\ late \subseteq Attempts
        BY <2>3 DEF CountLoaded, SInv, OInv, Course, TInv, TypeOK
      <4>2. build \in Nat
        BY GraphBuildAssumption DEF SInv, OInv, TInv, TypeOK, Builds
      <4>3. \A a \in late : a.build < build
        BY <4>1 DEF SInv, Clock
      <4>4. QED
        BY <4>2, <4>3
    <3>3. late = {}
      BY <2>1, <3>2 DEF LateHere
    <3>4. documents = Outside
      BY <2>3, <3>3 DEF CountLoaded, SInv, OInv, Clears, Cleared, Counted, Outside
    <3>5. QED
      BY <3>1, <3>4 DEF Outside
  <2>4. CASE ~CountLoaded
    <3>1. phase # "setup"
      BY <1>2, <2>2, <2>4 DEF Next, BuildStep, ClearEntities, ClearLexical,
         StartDocument, IngestEnds, RetryNext, CheckCanary,
         CheckFailures, CheckDocuments, CheckHotels, Materialize, CheckAmenities, EnsureIndexes,
         Readiness, Gate, Enter, Interrupt, Answered, DocumentDone, DocumentFails,
         DocumentTimesOut, Thread, WriteLexical, WriteEntities, WriterEnds, WritesOn, vars,
         SInv, OInv, TInv, Loops, Phases, Course
    <3>2. loaded' = loaded
      BY <1>2, <2>2, <2>4 DEF Next, BuildStep, ClearEntities, ClearLexical,
         StartDocument, IngestEnds, RetryNext, CheckCanary,
         CheckFailures, CheckDocuments, CheckHotels, Materialize, CheckAmenities, EnsureIndexes,
         Readiness, Gate, Interrupt, Answered, DocumentDone, DocumentFails,
         DocumentTimesOut, Thread, WriteLexical, WriteEntities, WriterEnds, WritesOn, vars, locals
    <3>3. \A a \in documents : a.file \notin Sources => a \in documents'
      <4>1. CASE ClearLexical
        <5>1. First(todo) \in Sources
          BY <4>1, FirstIsOne DEF ClearLexical, SInv, OInv, TInv, TypeOK, Loops
        <5>2. QED
          BY <4>1, <5>1 DEF ClearLexical, DocumentsOf
      <4>2. CASE ~ClearLexical
        BY <1>2, <2>2, <2>4, <4>2 DEF Next, BuildStep, ClearEntities,
           StartDocument, IngestEnds, RetryNext, CheckCanary,
           CheckFailures, CheckDocuments, CheckHotels, Materialize, CheckAmenities,
           EnsureIndexes, Readiness, Gate, Interrupt, Answered, DocumentDone, DocumentFails,
           DocumentTimesOut, Thread, WriteLexical, WriteEntities, WriterEnds, vars, graph
      <4>3. QED
        BY <4>1, <4>2
    <3>4. Outside' = Outside
      BY <2>1, <3>3 DEF Outside
    <3>5. QED
      BY <2>1, <3>1, <3>2, <3>4 DEF SInv, Baseline
  <2>5. QED
    BY <2>3, <2>4
<1>3. QED
  BY <1>1, <1>2

\* What the check compared stays: nothing is deleted after it, and threads add
\* Documents but no offers.
LEMMA HasAmenitiesStep ==
  ASSUME SInv, [Next]_vars
  PROVE  HasAmenities'
<1> SUFFICES ASSUME Told', NEW f \in Sources
             PROVE  \E set \in SUBSET (DocumentsOf(f)') : (Offers(set) = Amenities[f])'
  BY DEF HasAmenities
<1>1. CASE CheckAmenities
  <2>1. OfferedBy(f) = Amenities[f] /\ UNCHANGED <<documents, offers>>
    BY <1>1 DEF CheckAmenities, Gate, Enter, Told, graph
  <2>2. Offers(DocumentsOf(f)) = Amenities[f]
    BY <2>1 DEF OfferedBy, Offers
  <2>3. DocumentsOf(f)' = DocumentsOf(f) /\ Offers(DocumentsOf(f))' = Offers(DocumentsOf(f))
    BY <2>1 DEF DocumentsOf, Offers
  <2>4. QED
    BY <2>2, <2>3
<1>2. CASE ~CheckAmenities
  <2>1. Told /\ documents \subseteq documents' /\ offers' = offers
    <3>1. CASE BuildStep
      <4>1. EnsureIndexes \/ Readiness
        BY <1>2, <3>1 DEF Told, BuildStep, Wipe, Inspect, ClearEntities, ClearLexical,
           CountLoaded, Plan, StartDocument, IngestEnds, RetryNext, CheckCanary,
           CheckResumeCanary, CheckRebuildCanary, CheckFailures, CheckDocuments, CheckHotels,
           Materialize, CheckAmenities, Gate, Enter, SInv, OInv, TInv, Loops, Phases
      <4>2. QED
        BY <4>1 DEF Told, EnsureIndexes, Readiness, Gate, Enter, graph
    <3>2. CASE Start \/ Refuse \/ Interrupt
      BY <3>2 DEF Told, Start, Refuse, Interrupt, Enter
    <3>3. CASE UNCHANGED vars \/ \E g \in Sources : Answered(g)
      BY <3>3 DEF Told, Answered, DocumentDone, DocumentFails, DocumentTimesOut, vars, graph
    <3>4. CASE \E a \in Attempts : Thread(a)
      BY <3>4 DEF Told, Thread, WriteLexical, WriteEntities, WriterEnds, WritesOn, graph
    <3>5. QED
      BY <3>1, <3>2, <3>3, <3>4 DEF Next
  <2>2. PICK set \in SUBSET DocumentsOf(f) : Offers(set) = Amenities[f]
    BY <2>1 DEF SInv, HasAmenities
  <2>3. set \in SUBSET (DocumentsOf(f)')
    BY <2>1 DEF DocumentsOf
  <2>4. (Offers(set) = Amenities[f])'
    BY <2>1, <2>2 DEF Offers
  <2>5. QED
    BY <2>3, <2>4
<1>3. QED
  BY <1>1, <1>2

LEMMA IndexedStep ==
  ASSUME SInv, [Next]_vars
  PROVE  Indexed'
<1> SUFFICES ASSUME step' = "readiness"
             PROVE  phase' # "setup" /\ MeetsContract(indexes)'
  BY DEF Indexed
<1>1. CASE EnsureIndexes
  BY <1>1 DEF EnsureIndexes, MeetsContract
<1>2. CASE ~EnsureIndexes
  <2>1. UNCHANGED <<step, phase, indexes>>
    BY <1>2 DEF Next, BuildStep, Wipe, Inspect, ClearEntities, ClearLexical, CountLoaded, Plan,
       StartDocument, IngestEnds, RetryNext, CheckCanary, CheckResumeCanary, CheckRebuildCanary,
       CheckFailures, CheckDocuments, CheckHotels, Materialize, CheckAmenities, Readiness, Gate,
       Enter, Start, Refuse, Interrupt, Answered, DocumentDone, DocumentFails, DocumentTimesOut,
       Thread, WriteLexical, WriteEntities, WriterEnds, WritesOn, graph, vars,
       SInv, OInv, TInv, Loops, Phases
  <2>2. QED
    BY <2>1 DEF SInv, Indexed, MeetsContract
<1>3. QED
  BY <1>1, <1>2

LEMMA HotelsFinite ==
  ASSUME SInv, [Next]_vars
  PROVE  IsFiniteSet(hotels)'
<1>1. CASE hotels' \subseteq hotels
  BY <1>1, FS_Subset DEF SInv
<1>2. CASE ~(hotels' \subseteq hotels)
  <2>1. PICK a \in Attempts : WriteEntities(a)
    BY <1>2 DEF Next, BuildStep, Start, Refuse, Wipe, Inspect, ClearEntities, ClearLexical,
       CountLoaded, Plan, StartDocument, IngestEnds, RetryNext, CheckCanary, CheckFailures,
       CheckDocuments, CheckHotels, Materialize, CheckAmenities, EnsureIndexes, Readiness,
       Gate, Interrupt, Answered, DocumentDone, DocumentFails, DocumentTimesOut, Thread,
       WriteLexical, WriterEnds, graph, vars
  <2>2. PICK n \in HotelCounts : hotels' = hotels \union {<<a, i>> : i \in 1 .. n}
    BY <2>1 DEF WriteEntities
  <2> DEFINE number == [i \in 1 .. n |-> <<a, i>>]
             new == {<<a, i>> : i \in 1 .. n}
  <2>3. number \in Surjection(1 .. n, new)
    BY DEF Surjection
  <2>4. IsFiniteSet(1 .. n)
    BY FS_Interval, GraphBuildAssumption
  <2>5. IsFiniteSet(new)
    BY <2>3, <2>4, FS_Surjection
  <2>6. QED
    BY <2>2, <2>5, FS_Union DEF SInv
<1>3. QED
  BY <1>1, <1>2

LEMMA ExactStep == SInv /\ [Next]_vars => SInv'
<1> SUFFICES ASSUME SInv, [Next]_vars PROVE SInv'
  OBVIOUS
<1>1. OInv'
  BY OneStep DEF SInv
<1>2. QED
  BY <1>1, HotelsFinite, ClockStep, KindsStep, FreshStep, BaselineStep, HasAmenitiesStep,
     IndexedStep DEF SInv

(***************************************************************************)
(* The last gate.                                                          *)
(***************************************************************************)
\* Each source has a Document, and there is no room for a second: with as many as
\* expected, and the others counted before, every one of them is a source's own.
LEMMA NoOtherDocument ==
  ASSUME SInv, step = "readiness", LateHere, CountDocuments = Expected
  PROVE  /\ \A f \in Sources : \E a \in documents : DocumentsOf(f) = {a}
         /\ Mode # "additive" => \A a \in documents : a.file \in Sources
<1> DEFINE R == IF Mode = "additive" THEN Outside ELSE {}
           pick == [f \in Sources |-> CHOOSE a \in documents : a.file = f]
<1>1. ~Ended /\ phase # "setup"
  BY DEF Ended, Ends, SInv, Indexed
<1>2. pick \in [Sources -> documents] /\ \A f \in Sources : pick[f].file = f
  <2> SUFFICES ASSUME NEW f \in Sources
               PROVE  pick[f] \in documents /\ pick[f].file = f
    OBVIOUS
  <2>1. PICK set \in SUBSET DocumentsOf(f) : Offers(set) = Amenities[f]
    BY DEF SInv, HasAmenities, Told
  <2>2. set # {}
    BY <2>1, GraphBuildAssumption DEF Offers
  <2>3. QED
    BY <2>2 DEF DocumentsOf
<1> HIDE DEF pick
<1>3. R \subseteq documents /\ \A a \in R : a.file \notin Sources
  BY DEF Outside
<1>4. pick \in Injection(Sources, documents \ R)
  BY <1>2, <1>3 DEF Injection, IsInjective
<1>5. Cardinality(documents) = Cardinality(R) + Cardinality(Sources)
  <2>1. CASE Mode = "additive"
    BY <1>1, <2>1 DEF SInv, Baseline, CountDocuments, Expected
  <2>2. CASE Mode # "additive"
    BY <2>2, FS_EmptySet, FS_CardinalityType, GraphBuildAssumption DEF CountDocuments, Expected
  <2>3. QED
    BY <2>1, <2>2
<1>6. \A a \in documents \ R : \E f \in Sources : pick[f] = a
  BY <1>3, <1>4, <1>5, NothingElse, GraphBuildAssumption DEF SInv, OInv, TInv, Loops
<1>7. ASSUME NEW f \in Sources PROVE \E a \in documents : DocumentsOf(f) = {a}
  <2>1. pick[f] \in documents /\ DocumentsOf(f) = {pick[f]}
    BY <1>2, <1>3, <1>6 DEF DocumentsOf
  <2>2. QED
    BY <2>1
<1>8. QED
  BY <1>2, <1>6, <1>7

LEMMA ReadyIsExact ==
  ASSUME SInv, step = "readiness", LateHere, Ready
  PROVE  Exact
<1> USE DEF SInv
<1>1. \A f \in Sources : \E a \in documents : DocumentsOf(f) = {a}
  BY NoOtherDocument DEF Ready
<1>2. \A h \in hotels : h[1] \in documents
  <2>1. IsFiniteSet(documents) /\ Cardinality(hotels) = Cardinality(documents)
    BY DEF Ready, OInv, TInv, Loops, CountDocuments, CountHotels
  <2>2. \A a \in documents : Cardinality({h \in hotels : h[1] = a}) = 1
    BY DEF Ready, EachItsHotel
  <2>3. QED
    BY <2>1, <2>2, NoneLeftOver
<1>3. ASSUME NEW f \in Sources
      PROVE  /\ \E a \in documents : DocumentsOf(f) = {a} /\ recipe[a.build] = recipe[build]
             /\ Cardinality(HotelsOf(f)) = 1
             /\ OfferedBy(f) = Amenities[f]
  <2>1. PICK a \in documents : DocumentsOf(f) = {a}
    BY <1>1
  <2>2. recipe[a.build] = recipe[build]
    <3>1. a.file \in Sources
      BY <2>1 DEF DocumentsOf
    <3>2. QED
      BY <3>1 DEF Fresh, Indexed, Ended, Ends, Ours
  <2>3. HotelsOf(f) = {h \in hotels : h[1] = a}
    BY <2>1 DEF HotelsOf
  <2>4. Cardinality(HotelsOf(f)) = 1
    BY <2>3 DEF Ready, EachItsHotel
  <2>5. OfferedBy(f) = Amenities[f]
    <3>1. PICK set \in SUBSET DocumentsOf(f) : Offers(set) = Amenities[f]
      BY DEF HasAmenities, Told
    <3>2. set # {}
      BY <3>1, GraphBuildAssumption DEF Offers
    <3>3. set = DocumentsOf(f)
      BY <2>1, <3>2
    <3>4. QED
      BY <3>1, <3>3 DEF Offers, OfferedBy
  <2>6. QED
    BY <2>1, <2>2, <2>4, <2>5
<1>4. MeetsContract(indexes)
  BY DEF Indexed
<1>5. QED
  BY <1>2, <1>3, <1>4 DEF Exact

\* The build succeeds only at report_readiness.
LEMMA OnlyReadiness ==
  ASSUME SInv, [Next]_vars, step # "ok", step' = "ok"
  PROVE  step = "readiness" /\ Ready /\ UNCHANGED <<graph, recipe, build>>
<1>1. Readiness
  BY DEF Next, BuildStep, Wipe, Inspect, ClearEntities, ClearLexical, CountLoaded, Plan,
     StartDocument, IngestEnds, RetryNext, CheckCanary, CheckResumeCanary, CheckRebuildCanary,
     CheckFailures, CheckDocuments, CheckHotels, Materialize, CheckAmenities, EnsureIndexes,
     Gate, Enter, Start, Refuse, Interrupt, Answered, DocumentDone, DocumentFails,
     DocumentTimesOut, Thread, WriteLexical, WriteEntities, WriterEnds, WritesOn, vars,
     SInv, OInv, TInv, Loops, Phases
<1>2. QED
  BY <1>1 DEF Readiness, Gate, Enter

\* When the last gate passes, and the only threads that wrote late are the
\* build's own, the graph has each source once, written with this build's
\* recipe, with one Hotel and exactly its amenities, no Hotel is left over, and
\* the indexes meet their contract.
THEOREM SuccessIsAlwaysExact == Spec => SuccessIsExact
<1>1. SInv /\ [Next]_vars =>
        [step # "ok" /\ step' = "ok" /\ (\A a \in late : a.build = build) => Exact']_vars
  <2> SUFFICES ASSUME SInv, [Next]_vars, step # "ok", step' = "ok",
                      \A a \in late : a.build = build
               PROVE  Exact'
    OBVIOUS
  <2>1. step = "readiness" /\ Ready /\ UNCHANGED <<graph, recipe, build>>
    BY OnlyReadiness
  <2>2. Exact
    BY <2>1, ReadyIsExact DEF LateHere
  <2>3. QED
    BY <2>1, <2>2 DEF Exact, DocumentsOf, HotelsOf, OfferedBy, MeetsContract, graph
<1>2. QED
  BY <1>1, ExactInit, ExactStep, PTL DEF Spec, SuccessIsExact
================================================================================
