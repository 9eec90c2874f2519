--------------------------- MODULE GraphBuildProofs ---------------------------
(***************************************************************************)
(* Proofs about the graph builds for any sources, restored documents,      *)
(* sequences of builds, failures and threads left behind: type correctness *)
(* and that additive builds never touch what the dump restored.            *)
(***************************************************************************)
EXTENDS GraphBuild, FiniteSetTheorems, TLAPS

LEMMA FirstIsOne == ASSUME NEW S, S # {} PROVE First(S) \in S
  BY DEF First

(***************************************************************************)
(* Type correctness, with what it needs: loops that take a file have one,  *)
(* a build that runs is one of the sequence, and Documents are finite.     *)
(***************************************************************************)
Loops ==
  /\ step \in {"clear", "clear_lexical", "materialize"} => todo # {}
  /\ ~Ended => build \in Builds
  /\ running # {} => step = "ingest"
  /\ step = "ingest" => phase \in Phases
  /\ step = "retry_next" => phase = "retry"
  /\ step = "wipe" => phase \in {"setup", "canary", "discard"}
  /\ IsFiniteSet(documents)

TInv == TypeOK /\ Loops

LEMMA TypeInit == Init => TInv
<1> SUFFICES ASSUME Init PROVE TInv
  OBVIOUS
<1>1. IsFiniteSet(documents)
  <2> DEFINE load == [f \in Restored |-> Loaded(f)]
  <2>1. documents = {Loaded(f) : f \in Restored}
    BY DEF Init
  <2>2. load \in Surjection(Restored, documents)
    BY <2>1 DEF Surjection
  <2>3. QED
    BY <2>2, GraphBuildAssumption, FS_Surjection
<1>2. \A f \in Restored : Loaded(f) \in Written
  BY DEF Written
<1>3. hotels \subseteq Written \X Nat
  BY <1>2 DEF Init
<1>4. \A o \in offers : o[1] \in Written
  BY <1>2 DEF Init
<1>5. QED
  BY <1>1, <1>2, <1>3, <1>4, GraphBuildAssumption
     DEF Init, TInv, TypeOK, Loops, Ended, Ends, Steps, Phases

\* A thread writes only its own attempt's nodes.
LEMMA ThreadType ==
  ASSUME TInv, NEW a \in Attempts, Thread(a)
  PROVE  TInv'
<1> USE DEF TInv, Ends
<1>1. CASE WriteLexical(a)
  <2>1. documents' \subseteq Written /\ IsFiniteSet(documents')
    BY <1>1, FS_AddElement DEF WriteLexical, TypeOK, Loops, Written
  <2>2. QED
    BY <1>1, <2>1 DEF WriteLexical, WritesOn, TypeOK, Loops, Ended, locals
<1>2. CASE WriteEntities(a)
  <2>1. PICK n \in HotelCounts : hotels' = hotels \union {<<a, i>> : i \in 1 .. n}
    BY <1>2 DEF WriteEntities
  <2>2. 1 .. n \subseteq Nat
    OBVIOUS
  <2>3. hotels' \subseteq Written \X Nat
    BY <2>1, <2>2 DEF TypeOK, Written
  <2>4. QED
    BY <1>2, <2>3 DEF WriteEntities, WritesOn, TypeOK, Loops, Ended, locals
<1>3. CASE WriterEnds(a)
  BY <1>3 DEF WriterEnds, graph, locals, TypeOK, Loops, Ended
<1>4. QED
  BY <1>1, <1>2, <1>3 DEF Thread
\* The end of an extraction moves its file from running, perhaps to failed.
LEMMA AnsweredType ==
  ASSUME TInv, NEW f \in Sources, Answered(f)
  PROVE  TInv'
<1> USE DEF TInv, TypeOK, Loops, Ended, graph, threads, locals
<1>1. CASE DocumentDone(f)
  BY <1>1 DEF DocumentDone
<1>2. CASE DocumentFails(f)
  BY <1>2 DEF DocumentFails
<1>3. CASE DocumentTimesOut(f)
  <2>1. Attempt(f) \in Attempts
    <3>1. build \in Builds /\ phase \in Phases
      BY <1>3 DEF DocumentTimesOut, Ends
    <3>2. QED
      BY <3>1 DEF Attempt, Attempts
  <2>2. QED
    BY <1>3, <2>1 DEF DocumentTimesOut, LeaveBehind
<1>4. QED
  BY <1>1, <1>2, <1>3 DEF Answered
LEMMA PreparingType ==
  ASSUME TInv,
         \/ Start \/ Refuse \/ Wipe \/ Inspect \/ ClearEntities \/ ClearLexical
         \/ CountLoaded \/ Plan
  PROVE  TInv'
<1> USE FirstIsOne, GraphBuildAssumption
    DEF TInv, TypeOK, Loops, Ended, Ends, Steps, Phases, graph, threads, locals, Enter
<1>1. CASE Start
  <2>1. recipe' \in [Builds \union {0} -> Recipes \union {"none"}]
    BY <1>1 DEF Start
  <2>2. running' = {}
    BY <1>1 DEF Start, Starts
  <2>3. CASE Modes[build + 1] = "additive"
    BY <1>1, <2>1, <2>2, <2>3 DEF Start, Starts
  <2>4. CASE Modes[build + 1] # "additive"
    BY <1>1, <2>1, <2>2, <2>4 DEF Start, Starts
  <2>5. QED
    BY <2>3, <2>4
<1>2. CASE Wipe
  <2>1. IsFiniteSet({})
    BY FS_EmptySet
  <2>2. QED
    BY <1>2, <2>1 DEF Wipe
<1>3. CASE Inspect
  BY <1>3 DEF Inspect
<1>4. CASE ClearEntities
  BY <1>4 DEF ClearEntities
<1>5. CASE ClearLexical
  <2>1. IsFiniteSet(documents') /\ documents' \subseteq documents
    BY <1>5, FS_Subset DEF ClearLexical
  <2>2. QED
    BY <1>5, <2>1 DEF ClearLexical
<1>6. CASE CountLoaded
  <2>1. Cardinality(documents) \in Nat
    BY FS_CardinalityType
  <2>2. QED
    BY <1>6, <2>1 DEF CountLoaded, CountDocuments
<1>7. CASE Plan
  BY <1>7 DEF Plan
<1>8. CASE Refuse
  <2>1. recipe' \in [Builds \union {0} -> Recipes \union {"none"}]
    BY <1>8 DEF Refuse
  <2>2. QED
    BY <1>8, <2>1 DEF Refuse, Starts
<1>9. QED
  BY <1>1, <1>2, <1>3, <1>4, <1>5, <1>6, <1>7, <1>8

LEMMA IngestType ==
  ASSUME TInv, StartDocument \/ IngestEnds \/ RetryNext
  PROVE  TInv'
<1> USE FirstIsOne
    DEF TInv, TypeOK, Loops, Ended, Ends, Steps, Phases, graph, threads, locals, Enter
<1>1. CASE StartDocument
  <2>1. writer' \in [Attempts -> {"none", "extracting", "lexical", "ended"}]
    BY <1>1 DEF StartDocument
  <2>2. QED
    BY <1>1, <2>1 DEF StartDocument
<1>2. CASE IngestEnds
  BY <1>2 DEF IngestEnds
<1>3. CASE RetryNext
  BY <1>3 DEF RetryNext
<1>4. QED
  BY <1>1, <1>2, <1>3

LEMMA GateType ==
  ASSUME TInv,
         \/ CheckCanary \/ CheckFailures \/ CheckDocuments \/ CheckHotels \/ Materialize
         \/ CheckAmenities \/ EnsureIndexes \/ Readiness
  PROVE  TInv'
<1> USE FirstIsOne, GraphBuildAssumption
    DEF TInv, TypeOK, Loops, Ended, Ends, Steps, Phases, graph, threads, locals, Enter
<1>1. CASE CheckCanary
  BY <1>1 DEF CheckCanary, CheckResumeCanary, CheckRebuildCanary
<1>2. CASE CheckFailures
  BY <1>2 DEF CheckFailures
<1>3. CASE CheckDocuments \/ CheckHotels \/ CheckAmenities \/ Readiness
  <2>1. /\ step \notin Ends /\ step # "ingest" /\ step' # "ingest"
        /\ step' \in Steps \union Ends
        /\ step' \notin {"clear", "clear_lexical", "retry_next", "wipe"}
        /\ step' = "materialize" => todo' = Sources
        /\ todo' \in {{}, Sources}
    BY <1>3 DEF CheckDocuments, CheckHotels, CheckAmenities, Readiness, Gate
  <2>2. UNCHANGED <<graph, threads, recipe, build, running, locals, phase>>
    BY <1>3 DEF CheckDocuments, CheckHotels, CheckAmenities, Readiness, Gate
  <2>3. QED
    BY <2>1, <2>2
<1>4. CASE Materialize
  <2>1. \A o \in offers' : o[1] \in Written
    BY <1>4 DEF Materialize, Merged, DocumentsOf
  <2>2. QED
    BY <1>4, <2>1 DEF Materialize
<1>5. CASE EnsureIndexes
  BY <1>5 DEF EnsureIndexes
<1>6. QED
  BY <1>1, <1>2, <1>3, <1>4, <1>5

LEMMA InterruptType == ASSUME TInv, Interrupt PROVE TInv'
<1> USE DEF TInv, TypeOK, Loops, Ended, Ends, Steps, graph, locals
<1>1. writer' \in [Attempts -> {"none", "extracting", "lexical", "ended"}]
  BY DEF Interrupt
<1>2. left' \subseteq Attempts
  BY DEF Interrupt, LeaveBehind
<1>3. QED
  BY <1>1, <1>2 DEF Interrupt

LEMMA TypeStep == TInv /\ [Next]_vars => TInv'
<1> SUFFICES ASSUME TInv, [Next]_vars PROVE TInv'
  OBVIOUS
<1>1. CASE UNCHANGED vars
  BY <1>1 DEF TInv, TypeOK, Loops, Ended, vars, graph, threads, locals
<1>2. CASE BuildStep
  BY <1>2, PreparingType, IngestType, GateType DEF BuildStep
<1>3. QED
  BY <1>1, <1>2, PreparingType, InterruptType, AnsweredType, ThreadType DEF Next

\* Builds stay well typed, whatever sources, modes and failures.
THEOREM TypeCorrect == Spec => []TypeOK
<1>1. TInv => TypeOK
  BY DEF TInv
<1>2. QED
  BY <1>1, TypeInit, TypeStep, PTL DEF Spec

(***************************************************************************)
(* Additive builds and the restored dump.  Only Wipe and the two steps of  *)
(* clear_document delete.  Wipe is out of an additive build's reach, and   *)
(* clear_document takes a file of Sources: a restored document's file is   *)
(* none, and an amenity a restored Hotel offers has a Chunk of another     *)
(* document.                                                               *)
(***************************************************************************)
AdditiveOnly == \A n \in Builds : Modes[n] = "additive"

AdditiveSteps == step \notin {"wipe", "inspect", "plan", "check_canary"}

AdditivePhases ==
  /\ ~Ended => phase \in {"setup", "first", "retry"}
  /\ step \in {"ingest", "retry_next", "check_failures", "check_documents", "check_hotels",
              "materialize", "check_amenities", "indexes"} => phase # "setup"

RInv == TInv /\ RestoredUntouched /\ AdditiveSteps /\ AdditivePhases

LEMMA RestoredInit == Init => RInv
<1> SUFFICES ASSUME Init PROVE RInv
  OBVIOUS
<1>1. TInv
  BY TypeInit
<1>2. RestoredUntouched
  BY DEF Init, RestoredUntouched
<1>3. QED
  BY <1>1, <1>2 DEF Init, RInv, AdditiveSteps, AdditivePhases, Ended, Ends

\* A restored document is never one of a source's, so clearing a source leaves
\* it, its Hotel and the amenities that Hotel offers.
LEMMA ClearKeepsRestored ==
  ASSUME RInv, ClearEntities \/ ClearLexical
  PROVE  RestoredUntouched'
<1> SUFFICES ASSUME NEW r \in Restored
             PROVE  /\ Loaded(r) \in documents'
                    /\ <<Loaded(r), 1>> \in hotels'
                    /\ \A n \in Amenities[r] : <<Loaded(r), n>> \in offers'
  BY DEF RestoredUntouched
<1> DEFINE f == First(todo)
<1>1. f \in Sources
  BY FirstIsOne DEF RInv, TInv, TypeOK, Loops, ClearEntities, ClearLexical
<1>2. Loaded(r).file # f
  BY <1>1, GraphBuildAssumption DEF Loaded
<1>3. Loaded(r) \notin DocumentsOf(f)
  BY <1>2 DEF DocumentsOf
<1>4. /\ Loaded(r) \in documents
      /\ <<Loaded(r), 1>> \in hotels
      /\ \A n \in Amenities[r] : <<Loaded(r), n>> \in offers
  BY DEF RInv, RestoredUntouched
<1>5. CASE ClearEntities
  <2>1. <<Loaded(r), 1>> \notin HotelsOf(f)
    BY <1>3 DEF HotelsOf
  <2>2. ASSUME NEW n \in Amenities[r] PROVE ~AmenityGoes(f, n)
    BY <1>2, <1>4 DEF AmenityGoes
  <2>3. QED
    BY <1>3, <1>4, <1>5, <2>1, <2>2 DEF ClearEntities
<1>6. CASE ClearLexical
  BY <1>3, <1>4, <1>6 DEF ClearLexical
<1>7. QED
  BY <1>5, <1>6

\* No other step of an additive build deletes.
LEMMA RestoredStep ==
  ASSUME AdditiveOnly, RInv, [Next]_vars
  PROVE  RestoredUntouched'
<1> DEFINE Grows == documents \subseteq documents' /\ hotels \subseteq hotels'
                      /\ offers \subseteq offers'
<1>1. Grows => RestoredUntouched'
  BY DEF RInv, RestoredUntouched
<1>2. CASE ClearEntities \/ ClearLexical
  BY <1>2, ClearKeepsRestored
<1>3. ~Wipe
  BY DEF RInv, AdditiveSteps, Wipe
<1>4. CASE BuildStep /\ ~ClearEntities /\ ~ClearLexical
  <2>1. CASE Inspect \/ CountLoaded \/ Plan \/ StartDocument \/ IngestEnds \/ RetryNext
    BY <1>1, <2>1 DEF Inspect, CountLoaded, Plan, StartDocument, IngestEnds, RetryNext, graph
  <2>2. CASE CheckCanary \/ CheckFailures \/ CheckDocuments \/ CheckHotels
             \/ CheckAmenities \/ Readiness
    BY <1>1, <2>2 DEF CheckCanary, CheckFailures, CheckDocuments, CheckHotels,
                      CheckAmenities, Readiness, Gate, graph
  <2>3. CASE Materialize
    BY <1>1, <2>3 DEF Materialize
  <2>4. CASE EnsureIndexes
    BY <1>1, <2>4 DEF EnsureIndexes
  <2>5. QED
    BY <1>3, <1>4, <2>1, <2>2, <2>3, <2>4 DEF BuildStep
<1>5. CASE Start \/ Refuse \/ Interrupt \/ UNCHANGED vars
  BY <1>1, <1>5 DEF Start, Refuse, Interrupt, vars, graph
<1>6. CASE \E f \in Sources : Answered(f)
  BY <1>1, <1>6 DEF Answered, DocumentDone, DocumentFails, DocumentTimesOut, graph
<1>7. CASE \E a \in Attempts : Thread(a)
  BY <1>1, <1>7 DEF Thread, WriteLexical, WriteEntities, WriterEnds, WritesOn, graph
<1>8. QED
  BY <1>2, <1>4, <1>5, <1>6, <1>7 DEF Next, BuildStep

\* An additive build never comes to wipe, inspect, plan or a canary.
LEMMA AdditiveStep ==
  ASSUME AdditiveOnly, RInv, [Next]_vars
  PROVE  AdditiveSteps' /\ AdditivePhases'
<1> USE DEF RInv, TInv, Loops, AdditiveSteps, AdditivePhases, Ended, Ends
<1>1. CASE Start \/ Refuse
  <2>1. Modes[build + 1] = "additive"
    BY <1>1 DEF Start, Refuse, Starts, AdditiveOnly
  <2>2. QED
    BY <1>1, <2>1 DEF Start, Refuse, Starts, Enter
<1>2. CASE BuildStep
  <2>1. Mode = "additive"
    BY <1>2 DEF Mode, AdditiveOnly, BuildStep, Wipe, Inspect, ClearEntities, ClearLexical,
                CountLoaded, Plan, StartDocument, IngestEnds, RetryNext, CheckCanary,
                CheckFailures, CheckDocuments, CheckHotels, Materialize, CheckAmenities,
                EnsureIndexes, Readiness
  <2>2. CASE ClearEntities \/ CountLoaded \/ StartDocument
    BY <2>2 DEF ClearEntities, CountLoaded, StartDocument, Enter
  <2>3. CASE ClearLexical
    <3>1. phase' = phase /\ step' \in {"retry_next", "clear", "failed", "count_loaded"}
      BY <2>1, <2>3 DEF ClearLexical
    <3>2. QED
      BY <2>3, <3>1 DEF ClearLexical
  <2>4. CASE IngestEnds \/ RetryNext \/ CheckFailures \/ Materialize
    <3>1. CASE IngestEnds
      <4>1. phase \in {"first", "retry"}
        BY <3>1 DEF IngestEnds, Phases
      <4>2. QED
        BY <3>1, <4>1 DEF IngestEnds, Enter
    <3>2. CASE RetryNext
      BY <3>2 DEF RetryNext
    <3>3. CASE CheckFailures
      BY <3>3 DEF CheckFailures
    <3>4. CASE Materialize
      BY <3>4 DEF Materialize
    <3>5. QED
      BY <2>4, <3>1, <3>2, <3>3, <3>4
  <2>5. CASE CheckDocuments \/ CheckHotels \/ CheckAmenities \/ Readiness
    BY <2>5 DEF CheckDocuments, CheckHotels, CheckAmenities, Readiness, Gate, Enter
  <2>6. CASE EnsureIndexes
    BY <2>6 DEF EnsureIndexes
  <2>7. QED
    BY <1>2, <2>2, <2>3, <2>4, <2>5, <2>6 DEF BuildStep, Wipe, Inspect, Plan, CheckCanary
<1>3. CASE Interrupt
  BY <1>3 DEF Interrupt
<1>4. CASE UNCHANGED vars
  BY <1>4 DEF vars
<1>5. CASE \E f \in Sources : Answered(f)
  BY <1>5 DEF Answered, DocumentDone, DocumentFails, DocumentTimesOut
<1>6. CASE \E a \in Attempts : Thread(a)
  BY <1>6 DEF Thread, WriteLexical, WriteEntities, WriterEnds, WritesOn
<1>7. QED
  BY <1>1, <1>2, <1>3, <1>4, <1>5, <1>6 DEF Next

\* However often additive builds run, fail, are interrupted and leave threads
\* behind, the restored documents, their Hotels and the amenities those offer
\* are in the graph.
THEOREM AdditiveKeepsRestored == AdditiveOnly => (Spec => []RestoredUntouched)
<1> SUFFICES ASSUME AdditiveOnly PROVE Spec => []RestoredUntouched
  OBVIOUS
<1>1. RInv /\ [Next]_vars => RInv'
  <2> SUFFICES ASSUME RInv, [Next]_vars PROVE RInv'
    OBVIOUS
  <2>1. TInv'
    BY TypeStep DEF RInv
  <2>2. QED
    BY <2>1, RestoredStep, AdditiveStep DEF RInv
<1>2. RInv => RestoredUntouched
  BY DEF RInv
<1>3. QED
  BY <1>1, <1>2, RestoredInit, PTL DEF Spec

(***************************************************************************)
(* No source has two Documents.  A Document that counts is written by an   *)
(* attempt that ingest awaits, and ingest only takes files that have none: *)
(* what its build cleared, could not prove, or found in an empty graph.    *)
(***************************************************************************)
Counted == documents \ late
Cleared(f) == \A c \in Counted : c.file # f

Gating == {"check_failures", "check_documents", "check_hotels", "materialize",
           "check_amenities"}

\* Which steps come in which phases.
Course ==
  /\ step \in Gating => phase = "retry"
  /\ step = "indexes" /\ phase = "setup" => Mode # "additive"
  /\ step = "inspect" => phase = "setup" /\ Mode # "additive"
  /\ step \in {"clear", "clear_lexical"} => phase \in {"setup", "retry", "discard"}
  /\ step \in {"plan", "count_loaded"} => phase = "setup"
  /\ step = "check_canary" => phase = "canary"
  /\ phase # "retry" => ready = {}

\* The clearing before the ingest, and that of the retry.
Clears ==
  /\ step \in {"clear", "clear_lexical"} /\ phase = "setup" =>
       \A f \in Sources \ todo : Cleared(f) \/ (Mode # "additive" /\ f \in complete)
  /\ step = "count_loaded" => \A f \in Sources : Cleared(f)
  /\ step = "plan" => \A f \in Sources \ complete : Cleared(f)
  /\ step \in {"retry_next", "clear", "clear_lexical"} => \A f \in ready : Cleared(f)

\* What an ingest has still to start, and what it awaits.
Ingests ==
  /\ step = "ingest" =>
       /\ running \intersect todo = {}
       /\ \A f \in todo : Cleared(f)
       /\ \A f \in running : \A c \in Counted : c.file = f => c = Attempt(f)
  /\ step \in {"ingest", "check_canary"} /\ phase = "canary" =>
       /\ running \union todo \subseteq Canary
       /\ \A f \in Sources \ Canary : Cleared(f)

OInv == TInv /\ OneDocumentPerSource /\ Course /\ Clears /\ Ingests

LEMMA OneInit == Init => OInv
<1> SUFFICES ASSUME Init PROVE OInv
  OBVIOUS
<1>1. TInv
  BY TypeInit
<1>2. OneDocumentPerSource
  BY DEF Init, OneDocumentPerSource, Loaded
<1>3. QED
  BY <1>1, <1>2 DEF Init, OInv, Course, Clears, Ingests, Gating

\* A step that adds no Document, and takes none out of late, leaves cleared files
\* cleared and single Documents single.
LEMMA Shrinks ==
  ASSUME OneDocumentPerSource, Counted' \subseteq Counted
  PROVE  /\ OneDocumentPerSource'
         /\ \A f : Cleared(f) => Cleared(f)'
BY DEF OneDocumentPerSource, Cleared, Counted

\* An awaited attempt writes the one Document of its file.
LEMMA ThreadOne ==
  ASSUME OInv, NEW a \in Attempts, Thread(a)
  PROVE  OneDocumentPerSource' /\ Course' /\ Clears' /\ Ingests'
<1>1. UNCHANGED <<build, step, phase, todo, running, ready, complete>>
  BY DEF Thread, WriteLexical, WriteEntities, WriterEnds, WritesOn, locals
<1>2. Course'
  BY <1>1 DEF OInv, Course, Mode
<1>3. CASE Counted' \subseteq Counted
  <2>1. OneDocumentPerSource' /\ \A f : Cleared(f) => Cleared(f)'
    BY <1>3, Shrinks DEF OInv
  <2>2. Clears'
    BY <1>1, <2>1 DEF OInv, Clears, Mode
  <2>3. \A f : Attempt(f)' = Attempt(f)
    BY <1>1 DEF Attempt
  <2>4. Ingests'
    BY <1>1, <1>3, <2>1, <2>3 DEF OInv, Ingests
  <2>5. QED
    BY <1>2, <2>1, <2>2, <2>4
<1>4. CASE ~(Counted' \subseteq Counted)
  <2>1. WriteLexical(a) /\ Awaited(a) /\ Counted' \subseteq Counted \union {a}
    BY <1>4 DEF Thread, WriteLexical, WriteEntities, WriterEnds, WritesOn, Counted, graph
  <2>2. a = Attempt(a.file) /\ a.file \in running
    BY <2>1 DEF Awaited, Attempt, Attempts
  <2>3. step = "ingest" /\ a.file \notin todo
    BY <2>2 DEF OInv, TInv, Loops, Ingests
  <2>4. OneDocumentPerSource'
    BY <2>1, <2>2, <2>3 DEF OInv, OneDocumentPerSource, Ingests, Counted
  <2>5. \A f : f # a.file /\ Cleared(f) => Cleared(f)'
    BY <2>1 DEF Cleared
  <2>6. Clears'
    BY <1>1, <2>3 DEF Clears
  <2>7. Ingests'
    <3>1. \A f \in todo : Cleared(f)'
      BY <2>3, <2>5 DEF OInv, Ingests
    <3>2. \A f \in running : \A c \in Counted' : c.file = f => c = Attempt(f)
      BY <2>1, <2>2, <2>3 DEF OInv, Ingests
    <3>3. phase = "canary" => \A f \in Sources \ Canary : Cleared(f)'
      BY <2>2, <2>3, <2>5 DEF OInv, Ingests
    <3>4. QED
      BY <1>1, <2>3, <3>1, <3>2, <3>3 DEF OInv, Ingests, Attempt
  <2>8. QED
    BY <1>2, <2>4, <2>6, <2>7
<1>5. QED
  BY <1>2, <1>3, <1>4

LEMMA AnsweredOne ==
  ASSUME OInv, NEW f \in Sources, Answered(f)
  PROVE  OneDocumentPerSource' /\ Course' /\ Clears' /\ Ingests'
<1>1. /\ UNCHANGED <<documents, late, build, step, phase, todo, ready, complete>>
      /\ running' \subseteq running
  BY DEF Answered, DocumentDone, DocumentFails, DocumentTimesOut, graph, threads, locals
<1>2. Counted' \subseteq Counted
  BY <1>1 DEF Counted
<1>3. QED
  BY <1>1, <1>2, Shrinks DEF OInv, Course, Clears, Ingests, Mode, Attempt

\* Clearing, which makes files ready for an ingest.
LEMMA ClearOne ==
  ASSUME OInv, Inspect \/ ClearEntities \/ ClearLexical \/ CountLoaded \/ Plan \/ Wipe
  PROVE  OneDocumentPerSource' /\ Course' /\ Clears' /\ Ingests'
<1> USE FirstIsOne DEF OInv, Enter
<1>1. Counted' \subseteq Counted /\ UNCHANGED <<build, running>> /\ Mode' = Mode
  BY DEF Inspect, ClearEntities, ClearLexical, CountLoaded, Plan, Wipe, graph, threads,
         Counted, Mode
<1>2. OneDocumentPerSource' /\ \A f : Cleared(f) => Cleared(f)'
  BY <1>1, Shrinks
<1>3. running = {}
  BY DEF TInv, Loops, Inspect, ClearEntities, ClearLexical, CountLoaded, Plan, Wipe
<1>4. CASE Inspect
  BY <1>1, <1>2, <1>3, <1>4 DEF Inspect, Course, Clears, Ingests, Gating
<1>5. CASE ClearEntities
  BY <1>1, <1>2, <1>3, <1>5 DEF ClearEntities, locals, Course, Clears, Ingests, Gating
<1>6. CASE ClearLexical
  <2> PICK g : g = First(todo)
    OBVIOUS
  <2>1. Cleared(g)'
    BY <1>6 DEF ClearLexical, Cleared, Counted, DocumentsOf, threads
  <2>2. Course'
    BY <1>1, <1>6 DEF ClearLexical, Course, Gating, Mode
  <2>3. Clears'
    <3>1. step = "clear_lexical" /\ todo' = todo \ {g} /\ UNCHANGED <<phase, complete>>
      BY <1>6 DEF ClearLexical
    <3>2. \A f \in ready' : Cleared(f)'
      BY <1>2, <1>6, <2>1, <3>1 DEF ClearLexical, Clears
    <3>3. phase = "setup" => \A f \in Sources \ todo' :
                                 Cleared(f)' \/ (Mode # "additive" /\ f \in complete)
      BY <1>2, <2>1, <3>1 DEF Clears
    <3>4. phase = "setup" /\ step' \in {"count_loaded", "plan"} => todo' = {}
      BY <1>6, <3>1 DEF ClearLexical
    <3>5. step' \in {"count_loaded", "plan"} => phase = "setup"
      BY <1>6 DEF ClearLexical, Course
    <3>6. step' = "count_loaded" => Mode = "additive"
      BY <1>6 DEF ClearLexical
    <3>7. QED
      BY <1>1, <3>1, <3>2, <3>3, <3>4, <3>5, <3>6 DEF Clears
  <2>4. Ingests'
    BY <1>6 DEF ClearLexical, Ingests
  <2>5. QED
    BY <1>2, <2>2, <2>3, <2>4
<1>7. CASE CountLoaded
  <2>1. step' = "ingest" /\ phase' = "first" /\ todo' = Sources /\ UNCHANGED <<ready, complete>>
    BY <1>7 DEF CountLoaded
  <2>2. \A f \in Sources : Cleared(f)'
    BY <1>2, <1>7 DEF CountLoaded, Clears
  <2>3. Course'
    BY <1>7, <2>1 DEF CountLoaded, Course, Gating
  <2>4. Ingests'
    BY <1>1, <1>3, <2>1, <2>2 DEF Ingests
  <2>5. QED
    BY <1>2, <2>1, <2>3, <2>4 DEF Clears
<1>8. CASE Plan
  <2>1. /\ step' = "ingest" /\ phase' \in {"canary", "first"} /\ UNCHANGED locals
        /\ phase' = "canary" => todo' = Canary /\ complete = {}
        /\ todo' \subseteq Sources \ complete
    <3>1. Canary \subseteq Sources
      BY GraphBuildAssumption
    <3>2. CASE complete = {}
      BY <1>8, <3>1, <3>2 DEF Plan
    <3>3. CASE complete # {}
      BY <1>8, <3>3 DEF Plan
    <3>4. QED
      BY <3>2, <3>3
  <2>2. \A f \in Sources \ complete : Cleared(f)'
    BY <1>2, <1>8 DEF Plan, Clears
  <2>3. ready = {}
    BY <1>8 DEF Plan, Course
  <2>4. Course'
    BY <2>1, <2>3 DEF Course, Gating, locals
  <2>5. Ingests'
    BY <1>1, <1>3, <2>1, <2>2 DEF Ingests
  <2>6. QED
    BY <1>2, <2>1, <2>4, <2>5 DEF Clears
<1>9. CASE Wipe
  <2>1. \A f : Cleared(f)'
    BY <1>9 DEF Wipe, Cleared, Counted
  <2>2. /\ step' \in {"ingest", "failed"}
        /\ phase' = "canary" => todo' = Canary
        /\ ready' = ready
        /\ phase # "retry" /\ phase' # "retry"
    BY <1>9 DEF Wipe, TInv, Loops, locals
  <2>3. \A c \in Counted' : FALSE
    BY <1>9 DEF Wipe, Counted
  <2>4. QED
    BY <1>1, <1>2, <1>3, <2>1, <2>2, <2>3 DEF Course, Clears, Ingests, Gating
<1>10. QED
  BY <1>4, <1>5, <1>6, <1>7, <1>8, <1>9

LEMMA IngestOne ==
  ASSUME OInv, StartDocument \/ IngestEnds \/ RetryNext \/ CheckCanary
  PROVE  OneDocumentPerSource' /\ Course' /\ Clears' /\ Ingests'
<1> USE FirstIsOne DEF OInv, Enter
<1>1. UNCHANGED <<documents, late, build>>
  BY DEF StartDocument, IngestEnds, RetryNext, CheckCanary, graph, threads
<1>2. OneDocumentPerSource' /\ \A f : Cleared(f)' <=> Cleared(f)
  BY <1>1 DEF OneDocumentPerSource, Cleared, Counted
<1>3. Mode' = Mode /\ Counted' = Counted
  BY <1>1 DEF Mode, Counted
<1>4. CASE StartDocument
  <2> PICK g : g = First(todo)
    OBVIOUS
  <2>1. /\ step = "ingest" /\ g \in todo /\ UNCHANGED <<step, phase, ready, complete>>
        /\ running' = running \union {g} /\ todo' = todo \ {g}
    BY <1>4 DEF StartDocument, locals
  <2>2. \A f : Attempt(f)' = Attempt(f)
    BY <1>1, <2>1 DEF Attempt
  <2>3. Ingests'
    BY <1>2, <1>3, <2>1, <2>2 DEF Ingests, Cleared
  <2>4. Course' /\ Clears'
    BY <1>3, <2>1 DEF Course, Clears, Gating
  <2>5. QED
    BY <1>2, <2>3, <2>4
<1>5. CASE IngestEnds
  <2>1. /\ step = "ingest" /\ phase \in Phases /\ running = {} /\ running' = {}
        /\ step' \in {"check_canary", "retry_next", "check_failures"}
        /\ step' = "check_canary" => phase = "canary" /\ todo' = {}
        /\ step' # "check_canary" => phase' = "retry"
        /\ step' = "check_canary" => phase' = "canary"
        /\ step' = "retry_next" => phase = "first"
        /\ UNCHANGED <<ready, complete>>
    BY <1>5 DEF IngestEnds, TInv, Loops, Phases
  <2>2. Course'
    BY <1>3, <2>1 DEF Course, Gating
  <2>3. Clears'
    BY <2>1 DEF Clears, Course
  <2>4. Ingests'
    BY <1>2, <2>1 DEF Ingests
  <2>5. QED
    BY <1>2, <2>2, <2>3, <2>4
<1>6. CASE RetryNext
  <2>1. /\ step = "retry_next" /\ phase = "retry" /\ running = {} /\ running' = {}
        /\ step' \in {"ingest", "check_failures", "retry_next", "clear"}
        /\ step' = "ingest" => todo' = ready
        /\ UNCHANGED <<phase, ready, complete>>
    BY <1>6 DEF RetryNext, TInv, Loops
  <2>2. Course' /\ Clears'
    BY <1>2, <1>3, <2>1 DEF Course, Clears, Gating
  <2>3. Ingests'
    BY <1>2, <2>1 DEF Ingests, Clears
  <2>4. QED
    BY <1>2, <2>2, <2>3
<1>7. CASE CheckCanary
  <2>1. /\ step = "check_canary" /\ phase = "canary" /\ ready = {}
        /\ running = {} /\ running' = {} /\ ready' = ready
    BY <1>7 DEF CheckCanary, TInv, Loops, Course
  <2>2. \/ step' = "wipe" /\ phase' \in {"canary", "discard"}
        \/ step' = "ingest" /\ phase' = "first" /\ todo' = Sources \ Canary
        \/ step' = "clear" /\ phase' = "discard"
    BY <1>7 DEF CheckCanary, CheckResumeCanary, CheckRebuildCanary
  <2>3. Course' /\ Clears'
    BY <1>2, <2>1, <2>2 DEF Course, Clears, Gating
  <2>4. Ingests'
    BY <1>2, <2>1, <2>2 DEF Ingests
  <2>5. QED
    BY <1>2, <2>3, <2>4
<1>8. QED
  BY <1>4, <1>5, <1>6, <1>7

\* Gates, indexes, ends and beginnings write no Document.
LEMMA RestOne ==
  ASSUME OInv,
         \/ CheckFailures \/ CheckDocuments \/ CheckHotels \/ Materialize \/ CheckAmenities
         \/ EnsureIndexes \/ Readiness \/ Start \/ Refuse \/ Interrupt \/ UNCHANGED vars
  PROVE  OneDocumentPerSource' /\ Course' /\ Clears' /\ Ingests'
<1> USE DEF OInv, Enter
<1>1. UNCHANGED <<documents, late>>
  BY DEF CheckFailures, CheckDocuments, CheckHotels, Materialize, CheckAmenities, EnsureIndexes,
         Readiness, Gate, Start, Refuse, Interrupt, LeaveBehind, vars, graph, threads
<1>2. OneDocumentPerSource' /\ \A f : Cleared(f)' <=> Cleared(f)
  BY <1>1 DEF OneDocumentPerSource, Cleared, Counted
<1>3. CASE \/ CheckFailures \/ CheckDocuments \/ CheckHotels \/ Materialize \/ CheckAmenities
           \/ Readiness
  <2>1. /\ step' \in Gating \union {"indexes", "readiness", "ok", "failed"}
        /\ UNCHANGED <<build, phase, ready>>
        /\ step' \in Gating \union {"indexes"} => step \in Gating
    BY <1>3 DEF CheckFailures, CheckDocuments, CheckHotels, Materialize, CheckAmenities,
       Readiness, Gate, Gating, locals
  <2>2. QED
    BY <1>2, <2>1 DEF Course, Clears, Ingests, Gating, Mode
<1>4. CASE EnsureIndexes
  <2>1. /\ step = "indexes" /\ UNCHANGED <<build, phase, ready>>
        /\ \/ step' = "readiness" \/ step' = "failed"
           \/ step' \in {"wipe", "inspect"} /\ phase = "setup"
    BY <1>4 DEF EnsureIndexes, locals
  <2>2. QED
    BY <1>2, <2>1 DEF Course, Clears, Ingests, Gating, Mode
<1>5. CASE Start \/ Refuse
  <2>1. ready' = {} /\ phase' = "setup" /\ Mode' = Modes[build + 1]
    BY <1>5 DEF Start, Refuse, Starts, Mode
  <2>2. \/ step' = "clear" /\ todo' = Sources
        \/ step' = "indexes" /\ Mode' # "additive"
        \/ step' = "failed"
    BY <1>5, <2>1 DEF Start, Refuse
  <2>3. QED
    BY <1>2, <2>1, <2>2 DEF Course, Clears, Ingests, Gating
<1>6. CASE Interrupt
  <2>1. step' = "interrupted" /\ UNCHANGED <<phase, ready>>
    BY <1>6 DEF Interrupt, locals
  <2>2. QED
    BY <1>2, <2>1 DEF Course, Clears, Ingests, Gating
<1>7. CASE UNCHANGED vars
  <2>1. /\ UNCHANGED <<build, step, phase, todo, running, ready, complete>>
        /\ Mode' = Mode /\ Counted' = Counted /\ \A f : Attempt(f)' = Attempt(f)
    BY <1>7 DEF Counted, Attempt, Mode, vars, graph, threads, locals
  <2>2. Course' /\ Clears'
    BY <1>2, <2>1 DEF Course, Clears
  <2>3. Ingests'
    BY <1>2, <2>1 DEF Ingests
  <2>4. QED
    BY <1>2, <2>2, <2>3
<1>8. QED
  BY <1>3, <1>4, <1>5, <1>6, <1>7

LEMMA OneStep == OInv /\ [Next]_vars => OInv'
<1> SUFFICES ASSUME OInv, [Next]_vars PROVE OInv'
  OBVIOUS
<1>1. TInv'
  BY TypeStep DEF OInv
<1>2. OneDocumentPerSource' /\ Course' /\ Clears' /\ Ingests'
  BY ThreadOne, AnsweredOne, ClearOne, IngestOne, RestOne DEF Next, BuildStep
<1>3. QED
  BY <1>1, <1>2 DEF OInv

\* Whatever fails, is interrupted, retried, resumed or run again, in builds of any
\* mode, graph_builder.py's awaited extractions give no source a second Document.
THEOREM OneDocumentAlways == Spec => []OneDocumentPerSource
<1>1. OInv => OneDocumentPerSource
  BY DEF OInv
<1>2. QED
  BY <1>1, OneInit, OneStep, PTL DEF Spec
================================================================================
