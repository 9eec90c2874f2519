------------------------------ MODULE GraphBuild ------------------------------
(***************************************************************************)
(* Module 1's graph builds, notebooks/02-connected-context/                *)
(* graph_builder.py: run_additive_build, which extracts a few documents    *)
(* into the restored graph from a notebook cell, and run_build, which      *)
(* prepare_graph.py runs to rebuild the whole graph or to resume a         *)
(* retained one.  Builds are interrupted and run again, document           *)
(* extractions fail or time out, and a timed-out one may still be writing. *)
(*                                                                         *)
(* External is SimpleKGPipeline, as the builder describes it: it creates   *)
(* (never merges) the document's Document and Chunk and then its entities, *)
(* may fail anywhere in between, and an attempt the builder gave up on can *)
(* go on writing.  Of the entities, only Hotels are told apart.            *)
(***************************************************************************)
EXTENDS Integers, Sequences, FiniteSets

CONSTANTS
  Sources,         \* source files a build is given
  Restored,        \* other source files, in the graph from the dump
  Amenities,       \* amenity names each source file lists
  Modes,           \* what is run, one build after the other
  Recipes,         \* build contract and source bytes a build may run with
  Malformed,       \* those with an amenity section that does not parse
  Fixtures,        \* SOURCE_FIXTURES: sources the later modules ask about
  IndexesBefore,   \* what indexes the database may have
  Concurrency,     \* GRAPH_BUILD_CONCURRENCY
  Canary,          \* the first CANARY_DOCS of them
  HotelCounts,     \* bound: how many Hotels an extraction may yield
  MaxLeft          \* bound: attempts given up while they may still write

Builds == DOMAIN Modes
Phases == {"canary", "first", "retry"}

\* One extraction of a source file: the build and the ingest call it belongs to.
Attempts == [build : Builds, file : Sources, phase : Phases]
Loaded(f) == [build |-> 0, file |-> f, phase |-> "first"]
Written == Attempts \union {Loaded(f) : f \in Restored}

ASSUME GraphBuildAssumption ==
  /\ IsFiniteSet(Sources) /\ Sources # {}
  /\ IsFiniteSet(Restored) /\ Sources \intersect Restored = {}
  /\ \A f \in Sources \union Restored : Amenities[f] # {}
  /\ Modes \in Seq({"additive", "rebuild", "resume"})
  /\ Concurrency \in Nat \ {0}
  /\ Canary \subseteq Sources /\ Canary # {}
  /\ HotelCounts \subseteq Nat
  /\ MaxLeft \in Nat
  /\ Malformed \subseteq Recipes
  /\ Fixtures \subseteq Sources \union Restored
  /\ IndexesBefore \subseteq {"absent", "online", "other"}

VARIABLES
  documents,       \* attempts whose Document and Chunk are in the graph
  hotels,          \* Hotel nodes: <<the attempt that wrote it, number>>
  offers,          \* <<attempt, name>>: its Hotel offers the amenity
  indexes,         \* the workshop's indexes: absent, online, or under their
                   \* names others that do not meet the contract
  writer,          \* how far each attempt has written
  left,            \* attempts given up while they might still write
  late,            \* history: those that did
  recipe,          \* recipe of each build
  build,           \* the build that runs, or the last that did
  step,            \* what it does next
  phase,           \* the ingest call it is at, or before, or discarding
  todo,            \* files the current loop has still to take
  running,         \* files being extracted that ingest still awaits
  failed,          \* files the build counts as failed
  ready,           \* files retry_failures has cleared
  complete,        \* files resume found complete
  loaded           \* already_loaded

graph == <<documents, hotels, offers, indexes>>
threads == <<writer, left, late>>
locals == <<failed, ready, complete, loaded>>
vars == <<graph, threads, recipe, build, step, phase, todo, running, locals>>

Ends == {"idle", "ok", "failed", "interrupted"}
Steps == {"inspect", "plan", "wipe", "clear", "clear_lexical", "count_loaded", "ingest",
          "check_canary", "retry_next", "check_failures", "check_documents",
          "check_hotels", "materialize", "check_amenities", "indexes", "readiness"}

TypeOK ==
  /\ documents \subseteq Written
  /\ hotels \subseteq Written \X Nat
  /\ \A o \in offers : o[1] \in Written
  /\ indexes \in {"absent", "online", "other"}
  /\ writer \in [Attempts -> {"none", "extracting", "lexical", "ended"}]
  /\ left \subseteq Attempts
  /\ late \subseteq Attempts
  /\ recipe \in [Builds \union {0} -> Recipes \union {"none"}]
  /\ build \in Builds \union {0}
  /\ step \in Steps \union Ends
  /\ phase \in Phases \union {"setup", "discard"}
  /\ todo \subseteq Sources
  /\ running \subseteq Sources
  /\ failed \subseteq Sources
  /\ ready \subseteq Sources
  /\ complete \subseteq Sources
  /\ loaded \in Nat

\* The restored dump, complete.  It ships without indexes; a database that was
\* used before may have some.
Init ==
  /\ indexes \in IndexesBefore
  /\ documents = {Loaded(f) : f \in Restored}
  /\ hotels = {<<Loaded(f), 1>> : f \in Restored}
  /\ offers = UNION {{<<Loaded(f), n>> : n \in Amenities[f]} : f \in Restored}
  /\ writer = [a \in Attempts |-> "none"]
  /\ left = {} /\ late = {}
  /\ recipe = [n \in Builds \union {0} |-> "none"]
  /\ build = 0
  /\ step = "idle" /\ phase = "setup" /\ todo = {} /\ running = {}
  /\ failed = {} /\ ready = {} /\ complete = {} /\ loaded = 0

(***************************************************************************)
(* What the queries read.                                                  *)
(***************************************************************************)
CountDocuments == Cardinality(documents)
CountHotels == Cardinality(hotels)
DocumentsOf(f) == {a \in documents : a.file = f}
\* Hotels reached through a Document and its Chunk.
HotelsOf(f) == {h \in hotels : h[1] \in DocumentsOf(f)}
OfferedBy(f) == {o[2] : o \in {p \in offers : p[1] \in DocumentsOf(f)}}

\* Loops take the files in one fixed order; which one makes no difference.
First(files) == CHOOSE f \in files : TRUE

Ended == step \in Ends
Mode == Modes[build]
Writing(a) == writer[a] \in {"extracting", "lexical"}
Awaited(a) == a.build = build /\ a.phase = phase /\ a.file \in running

Enter(nextPhase, next, files) ==
  /\ phase' = nextPhase
  /\ step' = next
  /\ todo' = files

(***************************************************************************)
(* Preparing the graph.                                                    *)
(***************************************************************************)
\* One operator starts one build at a time.  A script joins its threads before
\* it exits; a notebook cell leaves them behind.
Starts ==
  /\ Ended
  /\ build + 1 \in Builds
  /\ \A a \in Attempts : Modes[a.build] # "additive" => ~Writing(a)
  /\ build' = build + 1
  /\ failed' = {} /\ ready' = {} /\ complete' = {} /\ loaded' = 0

\* parse_amenity_section finds one list of names in every source.
Parses(r) == r \notin Malformed

\* Every list is parsed before anything is written; prepare_graph.py begins with
\* the indexes.
Start ==
  /\ Starts
  /\ \E r \in Recipes : Parses(r) /\ recipe' = [recipe EXCEPT ![build + 1] = r]
  /\ IF Modes[build + 1] = "additive" THEN Enter("setup", "clear", Sources)
                                     ELSE Enter("setup", "indexes", {})
  /\ UNCHANGED <<graph, threads, running>>

\* A list that does not parse, a required source that is missing, or a
\* concurrency out of its range.
Refuse ==
  /\ Starts
  /\ \E r \in Malformed : recipe' = [recipe EXCEPT ![build + 1] = r]
  /\ Enter("setup", "failed", {})
  /\ UNCHANGED <<graph, threads, running>>

\* clear_extracted_graph: before a rebuild, after its canary, and after its
\* failed canary.
Wipe ==
  /\ step = "wipe"
  /\ documents' = {} /\ hotels' = {} /\ offers' = {} /\ UNCHANGED indexes
  /\ CASE phase = "setup"   -> Enter("canary", "ingest", Canary)
       [] phase = "canary"  -> Enter("first", "ingest", Sources)
       [] phase = "discard" -> Enter("discard", "failed", {})
  /\ UNCHANGED <<threads, recipe, build, running, locals>>

ProvenWhateverRecipe(f) ==
  \E a \in documents : DocumentsOf(f) = {a} /\ Cardinality(HotelsOf(f)) = 1

\* resumable_paths keeps a source with one Document, of this build's recipe,
\* and one Hotel.
Proven(f) ==
  \E a \in documents :
    /\ DocumentsOf(f) = {a}
    /\ Cardinality(HotelsOf(f)) = 1
    /\ recipe[a.build] = recipe[build]

Inspect ==
  /\ step = "inspect"
  /\ complete' = {f \in Sources : Proven(f)}
  /\ todo' = Sources \ complete'
  /\ step' = IF complete' = Sources THEN "plan" ELSE "clear"
  /\ UNCHANGED <<graph, threads, recipe, build, phase, running, failed, ready, loaded>>

AmenityGoesIfAny(f, name) == \E a \in DocumentsOf(f) : <<a, name>> \in offers

\* An entity goes when every Chunk it came from belongs to the document.
AmenityGoes(f, name) ==
  \A a \in documents : <<a, name>> \in offers => a.file = f

\* clear_document is two transactions, entities first.  A Hotel has one Chunk.
ClearEntities ==
  /\ step = "clear"
  /\ hotels' = hotels \ HotelsOf(First(todo))
  /\ offers' = {o \in offers : /\ o[1] \notin DocumentsOf(First(todo))
                               /\ ~AmenityGoes(First(todo), o[2])}
  /\ step' = "clear_lexical"
  /\ UNCHANGED <<documents, indexes, threads, recipe, build, phase, todo, running, locals>>

ClearLexical ==
  /\ step = "clear_lexical"
  /\ documents' = documents \ DocumentsOf(First(todo))
  /\ todo' = todo \ {First(todo)}
  /\ ready' = IF phase = "retry" THEN ready \union {First(todo)} ELSE ready
  /\ step' = IF phase = "retry" THEN "retry_next"
             ELSE IF todo # {First(todo)} THEN "clear"
             ELSE IF phase = "discard" THEN "failed"
             ELSE IF Mode = "additive" THEN "count_loaded" ELSE "plan"
  /\ UNCHANGED <<hotels, offers, indexes, threads, recipe, build, phase, running, failed,
                 complete, loaded>>

CountLoadedLessSources ==
  /\ step = "count_loaded"
  /\ loaded' = CountDocuments - Cardinality(Sources)
  /\ Enter("first", "ingest", Sources)
  /\ UNCHANGED <<graph, threads, recipe, build, running, failed, ready, complete>>

CountLoaded ==
  /\ step = "count_loaded"
  /\ loaded' = CountDocuments
  /\ Enter("first", "ingest", Sources)
  /\ UNCHANGED <<graph, threads, recipe, build, running, failed, ready, complete>>

\* A resumed build that retained nothing passes the canary first.
Plan ==
  /\ step = "plan"
  /\ IF complete = {} THEN Enter("canary", "ingest", Canary)
                      ELSE Enter("first", "ingest", Sources \ complete)
  /\ UNCHANGED <<graph, threads, recipe, build, running, locals>>

(***************************************************************************)
(* ingest: bounded parallel extraction, each document under wait_for.      *)
(***************************************************************************)
Attempt(f) == [build |-> build, file |-> f, phase |-> phase]

SlotFreeCountingThreads ==
  Cardinality({a \in Attempts : a.build = build /\ Writing(a)}) < Concurrency
SlotFree == Cardinality(running) < Concurrency

StartDocument ==
  /\ step = "ingest"
  /\ todo # {}
  /\ SlotFree
  /\ writer' = [writer EXCEPT ![Attempt(First(todo))] = "extracting"]
  /\ running' = running \union {First(todo)}
  /\ todo' = todo \ {First(todo)}
  /\ UNCHANGED <<graph, left, late, recipe, build, step, phase, locals>>

\* The pipeline's two writes, awaited or not.
WritesOn(a, next) ==
  /\ writer' = [writer EXCEPT ![a] = next]
  /\ late' = IF Awaited(a) THEN late ELSE late \union {a}
  /\ UNCHANGED <<offers, indexes, left, recipe, build, step, phase, todo, running, locals>>

WriteLexical(a) ==
  /\ writer[a] = "extracting"
  /\ WritesOn(a, "lexical")
  /\ documents' = documents \union {a}
  /\ UNCHANGED hotels

\* The Chunk may be gone by now; the Hotels are then attached to nothing.
WriteEntities(a) ==
  /\ writer[a] = "lexical"
  /\ WritesOn(a, "ended")
  /\ \E n \in HotelCounts : hotels' = hotels \union {<<a, i>> : i \in 1 .. n}
  /\ UNCHANGED documents

\* A thread left behind ends without writing more.
WriterEnds(a) ==
  /\ Writing(a) /\ ~Awaited(a)
  /\ writer' = [writer EXCEPT ![a] = "ended"]
  /\ UNCHANGED <<graph, left, late, recipe, build, step, phase, todo, running, locals>>

DocumentDone(f) ==
  /\ f \in running
  /\ writer[Attempt(f)] = "ended"
  /\ running' = running \ {f}
  /\ UNCHANGED <<graph, threads, recipe, build, step, phase, todo, locals>>

\* Any exception, before, between or after the writes.
DocumentFails(f) ==
  /\ f \in running
  /\ writer' = [writer EXCEPT ![Attempt(f)] = "ended"]
  /\ running' = running \ {f}
  /\ failed' = failed \union {f}
  /\ UNCHANGED <<graph, left, late, recipe, build, step, phase, todo, ready, complete, loaded>>

LeaveBehind(attempts) ==
  /\ left' = left \union attempts
  /\ Cardinality(left') <= MaxLeft

\* DOC_TIMEOUT_SECONDS have passed.  The wait ends, the writer does not.
DocumentTimesOut(f) ==
  /\ f \in running
  /\ Writing(Attempt(f))
  /\ LeaveBehind({Attempt(f)})
  /\ running' = running \ {f}
  /\ failed' = failed \union {f}
  /\ UNCHANGED <<graph, writer, late, recipe, build, step, phase, todo, ready, complete,
                 loaded>>

\* A canary's failures are dropped, its check finds what they left out.
IngestEnds ==
  /\ step = "ingest"
  /\ todo = {} /\ running = {}
  /\ CASE phase = "canary" -> Enter("canary", "check_canary", {})
       [] phase = "first"  -> Enter("retry", "retry_next", failed)
       [] phase = "retry"  -> Enter("retry", "check_failures", {})
  /\ failed' = IF phase = "canary" THEN {} ELSE failed
  /\ UNCHANGED <<graph, threads, recipe, build, running, ready, complete, loaded>>

(***************************************************************************)
(* retry_failures, whose one pass skips the documents whose attempt        *)
(* started within RECENT_WRITE_SECONDS.  The clock is not modelled: an     *)
(* attempt that timed out took DOC_TIMEOUT_SECONDS, which is longer; any   *)
(* other may have started recently.                                        *)
(***************************************************************************)
TimedOut(a) == a.build = build /\ a \in left
MayBeRecent(f) == \E a \in DocumentsOf(f) : ~TimedOut(a)

RetryNextKeepingWrites ==
  /\ step = "retry_next"
  /\ IF todo = {}
       THEN /\ todo' = ready
            /\ step' = IF ready = {} THEN "check_failures" ELSE "ingest"
            /\ failed' = failed \ ready
            /\ UNCHANGED ready
       ELSE /\ todo' = todo \ {First(todo)}
            /\ ready' = ready \union {First(todo)}
            /\ UNCHANGED <<step, failed>>
  /\ UNCHANGED <<graph, threads, recipe, build, phase, running, complete, loaded>>

RetryNext ==
  /\ step = "retry_next"
  /\ \/ /\ todo = {}
        /\ todo' = ready
        /\ step' = IF ready = {} THEN "check_failures" ELSE "ingest"
        /\ failed' = failed \ ready
     \/ /\ todo # {}
        /\ MayBeRecent(First(todo))
        /\ todo' = todo \ {First(todo)}
        /\ UNCHANGED <<step, failed>>
     \/ /\ todo # {}
        /\ step' = "clear"
        /\ UNCHANGED <<todo, failed>>
  /\ UNCHANGED <<graph, threads, recipe, build, phase, running, ready, complete, loaded>>

(***************************************************************************)
(* The gates.  Whether the extracted text is right is not modelled: a gate *)
(* may always fail.                                                        *)
(***************************************************************************)
OneDocument(f) == Cardinality(DocumentsOf(f)) = 1
SourceHotel(f) == OneDocument(f) /\ Cardinality(HotelsOf(f)) = 1
ThisBuilds == {a \in documents : a.build = build}
SchemaHeld == \E h \in hotels : h[1] \in ThisBuilds

Gate(holds, next, files) ==
  /\ \/ holds /\ Enter(phase, next, files)
     \/ Enter(phase, "failed", {})
  /\ UNCHANGED <<graph, threads, recipe, build, running, locals>>

CanaryHolds == SchemaHeld /\ \A f \in Canary : SourceHotel(f)

\* A rebuild wipes the graph after its canary, passed or not.
CheckRebuildCanary ==
  /\ \/ CanaryHolds /\ Enter("canary", "wipe", {})
     \/ Enter("discard", "wipe", {})
  /\ UNCHANGED complete

\* A resumed build keeps a passed canary and clears a failed one.
CheckResumeCanary ==
  \/ /\ CanaryHolds
     /\ complete' = Canary
     /\ Enter("first", "ingest", Sources \ Canary)
  \/ /\ Enter("discard", "clear", Canary)
     /\ UNCHANGED complete

CheckCanary ==
  /\ step = "check_canary"
  /\ IF Mode = "resume" THEN CheckResumeCanary ELSE CheckRebuildCanary
  /\ UNCHANGED <<graph, threads, recipe, build, running, failed, ready, loaded>>

\* An additive build stops at a failure, the others count on what is committed.
CheckFailures ==
  /\ step = "check_failures"
  /\ step' = IF Mode = "additive" /\ failed # {} THEN "failed" ELSE "check_documents"
  /\ UNCHANGED <<graph, threads, recipe, build, phase, todo, running, locals>>

CheckDocuments ==
  /\ step = "check_documents"
  /\ Gate(/\ IF Mode = "additive" THEN ThisBuilds # {}
                                  ELSE CountDocuments = Cardinality(Sources)
          /\ \A f \in Sources : OneDocument(f),
          "check_hotels", {})

CheckHotels ==
  /\ step = "check_hotels"
  /\ Gate((\A f \in Sources : SourceHotel(f)) /\ (Mode = "additive" => SchemaHeld),
          "materialize", Sources)

\* What merging the names of a source's list leaves, however often it is done.
Merged(f) == DocumentsOf(f) \X Amenities[f]

\* One transaction per source: find its one Hotel, merge its amenities.
Materialize ==
  /\ step = "materialize"
  /\ IF SourceHotel(First(todo))
       THEN /\ offers' = offers \union Merged(First(todo))
            /\ todo' = todo \ {First(todo)}
            /\ step' = IF todo # {First(todo)} THEN "materialize" ELSE "check_amenities"
       ELSE step' = "failed" /\ UNCHANGED <<offers, todo>>
  /\ UNCHANGED <<documents, hotels, indexes, threads, recipe, build, phase, running, locals>>

CheckAmenities ==
  /\ step = "check_amenities"
  /\ Gate(\A f \in Sources : OfferedBy(f) = Amenities[f], "indexes", {})

\* _index_problems: online, of the right type, on the right label and property,
\* the vector index of the right size and similarity.
MeetsContract(found) == found = "online"

\* ensure_retrieval_indexes: create what no index has the name of, wait, and
\* verify.  prepare_graph.py does it before it writes, every build when it has.
EnsureIndexes ==
  /\ step = "indexes"
  /\ indexes' = IF indexes = "absent" THEN "online" ELSE indexes
  /\ \/ /\ MeetsContract(indexes')
        /\ step' = IF phase # "setup" THEN "readiness"
                   ELSE IF Mode = "rebuild" THEN "wipe" ELSE "inspect"
     \/ step' = "failed"
  /\ UNCHANGED <<documents, hotels, offers, threads, recipe, build, phase, todo, running,
                 locals>>

Expected == (IF Mode = "additive" THEN loaded ELSE 0) + Cardinality(Sources)
ReadyByDocuments == CountDocuments = Expected

EachItsHotel == \A a \in documents : Cardinality({h \in hotels : h[1] = a}) = 1

\* The row SOURCE_READINESS_QUERY returns for a source, and the one it should.
SourceRow(f) ==
  [documents |-> Cardinality(DocumentsOf(f)), hotels |-> Cardinality(HotelsOf(f)),
   amenities |-> OfferedBy(f)]
FixtureHolds(f) == SourceRow(f) = [documents |-> 1, hotels |-> 1, amenities |-> Amenities[f]]

\* report_readiness: as many Documents and Hotels as expected, every Document
\* with its own Hotel, and the sources the later modules ask about whole.
Ready ==
  /\ CountDocuments = Expected
  /\ CountHotels = Expected
  /\ EachItsHotel
  /\ \A f \in Fixtures : FixtureHolds(f)

Readiness ==
  /\ step = "readiness"
  /\ Gate(Ready, "ok", {})

\* The cell is interrupted, or the script is killed and its threads with it.
Interrupt ==
  /\ ~Ended
  /\ step' = "interrupted"
  /\ running' = {}
  /\ IF Mode = "additive"
       THEN LeaveBehind({a \in Attempts : Awaited(a) /\ Writing(a)}) /\ UNCHANGED writer
       ELSE /\ writer' = [a \in Attempts |->
                            IF a.build = build /\ Writing(a) THEN "ended" ELSE writer[a]]
            /\ UNCHANGED left
  /\ UNCHANGED <<graph, late, recipe, build, phase, todo, locals>>

BuildStep ==
  \/ Wipe \/ Inspect \/ ClearEntities \/ ClearLexical \/ CountLoaded \/ Plan
  \/ StartDocument \/ IngestEnds \/ RetryNext \/ CheckCanary \/ CheckFailures
  \/ CheckDocuments \/ CheckHotels \/ Materialize \/ CheckAmenities
  \/ EnsureIndexes \/ Readiness

Answered(f) == DocumentDone(f) \/ DocumentFails(f) \/ DocumentTimesOut(f)
Thread(a) == WriteLexical(a) \/ WriteEntities(a) \/ WriterEnds(a)

Next ==
  \/ Start \/ Refuse \/ BuildStep \/ Interrupt
  \/ \E f \in Sources : Answered(f)
  \/ \E a \in Attempts : Thread(a)

\* The build runs on, and wait_for ends every wait.
Fairness == WF_vars(BuildStep) /\ \A f \in Sources : WF_vars(Answered(f))

Spec == Init /\ [][Next]_vars /\ Fairness

(***************************************************************************)
(* Properties.                                                             *)
(***************************************************************************)
\* The additive build deletes and changes nothing but earlier copies of its
\* own sources: what the dump restored stays, amenities it shares included.
RestoredUntouched ==
  \A f \in Restored :
    /\ Loaded(f) \in documents
    /\ <<Loaded(f), 1>> \in hotels
    /\ \A n \in Amenities[f] : <<Loaded(f), n>> \in offers

\* A source never has two Documents, whatever failed, was interrupted, retried,
\* resumed or run again, unless a thread left behind wrote one of them.
OneDocumentPerSource ==
  \A a, c \in documents \ late : a.file = c.file => a = c

\* The graph a build reports as done, at that moment and whatever its own left
\* threads wrote between its gates: each of its sources has one Document
\* written with this build's recipe, one Hotel and exactly its listed
\* amenities, no Hotel is left over, and the indexes meet their contract.
Exact ==
  /\ \A f \in Sources :
       /\ \E a \in documents : DocumentsOf(f) = {a} /\ recipe[a.build] = recipe[build]
       /\ Cardinality(HotelsOf(f)) = 1
       /\ OfferedBy(f) = Amenities[f]
  /\ \A h \in hotels : h[1] \in documents
  /\ MeetsContract(indexes)

SuccessIsExact ==
  [][step # "ok" /\ step' = "ok" /\ (\A a \in late : a.build = build) => Exact']_vars

\* Every build ends: no document waits for ever for a slot or an answer.
BuildEnds == ~Ended ~> Ended

\* Module 1's notebook says the command retries each failed document once.
FailedOnceIsRetried ==
  step = "check_failures" =>
    \A f \in failed : writer[[build |-> build, file |-> f, phase |-> "retry"]] # "none"
================================================================================
