------------------------- MODULE PrebuiltReleaseProofs -------------------------
(***************************************************************************)
(* Proofs about the prebuilt release for any documents, contracts, corpora *)
(* and volumes, and any number of stops, kills and edits.                  *)
(***************************************************************************)
EXTENDS PrebuiltRelease, TLAPS

(***************************************************************************)
(* The parts of the inductive invariant.                                   *)
(***************************************************************************)
\* Until its copy begins, a build has the names of its files to itself.
NamesFree ==
  /\ phase \in {"volume", "prepare", "ingest", "seed", "drop", "dump", "finish", "copy"} =>
       output = None /\ manifest = None
  /\ phase \in {"copied", "verify"} => manifest = None
  /\ phase = "copied" => output \in {None, Partial}

\* What the build has recorded and loaded.
Recorded ==
  /\ phase # "idle" => snapshot \in Recipes
  /\ phase \in {"volume", "prepare"} /\ ~touched =>
       snapshot = <<contract, corpus>> /\ data \in {None, corpus}
  /\ phase \in Phases \ {"idle", "volume", "prepare"} =>
       using \in Recipes /\ (~touched => using = snapshot)

\* How far the graph of its volume has come.
Grown ==
  /\ phase = "ingest" => \A d \in Sources : volume[mine].docs[d] \in {None, using}
  /\ phase \in Phases \ {"idle", "volume", "prepare", "ingest"} =>
       \A d \in Sources : volume[mine].docs[d] = using
  /\ phase \in Phases \ {"idle", "volume", "prepare", "ingest", "seed"} => volume[mine].seeded
  /\ phase \in Phases \ {"idle", "volume", "prepare", "ingest", "seed", "drop"} =>
       ~volume[mine].indexed

\* The dump, its manifest and the published files show that graph.
Shown ==
  /\ phase \in {"finish", "copy", "copied", "verify"} => staged = volume[mine]
  /\ phase \in {"copy", "copied", "verify"} => pending # None /\ pending.candidate = volume[mine]
  /\ phase = "published" => Published /\ manifest.candidate = volume[mine]

Whole(record) ==
  /\ record.candidate.seeded /\ ~record.candidate.indexed
  /\ \E recipe \in Recipes :
       /\ \A d \in Sources : record.candidate.docs[d] = recipe
       /\ ~record.touched => recipe = record.built

RecordsWhole ==
  /\ pending # None => Whole(pending)
  /\ manifest # None => Whole(manifest)

\* While nobody moves the candidate, it stays the one that was restored, or the
\* one whose copy was under way.
Restored ==
  /\ gate = "idle" => ~moved
  /\ gate # "idle" => restored # None
  /\ gate # "written" => wrapper = None
  /\ gate = "restored" /\ ~moved => output = restored \/ restored = Partial
  /\ gate \in {"running", "loaded"} => restored \in Graphs /\ (~moved => output = restored)
  /\ gate = "written" /\ ~moved => wrapper = restored

Agrees == Published => manifest.candidate = output

IInv == TypeOK /\ NamesFree /\ Recorded /\ Grown /\ Shown /\ RecordsWhole /\ Restored /\ Agrees

(***************************************************************************)
(* Types.                                                                  *)
(***************************************************************************)
LEMMA EmptyTyped == EmptyGraph \in Graphs
  BY DEF EmptyGraph, Graphs

\* A build's own volume holds a graph.
LEMMA MineTyped ==
  ASSUME TypeOK, phase \in Owning
  PROVE  mine \in Volumes /\ mine \in attached /\ volume[mine] \in Graphs
  BY DEF TypeOK

LEMMA InitTyped == Init => TypeOK
  <1> SUFFICES ASSUME Init PROVE TypeOK
    OBVIOUS
  <1>1. volume \in [Volumes -> Graphs \union {None, Unlabelled}]
    BY DEF Init
  <1>2. /\ contract \in Contracts /\ corpus \in Corpora /\ data \in Corpora \union {None}
        /\ mine \in Volumes /\ 0 \in 0..MaxFaults
    BY ReleaseAssumption DEF Init
  <1>3. phase \in Phases /\ phase \notin Owning
    BY DEF Init, Phases, Owning
  <1> QED BY <1>1, <1>2, <1>3 DEF Init, TypeOK, Candidates

\* A record of typed parts, put into the build's own volume.
LEMMA BecomesTyped ==
  ASSUME TypeOK, phase \in Owning,
         NEW docs \in [Sources -> Recipes \union {None}],
         NEW seeded \in BOOLEAN, NEW indexed \in BOOLEAN,
         Becomes(docs, seeded, indexed)
  PROVE  /\ volume' \in [Volumes -> Graphs \union {None, Unlabelled}]
         /\ \A v \in attached : volume'[v] \in Graphs
         /\ volume'[mine] = [docs |-> docs, seeded |-> seeded, indexed |-> indexed]
  <1> DEFINE graph == [docs |-> docs, seeded |-> seeded, indexed |-> indexed]
  <1>1. graph \in Graphs
    BY DEF Graphs
  <1>2. volume' = [volume EXCEPT ![mine] = graph]
    BY DEF Becomes
  <1> HIDE DEF graph
  <1>3. volume'[mine] = graph
    BY <1>2, MineTyped DEF TypeOK
  <1>4. /\ volume' \in [Volumes -> Graphs \union {None, Unlabelled}]
        /\ \A v \in attached : volume'[v] \in Graphs
    BY <1>1, <1>2 DEF TypeOK
  <1> QED BY <1>3, <1>4 DEF graph

LEMMA ExitTyped ==
  ASSUME TypeOK, NEW s \in BOOLEAN, phase \in Owning, Exits(s)
  PROVE  /\ phase' = "idle" /\ resume' \in BOOLEAN /\ mine' \in Volumes
         /\ snapshot' = None /\ using' = None /\ staged' = None /\ touched' \in BOOLEAN
         /\ volume' \in [Volumes -> Graphs \union {None, Unlabelled}]
         /\ attached' \subseteq Volumes
         /\ \A v \in attached' : volume'[v] \in Graphs
  <1> USE MineTyped
  <1>1. /\ phase' = "idle" /\ resume' \in BOOLEAN /\ mine' \in Volumes
        /\ snapshot' = None /\ using' = None /\ staged' = None /\ touched' \in BOOLEAN
    BY ReleaseAssumption DEF Exits, Forgets
  <1>2. attached' = attached \ {mine}
    BY DEF Exits
  <1>3. volume' = volume \/ volume' = [volume EXCEPT ![mine] = None]
    BY DEF Exits
  <1>4. volume' \in [Volumes -> Graphs \union {None, Unlabelled}]
    BY <1>3 DEF TypeOK
  <1>5. \A v \in attached' : volume'[v] \in Graphs
    BY <1>2, <1>3 DEF TypeOK
  <1> QED BY <1>1, <1>2, <1>4, <1>5 DEF TypeOK

LEMMA FaultTyped ==
  ASSUME TypeOK, Fault
  PROVE  faults' \in 0..MaxFaults
  BY ReleaseAssumption DEF TypeOK, Fault

LEMMA TypeStep ==
  ASSUME TypeOK, [Next]_vars
  PROVE  TypeOK'
  <1> USE DEF Phases
  <1>1. ASSUME UNCHANGED vars PROVE TypeOK'
    BY <1>1 DEF TypeOK, vars, checkout, docker, files, build, validation
  <1>2. ASSUME NEW r \in BOOLEAN, NEW v \in Volumes, Begin(r, v) PROVE TypeOK'
    <2>1. snapshot' \in Recipes
      BY <1>2 DEF TypeOK, Begin, Recipes, checkout
    <2>2. touched' \in BOOLEAN
      BY <1>2 DEF Begin
    <2>3. snapshot' # None
      BY <2>1, ReleaseAssumption
    <2> QED BY <1>2, <2>1, <2>2, <2>3 DEF TypeOK, Begin, docker, validation, checkout, Owning
  <1>3. CASE Recover
    BY <1>3 DEF TypeOK, Recover, Verifies, checkout, docker, build, validation
  <1>4. CASE RefuseVolume
    BY <1>4, ReleaseAssumption
    DEF TypeOK, RefuseVolume, Exits, Forgets, checkout, files, validation, Owning
  <1>5. CASE TakeVolume
    <2>1. volume' \in [Volumes -> Graphs \union {None, Unlabelled}]
      BY <1>5, EmptyTyped DEF TakeVolume, TypeOK
    <2>2. \A v \in attached' : volume'[v] \in Graphs
      BY <1>5, EmptyTyped DEF TakeVolume, TypeOK, Reusable
    <2> QED BY <1>5, <2>1, <2>2 DEF TypeOK, TakeVolume, checkout, files, validation, Owning
  <1>6. CASE Prepare
    <2> DEFINE kept == IF resume THEN Proven(using') ELSE {}
               docs == [d \in Sources |-> IF d \in kept THEN Graph.docs[d] ELSE None]
               seeded == Graph.seeded /\ \A d \in Sources : Graph.docs[d] # None => d \in kept
    <2>1. phase \in Owning
      BY <1>6 DEF Prepare, Owning
    <2>2. data' \in Corpora /\ using' \in Recipes
      BY <1>6 DEF Prepare, CorpusExtracted, TypeOK, Recipes
    <2>3. docs \in [Sources -> Recipes \union {None}]
      BY <2>1, MineTyped DEF Graph, Graphs
    <2>4. seeded \in BOOLEAN
      BY <2>1, MineTyped DEF Graph, Graphs
    <2>5. Becomes(docs, seeded, TRUE)
      BY <1>6 DEF Prepare
    <2> HIDE DEF docs, seeded
    <2>6. /\ volume' \in [Volumes -> Graphs \union {None, Unlabelled}]
          /\ \A v \in attached : volume'[v] \in Graphs
      BY <2>1, <2>3, <2>4, <2>5, BecomesTyped
    <2> QED BY <1>6, <2>1, <2>2, <2>6, MineTyped
            DEF TypeOK, Prepare, files, validation, Owning
  <1>7. ASSUME NEW d \in Sources, Ingest(d) PROVE TypeOK'
    <2> DEFINE docs == [Graph.docs EXCEPT ![d] = using]
    <2>1. phase \in Owning
      BY <1>7 DEF Ingest, Owning
    <2>2. Graph \in Graphs
      BY <2>1, MineTyped DEF Graph
    <2>3. docs \in [Sources -> Recipes \union {None}]
      BY <2>2 DEF Graphs, TypeOK
    <2>4. Graph.seeded \in BOOLEAN /\ Graph.indexed \in BOOLEAN
      BY <2>2 DEF Graphs
    <2>5. /\ volume' \in [Volumes -> Graphs \union {None, Unlabelled}]
          /\ \A v \in attached : volume'[v] \in Graphs
      BY <1>7, <2>1, <2>3, <2>4, BecomesTyped DEF Ingest
    <2> QED BY <1>7, <2>1, <2>5, MineTyped
            DEF TypeOK, Ingest, Step, checkout, files, validation, Owning
  <1>8. CASE BuildEnds
    BY <1>8 DEF TypeOK, BuildEnds, Step, checkout, files, validation, Owning
  <1>9. CASE Seed \/ DropIndexes
    <2>1. phase \in Owning
      BY <1>9 DEF Seed, DropIndexes, Owning
    <2>2. Graph \in Graphs
      BY <2>1, MineTyped DEF Graph
    <2>3. /\ Graph.docs \in [Sources -> Recipes \union {None}]
          /\ Graph.seeded \in BOOLEAN /\ Graph.indexed \in BOOLEAN
      BY <2>2 DEF Graphs
    <2>4. \/ Becomes(Graph.docs, TRUE, Graph.indexed)
          \/ Becomes(Graph.docs, Graph.seeded, FALSE)
      BY <1>9 DEF Seed, DropIndexes
    <2>5. /\ volume' \in [Volumes -> Graphs \union {None, Unlabelled}]
          /\ \A v \in attached : volume'[v] \in Graphs
      <3>1. CASE Becomes(Graph.docs, TRUE, Graph.indexed)
        BY <2>1, <2>3, <3>1, BecomesTyped
      <3>2. CASE Becomes(Graph.docs, Graph.seeded, FALSE)
        BY <2>1, <2>3, <3>2, BecomesTyped
      <3> QED BY <2>4, <3>1, <3>2
    <2>6. CASE Seed
      BY <2>1, <2>5, <2>6, MineTyped
      DEF TypeOK, Seed, Step, checkout, files, validation, Owning
    <2>7. CASE DropIndexes
      BY <2>1, <2>5, <2>7, MineTyped
      DEF TypeOK, DropIndexes, Step, checkout, files, validation, Owning
    <2> QED BY <1>9, <2>6, <2>7
  <1>10. CASE Dump
    <2>1. staged' \in Graphs
      BY <1>10, MineTyped DEF Dump, Graph, Owning
    <2>2. staged' # None
      BY <2>1, ReleaseAssumption
    <2> QED BY <1>10, <2>1, <2>2 DEF TypeOK, Dump, checkout, docker, files, validation, Owning
  <1>11. CASE FinishManifest
    <2>1. staged \in Graphs /\ snapshot \in Recipes /\ touched \in BOOLEAN
      BY <1>11 DEF TypeOK, FinishManifest
    <2>2. pending' \in Manifests
      BY <1>11, <2>1 DEF FinishManifest, WritesExclusively, Manifests
    <2> QED BY <1>11, <2>2, MineTyped DEF TypeOK, FinishManifest, Step, checkout, validation, Owning
  <1>12. CASE CopyBegins \/ CopyEnds \/ Publish
    BY <1>12
    DEF TypeOK, CopyBegins, CopyEnds, Publish, Verifies, Step, checkout, validation, Owning,
        Candidates
  <1>13. CASE VerifyFails \/ Succeed
    BY <1>13, ExitTyped
    DEF TypeOK, VerifyFails, Succeed, checkout, files, validation, Owning
  <1>14. CASE BeginValidation \/ BeforeGate
    BY <1>14
    DEF TypeOK, BeginValidation, BeforeGate, Validates, checkout, docker, files, build
  <1>15. CASE LoadHeldOut
    BY <1>15 DEF TypeOK, LoadHeldOut, Validates, checkout, docker, files, build
  <1>16. CASE WriteWrapper
    BY <1>16 DEF TypeOK, WriteWrapper, Validates, checkout, docker, files, build
  <1>17. CASE EndValidation
    <2>1. None \in Candidates
      BY DEF Candidates
    <2>2. UNCHANGED <<checkout, docker, files, build, faults>>
      BY <1>17 DEF EndValidation
    <2>3. /\ gate' = "idle" /\ restored' = None /\ report' = "none"
          /\ wrapper' = None /\ moved' \in BOOLEAN
      BY <1>17 DEF EndValidation
    <2> QED BY <2>1, <2>2, <2>3 DEF TypeOK, checkout, docker, files, build
  <1>18. CASE RemoveCandidate \/ RemoveManifest
    <2>1. moved' \in BOOLEAN
      BY <1>18 DEF TypeOK, RemoveCandidate, RemoveManifest, validation
    <2> QED
      BY <1>18, <2>1
      DEF TypeOK, RemoveCandidate, RemoveManifest, checkout, docker, build, validation,
          Candidates
  <1>19. CASE RemoveUnderCopy
    <2>1. moved' \in BOOLEAN
      BY <1>19 DEF TypeOK, RemoveUnderCopy
    <2> QED
      BY <1>19, <2>1, FaultTyped
      DEF TypeOK, RemoveUnderCopy, checkout, docker, build, Candidates
  <1>20. ASSUME NEW v \in Volumes, RemoveContainer(v) \/ RemoveVolume(v) PROVE TypeOK'
    BY <1>20
    DEF TypeOK, RemoveContainer, RemoveVolume, checkout, files, build, validation, Owning
  <1>21. CASE Stop
    <2>1. faults' \in 0..MaxFaults
      BY <1>21, FaultTyped DEF Stop
    <2>2. CASE phase = "volume"
      BY <1>21, <2>1, <2>2, ReleaseAssumption
      DEF TypeOK, Stop, Exits, Forgets, checkout, files, validation, Owning
    <2>3. CASE phase \in Owning
      BY <1>21, <2>1, <2>3, ExitTyped
      DEF TypeOK, Stop, checkout, files, validation, Owning
    <2> QED BY <1>21, <2>2, <2>3 DEF Stop, TypeOK, Owning
  <1>22. CASE Kill
    BY <1>22, ReleaseAssumption, FaultTyped
    DEF TypeOK, Kill, Forgets, checkout, docker, files, validation, Owning
  <1>23. CASE Edit
    BY <1>23, FaultTyped
    DEF TypeOK, Edit, docker, files, validation
  <1> QED
    BY <1>1, <1>2, <1>3, <1>4, <1>5, <1>6, <1>7, <1>8, <1>9, <1>10, <1>11, <1>12, <1>13,
       <1>14, <1>15, <1>16, <1>17, <1>18, <1>19, <1>20, <1>21, <1>22, <1>23
    DEF Next, BuildStep, ValidationStep

(***************************************************************************)
(* The steps that leave the build's own state alone.                       *)
(***************************************************************************)
\* What a validation does, and the clearing up of containers and volumes.
Aside ==
  \/ UNCHANGED vars \/ ValidationStep
  \/ \E v \in Volumes : RemoveContainer(v) \/ RemoveVolume(v)

LEMMA AsideKeeps ==
  ASSUME TypeOK, Aside
  PROVE  /\ UNCHANGED <<checkout, files, build>>
         /\ phase # "idle" => volume' = volume
  <1>1. CASE UNCHANGED vars
    BY <1>1 DEF vars, docker
  <1>2. CASE ValidationStep
    BY <1>2
    DEF ValidationStep, BeginValidation, BeforeGate, LoadHeldOut, WriteWrapper, EndValidation,
        Validates, docker
  <1>3. CASE \E v \in Volumes : RemoveContainer(v) \/ RemoveVolume(v)
    BY <1>3 DEF RemoveContainer, RemoveVolume
  <1> QED BY <1>1, <1>2, <1>3 DEF Aside

\* The build ends, or was not there.
Idles ==
  \/ RefuseVolume \/ VerifyFails \/ Succeed \/ Stop \/ Kill
  \/ Recover \/ RemoveCandidate \/ RemoveManifest

LEMMA IdlesEnd ==
  ASSUME TypeOK, Idles
  PROVE  phase' = "idle"
  BY DEF Idles, RefuseVolume, VerifyFails, Succeed, Stop, Kill, Recover, RemoveCandidate,
     RemoveManifest, Exits, build

(***************************************************************************)
(* Each part of the invariant is kept.                                     *)
(***************************************************************************)
LEMMA NamesFreeStep ==
  ASSUME IInv, [Next]_vars
  PROVE  NamesFree'
  <1> USE DEF IInv
  <1>1. CASE Aside
    BY <1>1, AsideKeeps DEF NamesFree, files, build
  <1>2. CASE Idles
    BY <1>2, IdlesEnd DEF NamesFree
  <1>3. ASSUME NEW r \in BOOLEAN, NEW v \in Volumes, Begin(r, v) PROVE NamesFree'
    BY <1>3 DEF Begin, MayBuild, NamesFree
  <1>4. CASE TakeVolume \/ Prepare \/ BuildEnds \/ Dump
    BY <1>4 DEF TakeVolume, Prepare, BuildEnds, Dump, Step, files, NamesFree
  <1>5. ASSUME NEW d \in Sources, Ingest(d) PROVE NamesFree'
    BY <1>5 DEF Ingest, Step, files, NamesFree
  <1>6. CASE Seed \/ DropIndexes \/ FinishManifest
    BY <1>6 DEF Seed, DropIndexes, FinishManifest, Step, files, NamesFree
  <1>7. CASE CopyBegins \/ CopyEnds \/ Publish
    BY <1>7 DEF CopyBegins, CopyEnds, Publish, Step, NamesFree
  <1>8. CASE Edit \/ RemoveUnderCopy
    BY <1>8 DEF Edit, RemoveUnderCopy, files, build, NamesFree
  <1> QED
    BY <1>1, <1>2, <1>3, <1>4, <1>5, <1>6, <1>7, <1>8
    DEF Next, BuildStep, Aside, Idles

LEMMA RecordedStep ==
  ASSUME IInv, [Next]_vars
  PROVE  Recorded'
  <1> USE DEF IInv, Phases
  <1>1. CASE Aside
    BY <1>1, AsideKeeps DEF Recorded, checkout, build
  <1>2. CASE Idles
    BY <1>2, IdlesEnd DEF Recorded
  <1>3. ASSUME NEW r \in BOOLEAN, NEW v \in Volumes, Begin(r, v) PROVE Recorded'
    <2>1. snapshot' \in Recipes
      BY <1>3 DEF Begin, TypeOK, Recipes
    <2> QED BY <1>3, <2>1 DEF Begin, Recorded, checkout
  <1>4. CASE TakeVolume
    BY <1>4 DEF TakeVolume, Recorded, checkout
  <1>5. CASE Prepare
    <2>1. using' \in Recipes
      BY <1>5 DEF Prepare, CorpusExtracted, TypeOK, Recipes
    <2>2. ~touched => using' = snapshot
      BY <1>5 DEF Prepare, CorpusExtracted, Recorded
    <2> QED BY <1>5, <2>1, <2>2 DEF Prepare, Recorded
  <1>6. ASSUME NEW d \in Sources, Ingest(d) PROVE Recorded'
    BY <1>6 DEF Ingest, Step, Recorded
  <1>7. CASE BuildEnds \/ Seed \/ DropIndexes \/ FinishManifest
    BY <1>7 DEF BuildEnds, Seed, DropIndexes, FinishManifest, Step, Recorded
  <1>8. CASE CopyBegins \/ CopyEnds \/ Publish
    BY <1>8 DEF CopyBegins, CopyEnds, Publish, Step, Recorded
  <1>9. CASE Dump
    BY <1>9 DEF Dump, Recorded
  <1>10. CASE Edit \/ RemoveUnderCopy
    BY <1>10 DEF Edit, RemoveUnderCopy, TypeOK, checkout, build, Recorded
  <1> QED
    BY <1>1, <1>2, <1>3, <1>4, <1>5, <1>6, <1>7, <1>8, <1>9, <1>10
    DEF Next, BuildStep, Aside, Idles

LEMMA GrownStep ==
  ASSUME IInv, [Next]_vars
  PROVE  Grown'
  <1> USE DEF IInv, Phases
  <1>1. CASE Aside
    BY <1>1, AsideKeeps DEF Grown, build
  <1>2. CASE Idles
    BY <1>2, IdlesEnd DEF Grown
  <1>3. ASSUME NEW r \in BOOLEAN, NEW v \in Volumes, Begin(r, v) PROVE Grown'
    BY <1>3 DEF Begin, Grown
  <1>4. CASE TakeVolume
    BY <1>4 DEF TakeVolume, Grown
  <1>5. CASE Prepare
    <2> DEFINE kept == IF resume THEN Proven(using') ELSE {}
               docs == [d \in Sources |-> IF d \in kept THEN Graph.docs[d] ELSE None]
               seeded == Graph.seeded /\ \A d \in Sources : Graph.docs[d] # None => d \in kept
    <2>1. phase \in Owning /\ phase' = "ingest" /\ mine' = mine
      BY <1>5 DEF Prepare, Owning
    <2>2. docs \in [Sources -> Recipes \union {None}] /\ seeded \in BOOLEAN
      BY <2>1, MineTyped DEF Graph, Graphs
    <2>3. \A d \in Sources : docs[d] \in {None, using'}
      BY DEF Proven
    <2>4. Becomes(docs, seeded, TRUE)
      BY <1>5 DEF Prepare
    <2> HIDE DEF docs, seeded
    <2>5. volume'[mine] = [docs |-> docs, seeded |-> seeded, indexed |-> TRUE]
      BY <2>1, <2>2, <2>4, BecomesTyped
    <2> QED BY <2>1, <2>3, <2>5 DEF Grown
  <1>6. ASSUME NEW d \in Sources, Ingest(d) PROVE Grown'
    <2> DEFINE docs == [Graph.docs EXCEPT ![d] = using]
    <2>1. phase \in Owning /\ phase' = "ingest" /\ mine' = mine /\ using' = using
      BY <1>6 DEF Ingest, Step, Owning
    <2>2. Graph \in Graphs
      BY <2>1, MineTyped DEF Graph
    <2>3. docs \in [Sources -> Recipes \union {None}]
      BY <2>2 DEF Graphs, TypeOK
    <2>4. Graph.seeded \in BOOLEAN /\ Graph.indexed \in BOOLEAN
      BY <2>2 DEF Graphs
    <2>5. \A e \in Sources : docs[e] \in {None, using}
      BY <1>6, <2>2 DEF Ingest, Grown, Graph, Graphs
    <2>6. Becomes(docs, Graph.seeded, Graph.indexed)
      BY <1>6 DEF Ingest
    <2> HIDE DEF docs
    <2>7. volume'[mine] = [docs |-> docs, seeded |-> Graph.seeded, indexed |-> Graph.indexed]
      BY <2>1, <2>3, <2>4, <2>6, BecomesTyped
    <2> QED BY <2>1, <2>5, <2>7 DEF Grown
  <1>7. CASE BuildEnds
    BY <1>7 DEF BuildEnds, Step, Grown, Graph
  <1>8. CASE Seed \/ DropIndexes
    <2>1. phase \in Owning /\ mine' = mine /\ using' = using
      BY <1>8 DEF Seed, DropIndexes, Step, Owning
    <2>2. Graph \in Graphs
      BY <2>1, MineTyped DEF Graph
    <2>3. /\ Graph.docs \in [Sources -> Recipes \union {None}]
          /\ Graph.seeded \in BOOLEAN /\ Graph.indexed \in BOOLEAN
      BY <2>2 DEF Graphs
    <2>4. CASE Seed
      <3>1. Becomes(Graph.docs, TRUE, Graph.indexed) /\ phase' = "drop" /\ phase = "seed"
        BY <2>4 DEF Seed, Step
      <3>2. volume'[mine] = [docs |-> Graph.docs, seeded |-> TRUE, indexed |-> Graph.indexed]
        BY <2>1, <2>3, <3>1, BecomesTyped
      <3> QED BY <2>1, <3>1, <3>2 DEF Grown, Graph
    <2>5. CASE DropIndexes
      <3>1. Becomes(Graph.docs, Graph.seeded, FALSE) /\ phase' = "dump" /\ phase = "drop"
        BY <2>5 DEF DropIndexes, Step
      <3>2. volume'[mine] = [docs |-> Graph.docs, seeded |-> Graph.seeded, indexed |-> FALSE]
        BY <2>1, <2>3, <3>1, BecomesTyped
      <3> QED BY <2>1, <3>1, <3>2 DEF Grown, Graph
    <2> QED BY <1>8, <2>4, <2>5
  <1>9. CASE Dump \/ FinishManifest \/ CopyBegins \/ CopyEnds \/ Publish
    BY <1>9 DEF Dump, FinishManifest, CopyBegins, CopyEnds, Publish, Step, docker, Grown
  <1>10. CASE Edit \/ RemoveUnderCopy
    BY <1>10 DEF Edit, RemoveUnderCopy, docker, build, Grown
  <1> QED
    BY <1>1, <1>2, <1>3, <1>4, <1>5, <1>6, <1>7, <1>8, <1>9, <1>10
    DEF Next, BuildStep, Aside, Idles

LEMMA ShownStep ==
  ASSUME IInv, [Next]_vars
  PROVE  Shown'
  <1> USE DEF IInv, Phases
  <1>1. CASE Aside
    BY <1>1, AsideKeeps DEF Shown, Published, files, build
  <1>2. CASE Idles
    BY <1>2, IdlesEnd DEF Shown
  <1>3. ASSUME NEW r \in BOOLEAN, NEW v \in Volumes, Begin(r, v) PROVE Shown'
    BY <1>3 DEF Begin, Shown
  <1>4. CASE TakeVolume \/ Prepare \/ BuildEnds
    BY <1>4 DEF TakeVolume, Prepare, BuildEnds, Step, Shown
  <1>5. ASSUME NEW d \in Sources, Ingest(d) PROVE Shown'
    BY <1>5 DEF Ingest, Step, Shown
  <1>6. CASE Seed \/ DropIndexes
    BY <1>6 DEF Seed, DropIndexes, Step, Shown
  <1>7. CASE Dump
    BY <1>7 DEF Dump, docker, Graph, Shown
  <1>8. CASE FinishManifest
    <2> DEFINE record == [candidate |-> staged, built |-> snapshot, touched |-> touched]
    <2>1. staged \in Graphs /\ snapshot \in Recipes /\ touched \in BOOLEAN
      BY <1>8 DEF TypeOK, FinishManifest
    <2>2. record \in Manifests /\ pending' = record
      BY <1>8, <2>1 DEF FinishManifest, WritesExclusively, Manifests
    <2>3. pending' # None
      BY <2>2, ReleaseAssumption
    <2> QED BY <1>8, <2>2, <2>3 DEF FinishManifest, Step, Shown
  <1>9. CASE CopyBegins \/ CopyEnds
    BY <1>9 DEF CopyBegins, CopyEnds, Step, Shown
  <1>10. CASE Publish
    <2>1. pending.candidate = volume[mine] /\ output = pending.candidate /\ pending # None
      BY <1>10 DEF Publish, Shown, Verifies
    <2>2. volume[mine] \in Graphs
      BY <1>10, MineTyped DEF Publish, Owning
    <2>3. output # None
      BY <2>1, <2>2, ReleaseAssumption
    <2> QED BY <1>10, <2>1, <2>3 DEF Publish, Step, Shown, Published
  <1>11. CASE Edit \/ RemoveUnderCopy
    BY <1>11 DEF Edit, RemoveUnderCopy, docker, files, build, Shown, Published
  <1> QED
    BY <1>1, <1>2, <1>3, <1>4, <1>5, <1>6, <1>7, <1>8, <1>9, <1>10, <1>11
    DEF Next, BuildStep, Aside, Idles

LEMMA RecordsWholeStep ==
  ASSUME IInv, [Next]_vars
  PROVE  RecordsWhole'
  <1> USE DEF IInv, Phases
  <1>1. CASE UNCHANGED <<pending, manifest>>
    BY <1>1 DEF RecordsWhole, Whole
  <1>2. CASE Recover \/ Publish
    BY <1>2 DEF Recover, Publish, RecordsWhole, Whole, Verifies
  <1>3. CASE FinishManifest
    <2> DEFINE record == [candidate |-> staged, built |-> snapshot, touched |-> touched]
    <2>1. pending' = record /\ UNCHANGED manifest
      BY <1>3 DEF FinishManifest, WritesExclusively
    <2>2. staged = volume[mine] /\ using \in Recipes /\ (~touched => using = snapshot)
      BY <1>3 DEF FinishManifest, Shown, Recorded
    <2>3. /\ \A d \in Sources : volume[mine].docs[d] = using
          /\ volume[mine].seeded /\ ~volume[mine].indexed
      BY <1>3 DEF FinishManifest, Grown
    <2>4. Whole(record)
      BY <2>2, <2>3 DEF Whole
    <2> HIDE DEF record
    <2> QED BY <2>1, <2>4 DEF RecordsWhole, Whole
  <1>4. ASSUME NEW r \in BOOLEAN, NEW v \in Volumes, Begin(r, v) PROVE RecordsWhole'
    BY <1>4 DEF Begin, RecordsWhole, Whole
  <1>5. CASE RemoveManifest
    BY <1>5 DEF RemoveManifest, RecordsWhole, Whole
  <1>6. CASE TakeVolume \/ Prepare \/ BuildEnds \/ Seed \/ DropIndexes \/ Dump
    BY <1>6, <1>1 DEF TakeVolume, Prepare, BuildEnds, Seed, DropIndexes, Dump, files
  <1>7. ASSUME NEW d \in Sources, Ingest(d) PROVE RecordsWhole'
    BY <1>7, <1>1 DEF Ingest, files
  <1>8. CASE CopyBegins \/ CopyEnds \/ RemoveUnderCopy \/ RemoveCandidate \/ Edit
    BY <1>8, <1>1 DEF CopyBegins, CopyEnds, RemoveUnderCopy, RemoveCandidate, Edit, files
  <1>9. CASE RefuseVolume \/ VerifyFails \/ Succeed \/ Stop \/ Kill
    BY <1>9, <1>1 DEF RefuseVolume, VerifyFails, Succeed, Stop, Kill, files
  <1>10. CASE Aside
    BY <1>1, <1>10, AsideKeeps DEF files
  <1> QED
    BY <1>2, <1>3, <1>4, <1>5, <1>6, <1>7, <1>8, <1>9, <1>10
    DEF Next, BuildStep, Aside

LEMMA AgreesStep ==
  ASSUME IInv, [Next]_vars
  PROVE  Agrees'
  <1> USE DEF IInv, Phases
  <1>1. CASE UNCHANGED <<output, manifest>>
    BY <1>1 DEF Agrees, Published
  <1>2. CASE Recover \/ Publish
    BY <1>2 DEF Recover, Publish, Verifies, Agrees, Published
  <1>3. CASE RemoveCandidate \/ RemoveManifest \/ RemoveUnderCopy
    BY <1>3 DEF RemoveCandidate, RemoveManifest, RemoveUnderCopy, Agrees, Published
  <1>4. CASE CopyBegins \/ CopyEnds
    BY <1>4 DEF CopyBegins, CopyEnds, NamesFree, Agrees, Published
  <1>5. ASSUME NEW r \in BOOLEAN, NEW v \in Volumes, Begin(r, v) PROVE Agrees'
    BY <1>5, <1>1 DEF Begin
  <1>6. CASE TakeVolume \/ Prepare \/ BuildEnds \/ Seed \/ DropIndexes \/ Dump
    BY <1>6, <1>1 DEF TakeVolume, Prepare, BuildEnds, Seed, DropIndexes, Dump, files
  <1>7. ASSUME NEW d \in Sources, Ingest(d) PROVE Agrees'
    BY <1>7, <1>1 DEF Ingest, files
  <1>8. CASE FinishManifest \/ Edit
    BY <1>8, <1>1 DEF FinishManifest, Edit, files
  <1>9. CASE RefuseVolume \/ VerifyFails \/ Succeed \/ Stop \/ Kill
    BY <1>9, <1>1 DEF RefuseVolume, VerifyFails, Succeed, Stop, Kill, files
  <1>10. CASE Aside
    BY <1>1, <1>10, AsideKeeps DEF files
  <1> QED
    BY <1>2, <1>3, <1>4, <1>5, <1>6, <1>7, <1>8, <1>9, <1>10
    DEF Next, BuildStep, Aside

LEMMA RestoredStep ==
  ASSUME IInv, [Next]_vars
  PROVE  Restored'
  <1> USE DEF IInv, Phases
  <1>1. CASE UNCHANGED <<output, gate, restored, wrapper, moved>>
    BY <1>1 DEF Restored
  <1>2. CASE BeginValidation
    BY <1>2 DEF BeginValidation, Validates, files, Restored
  <1>3. CASE BeforeGate
    BY <1>3, ReleaseAssumption
    DEF BeforeGate, Validates, files, Restored
  <1>4. CASE LoadHeldOut
    BY <1>4 DEF LoadHeldOut, Validates, files, Restored
  <1>5. CASE WriteWrapper
    BY <1>5 DEF WriteWrapper, Validates, files, Restored
  <1>6. CASE EndValidation
    BY <1>6 DEF EndValidation, Restored
  <1>7. CASE RemoveCandidate \/ RemoveUnderCopy
    BY <1>7 DEF RemoveCandidate, RemoveUnderCopy, Restored
  <1>8. CASE CopyBegins \/ CopyEnds
    BY <1>8, ReleaseAssumption
    DEF CopyBegins, CopyEnds, Step, validation, NamesFree, Restored
  <1>9. ASSUME NEW r \in BOOLEAN, NEW v \in Volumes, Begin(r, v) PROVE Restored'
    BY <1>9, <1>1 DEF Begin, validation
  <1>10. CASE TakeVolume \/ Prepare \/ BuildEnds \/ Seed \/ DropIndexes \/ Dump
    BY <1>10, <1>1
    DEF TakeVolume, Prepare, BuildEnds, Seed, DropIndexes, Dump, Step, files, validation
  <1>11. ASSUME NEW d \in Sources, Ingest(d) PROVE Restored'
    BY <1>11, <1>1 DEF Ingest, Step, files, validation
  <1>12. CASE FinishManifest \/ Edit \/ Recover \/ Publish \/ RemoveManifest
    BY <1>12, <1>1
    DEF FinishManifest, Edit, Recover, Publish, RemoveManifest, Step, files, validation
  <1>13. CASE RefuseVolume \/ VerifyFails \/ Succeed \/ Stop \/ Kill
    BY <1>13, <1>1
    DEF RefuseVolume, VerifyFails, Succeed, Stop, Kill, files, validation
  <1>14. ASSUME NEW v \in Volumes, RemoveContainer(v) \/ RemoveVolume(v) PROVE Restored'
    BY <1>14, <1>1 DEF RemoveContainer, RemoveVolume, files, validation
  <1>15. CASE UNCHANGED vars
    BY <1>15, <1>1 DEF vars, files, validation
  <1> QED
    BY <1>2, <1>3, <1>4, <1>5, <1>6, <1>7, <1>8, <1>9, <1>10, <1>11, <1>12, <1>13, <1>14,
       <1>15
    DEF Next, BuildStep, ValidationStep

(***************************************************************************)
(* The invariant, and what follows.                                        *)
(***************************************************************************)
LEMMA InvInit == Init => IInv
  BY InitTyped
  DEF Init, IInv, NamesFree, Recorded, Grown, Shown, RecordsWhole, Restored, Agrees,
      Published, Phases

LEMMA InvStep == IInv /\ [Next]_vars => IInv'
  BY TypeStep, NamesFreeStep, RecordedStep, GrownStep, ShownStep, RecordsWholeStep,
     RestoredStep, AgreesStep
  DEF IInv

LEMMA InvHolds == Spec => []IInv
  BY InvInit, InvStep, PTL DEF Spec

\* build_prebuilt_graph.sh and run_additive_validation.sh keep every variable
\* in its type; an owned volume always holds a graph.
THEOREM TypeCorrect == Spec => []TypeOK
  <1>1. IInv => TypeOK
    BY DEF IInv
  <1> QED BY <1>1, InvHolds, PTL

\* A candidate beside a manifest is the one that manifest describes, after any
\* stops, kills and recoveries of build_prebuilt_graph.sh.
THEOREM PairAlwaysAgrees == Spec => []PairAgrees
  <1>1. IInv => PairAgrees
    BY DEF IInv, Agrees, PairAgrees
  <1> QED BY <1>1, InvHolds, PTL

\* Every manifest that build_prebuilt_graph.sh publishes describes a whole graph
\* made to one recipe.
THEOREM CandidateAlwaysWhole == Spec => []CandidateWhole
  <1>1. IInv => CandidateWhole
    BY DEF IInv, RecordsWhole, Whole, CandidateWhole
  <1> QED BY <1>1, InvHolds, PTL

\* additive-wrapper.json names what run_additive_validation.sh restored, while a
\* build of any length runs beside it.
THEOREM EvidenceAlwaysTrue == Spec => []EvidenceTrue
  <1>1. IInv => EvidenceTrue
    BY DEF IInv, Restored, EvidenceTrue
  <1> QED BY <1>1, InvHolds, PTL

LEMMA KeepStep ==
  ASSUME IInv, [Next]_vars, NEW v \in Volumes,
         phase # "idle", volume[v] # None, volume'[v] = None
  PROVE  v = mine /\ Published /\ manifest.candidate = volume[v]
  <1> USE DEF IInv, Phases
  <1>1. CASE volume' = volume
    BY <1>1
  <1>2. CASE Succeed
    <2>1. phase = "published" /\ volume' = [volume EXCEPT ![mine] = None]
      BY <1>2 DEF Succeed, Exits
    <2>2. v = mine
      BY <2>1 DEF TypeOK
    <2> QED BY <2>1, <2>2 DEF Shown
  <1>3. CASE TakeVolume
    <2>1. EmptyGraph # None
      BY EmptyTyped, ReleaseAssumption
    <2> QED BY <1>3, <2>1 DEF TakeVolume, TypeOK
  <1>4. ASSUME NEW docs, NEW seeded, NEW indexed, phase \in Owning, TypeOK',
               UNCHANGED <<mine, phase>> \/ phase' \in Owning, mine' = mine,
               Becomes(docs, seeded, indexed)
        PROVE FALSE
    <2> DEFINE graph == [docs |-> docs, seeded |-> seeded, indexed |-> indexed]
    <2>1. volume' = [volume EXCEPT ![mine] = graph]
      BY <1>4 DEF Becomes
    <2> HIDE DEF graph
    <2>2. phase' \in Owning
      BY <1>4
    <2>3. volume'[mine] \in Graphs
      BY <1>4, <2>2 DEF TypeOK
    <2>4. v # mine
      BY <2>3, ReleaseAssumption
    <2> QED BY <2>1, <2>4 DEF TypeOK
  <1>5. TypeOK'
    BY TypeStep
  <1>6. CASE Prepare
    BY <1>4, <1>5, <1>6 DEF Prepare, Owning
  <1>7. ASSUME NEW d \in Sources, Ingest(d) PROVE FALSE
    BY <1>4, <1>5, <1>7 DEF Ingest, Step, Owning
  <1>8. CASE Seed \/ DropIndexes
    BY <1>4, <1>5, <1>8 DEF Seed, DropIndexes, Step, Owning
  <1>9. CASE Aside
    BY <1>9, AsideKeeps
  <1>10. ASSUME NEW r \in BOOLEAN, NEW w \in Volumes, Begin(r, w) PROVE FALSE
    BY <1>10 DEF Begin
  <1>11. CASE Recover \/ BuildEnds \/ Dump \/ FinishManifest \/ CopyBegins \/ CopyEnds
    BY <1>11 DEF Recover, BuildEnds, Dump, FinishManifest, CopyBegins, CopyEnds, docker
  <1>12. CASE Publish \/ RefuseVolume \/ VerifyFails \/ Stop \/ Kill
    BY <1>12 DEF Publish, RefuseVolume, VerifyFails, Stop, Kill, Exits, docker
  <1>13. CASE RemoveCandidate \/ RemoveManifest \/ Edit \/ RemoveUnderCopy
    BY <1>13 DEF RemoveCandidate, RemoveManifest, Edit, RemoveUnderCopy, docker
  <1> QED
    BY <1>2, <1>3, <1>6, <1>7, <1>8, <1>9, <1>10, <1>11, <1>12, <1>13
    DEF Next, BuildStep, Aside

\* The exit trap of build_prebuilt_graph.sh takes no volume but the one whose
\* graph is published.
THEOREM CheckpointAlwaysKept == Spec => CheckpointKept
  <1>1. IInv /\ [Next]_vars =>
          [\A v \in Volumes :
             (phase # "idle" /\ volume[v] # None /\ volume'[v] = None) =>
                v = mine /\ Published /\ manifest.candidate = volume[v]]_vars
    BY KeepStep
  <1>2. Spec => [][Next]_vars
    BY DEF Spec
  <1> QED BY <1>1, <1>2, InvHolds, PTL DEF CheckpointKept
================================================================================
