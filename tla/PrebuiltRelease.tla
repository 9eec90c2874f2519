---------------------------- MODULE PrebuiltRelease ----------------------------
(***************************************************************************)
(* tools/release: build_prebuilt_graph.sh builds a graph in a Docker       *)
(* volume with prepare_graph.py and publishes a candidate dump with its    *)
(* manifest; run_additive_validation.sh restores the candidate, adds the   *)
(* held-out documents and writes evidence.  One build and one validation   *)
(* may run at a time, together; each may stop, or be killed, at any step.  *)
(*                                                                         *)
(* External are Docker, and the maintainer, who edits the checkout, moves  *)
(* files after review and removes what a killed build left.                *)
(***************************************************************************)
EXTENDS Naturals, FiniteSets

CONSTANTS
  Sources,      \* documents of the corpus but the held-out ones
  Contracts,    \* build contracts that the checkout's code may have
  Corpora,      \* editions of hotel-faqs.zip
  Lists,        \* the amenity lists of each edition
  Volumes,      \* names of Docker volumes
  Checkpoint,   \* the name that --resume has by default
  Foreign,      \* names of volumes that something else made
  MaxFaults,    \* bound on stops, kills and edits
  None,
  Partial,      \* a file that its copy has not filled yet
  Unlabelled    \* what a volume of something else holds

VARIABLES
  contract,    \* of the checkout's code
  corpus,      \* its archive
  data,        \* the edition extracted into data/, which git ignores
  volume,      \* the graph in each volume
  attached,    \* volumes that a container uses, running or not
  output,      \* the candidate's file
  pending,     \* the hidden manifest
  manifest,    \* the published one
  phase,       \* where the build is
  resume,      \* its --resume
  mine,        \* its volume
  snapshot,    \* what it recorded at its start
  using,       \* contract and documents that prepare_graph.py loaded
  staged,      \* the dump in its scratch directory
  gate,        \* where the validation is
  restored,    \* the copy that it restored
  report,      \* status in additive-validation.json
  wrapper,     \* the candidate that additive-wrapper.json names
  faults,      \* how many so far
  touched,     \* history: the checkout was edited before the build loaded it
  moved        \* history: the candidate was moved under the validation

checkout == <<contract, corpus, data>>
docker == <<volume, attached>>
files == <<output, pending, manifest>>
build == <<phase, resume, mine, snapshot, using, staged, touched>>
validation == <<gate, restored, report, wrapper, moved>>
vars == <<checkout, docker, files, build, validation, faults>>

Recipes == Contracts \X Corpora
Graphs ==
  [docs : [Sources -> Recipes \union {None}], seeded : BOOLEAN, indexed : BOOLEAN]

Manifests == [candidate : Graphs, built : Recipes, touched : BOOLEAN]

ASSUME ReleaseAssumption ==
  /\ Checkpoint \in Volumes \ Foreign
  /\ Foreign \subseteq Volumes
  /\ MaxFaults \in Nat
  /\ None \notin Corpora \union Recipes \union Graphs \union Manifests
  /\ Partial \notin Graphs /\ Unlabelled \notin Graphs
  /\ Partial # None /\ Unlabelled # None

\* A dump is the graph it holds.
Candidates == Graphs \union {None, Partial}

Phases == {"idle", "volume", "prepare", "ingest", "seed", "drop", "dump", "finish", "copy",
           "copied", "verify", "published"}

\* The build owns a container.
Owning == Phases \ {"idle", "volume"}

TypeOK ==
  /\ contract \in Contracts
  /\ corpus \in Corpora
  /\ data \in Corpora \union {None}
  /\ volume \in [Volumes -> Graphs \union {None, Unlabelled}]
  /\ attached \subseteq Volumes
  /\ output \in Candidates
  /\ pending \in Manifests \union {None}
  /\ manifest \in Manifests \union {None}
  /\ phase \in Phases
  /\ resume \in BOOLEAN
  /\ mine \in Volumes
  /\ snapshot \in Recipes \union {None}
  /\ using \in Recipes \union {None}
  /\ staged \in Graphs \union {None}
  /\ touched \in BOOLEAN
  /\ gate \in {"idle", "restored", "running", "loaded", "written"}
  /\ restored \in Candidates
  /\ report \in {"none", "running", "failed", "passed"}
  /\ wrapper \in Candidates
  /\ moved \in BOOLEAN
  /\ faults \in 0..MaxFaults
  /\ \A v \in attached : volume[v] \in Graphs
  /\ phase \in Owning => mine \in attached
  /\ phase # "idle" => snapshot # None
  /\ phase \in {"finish", "copy", "copied", "verify"} => staged # None

Init ==
  /\ contract \in Contracts /\ corpus \in Corpora
  /\ data \in {None, corpus}
  /\ volume = [v \in Volumes |-> IF v \in Foreign THEN Unlabelled ELSE None]
  /\ attached = {}
  /\ output = None /\ pending = None /\ manifest = None
  /\ phase = "idle" /\ resume = FALSE /\ mine = Checkpoint
  /\ snapshot = None /\ using = None /\ staged = None
  /\ touched = FALSE
  /\ gate = "idle" /\ restored = None /\ report = "none" /\ wrapper = None
  /\ moved = FALSE
  /\ faults = 0

(***************************************************************************)
(* build_prebuilt_graph.sh                                                 *)
(***************************************************************************)
\* verify_candidate_manifest: size and checksum of the copied file.
Verifies == pending # None /\ output = pending.candidate

\* A publication that stopped between the copy and the rename is finished.
Recover ==
  /\ phase = "idle"
  /\ output # None /\ manifest = None /\ Verifies
  /\ manifest' = pending /\ pending' = None
  /\ UNCHANGED <<checkout, docker, output, build, validation, faults>>

\* Nothing is published yet.
MayBuildDespiteManifest == output = None

MayBuildDespiteCandidate == manifest = None

MayBuild == output = None /\ manifest = None

Forgets ==
  /\ resume' = FALSE /\ mine' = Checkpoint
  /\ snapshot' = None /\ using' = None /\ staged' = None /\ touched' = FALSE

\* A pending manifest without its candidate is discarded; start_snapshot records
\* the checkout.
Begin(r, v) ==
  /\ phase = "idle"
  /\ MayBuild
  /\ r \/ (v # Checkpoint /\ volume[v] = None)
  /\ pending' = None
  /\ phase' = "volume" /\ resume' = r /\ mine' = v
  /\ snapshot' = <<contract, corpus>>
  /\ touched' = (data \notin {None, corpus})
  /\ UNCHANGED <<checkout, docker, output, manifest, using, staged, validation, faults>>

ExitsWithoutVolume(succeeded) ==
  /\ phase' = "idle"
  /\ attached' = IF phase \in Owning THEN attached \ {mine} ELSE attached
  /\ volume' = IF phase \in Owning THEN [volume EXCEPT ![mine] = None] ELSE volume
  /\ Forgets

ExitsLeavingContainer(succeeded) ==
  /\ phase' = "idle"
  /\ attached' = attached
  /\ volume' = IF succeeded THEN [volume EXCEPT ![mine] = None] ELSE volume
  /\ Forgets

\* The exit trap: no container stays, and the volume only goes when the build
\* has succeeded.
Exits(succeeded) ==
  /\ phase' = "idle"
  /\ attached' = IF phase \in Owning THEN attached \ {mine} ELSE attached
  /\ volume' = IF succeeded THEN [volume EXCEPT ![mine] = None] ELSE volume
  /\ Forgets

ReusableWhenEmpty(v) == volume[v] \in Graphs /\ \A d \in Sources : volume[v].docs[d] = None

\* A labelled volume that no container uses.
Reusable(v) == volume[v] \in Graphs /\ v \notin attached

RefuseVolume ==
  /\ phase = "volume"
  /\ volume[mine] # None /\ ~Reusable(mine)
  /\ Exits(FALSE)
  /\ UNCHANGED <<checkout, files, validation, faults>>

EmptyGraph == [docs |-> [d \in Sources |-> None], seeded |-> FALSE, indexed |-> FALSE]

TakeVolume ==
  /\ phase = "volume"
  /\ volume[mine] = None \/ Reusable(mine)
  /\ volume' = [volume EXCEPT ![mine] = IF @ = None THEN EmptyGraph ELSE @]
  /\ attached' = attached \union {mine}
  /\ phase' = "prepare"
  /\ UNCHANGED <<checkout, files, resume, mine, snapshot, using, staged, touched,
                 validation, faults>>

Graph == volume[mine]
Step(next) ==
  /\ phase' = next
  /\ UNCHANGED <<checkout, attached, resume, mine, snapshot, touched, validation, faults>>

Becomes(docs, seeded, indexed) ==
  volume' = [volume EXCEPT ![mine] =
               [docs |-> docs, seeded |-> seeded, indexed |-> indexed]]

ProvenByText(recipe) == {d \in Sources : Graph.docs[d] # None /\ Graph.docs[d][2] = recipe[2]}

\* What --resume keeps: documents of this contract and these bytes.
Proven(recipe) == {d \in Sources : Graph.docs[d] = recipe}

\* The archive is only extracted over an empty data/.
CorpusExtracted == IF data = None THEN corpus ELSE data

\* prepare_graph.py: --rebuild clears the graph, and --resume what it cannot prove.
Prepare ==
  /\ phase = "prepare"
  /\ data' = CorpusExtracted
  /\ using' = <<contract, data'>>
  /\ LET kept == IF resume THEN Proven(using') ELSE {}
     IN Becomes([d \in Sources |-> IF d \in kept THEN Graph.docs[d] ELSE None],
                Graph.seeded /\ (\A d \in Sources : Graph.docs[d] # None => d \in kept),
                TRUE)
  /\ phase' = "ingest"
  /\ UNCHANGED <<contract, corpus, attached, files, resume, mine, snapshot, staged,
                 touched, validation, faults>>

Ingest(d) ==
  /\ phase = "ingest"
  /\ Graph.docs[d] = None
  /\ Becomes([Graph.docs EXCEPT ![d] = using], Graph.seeded, Graph.indexed)
  /\ Step("ingest")
  /\ UNCHANGED <<files, using, staged>>

BuildEnds ==
  /\ phase = "ingest"
  /\ \A d \in Sources : Graph.docs[d] # None
  /\ Step("seed")
  /\ UNCHANGED <<volume, files, using, staged>>

Seed ==
  /\ phase = "seed"
  /\ Becomes(Graph.docs, TRUE, Graph.indexed)
  /\ Step("drop")
  /\ UNCHANGED <<files, using, staged>>

DropIndexes ==
  /\ phase = "drop"
  /\ Becomes(Graph.docs, Graph.seeded, FALSE)
  /\ Step("dump")
  /\ UNCHANGED <<files, using, staged>>

Dump ==
  /\ phase = "dump"
  /\ staged' = Graph
  /\ phase' = "finish"
  /\ UNCHANGED <<checkout, docker, files, resume, mine, snapshot, using, touched, validation,
                 faults>>

\* Written aside, then linked, which replaces nothing.
WritesExclusively(value) == pending = None /\ pending' = value

\* final_manifest.
FinishManifest ==
  /\ phase = "finish"
  /\ WritesExclusively([candidate |-> staged, built |-> snapshot, touched |-> touched])
  /\ Step("copy")
  /\ UNCHANGED <<volume, output, manifest, using, staged>>

CopyBegins ==
  /\ phase = "copy"
  /\ output' = Partial
  /\ Step("copied")
  /\ UNCHANGED <<volume, pending, manifest, using, staged>>

\* cp writes on into a file that is moved meanwhile.
CopyEnds ==
  /\ phase = "copied"
  /\ output' = IF output = None THEN None ELSE staged
  /\ Step("verify")
  /\ UNCHANGED <<volume, pending, manifest, using, staged>>

Publish ==
  /\ phase = "verify"
  /\ Verifies
  /\ manifest' = pending /\ pending' = None
  /\ Step("published")
  /\ UNCHANGED <<volume, output, using, staged>>

VerifyFails ==
  /\ phase = "verify"
  /\ ~Verifies
  /\ Exits(FALSE)
  /\ UNCHANGED <<checkout, files, validation, faults>>

Succeed ==
  /\ phase = "published"
  /\ Exits(TRUE)
  /\ UNCHANGED <<checkout, files, validation, faults>>

BuildStep ==
  \/ Recover \/ RefuseVolume \/ TakeVolume \/ Prepare
  \/ BuildEnds \/ Seed \/ DropIndexes \/ Dump
  \/ FinishManifest \/ CopyBegins \/ CopyEnds \/ Publish \/ VerifyFails \/ Succeed
  \/ \E d \in Sources : Ingest(d)

(***************************************************************************)
(* run_additive_validation.sh                                              *)
(***************************************************************************)
Validates(next) ==
  /\ gate' = next
  /\ UNCHANGED <<checkout, docker, files, build, faults, moved>>

\* A new evidence directory, and a copy of the candidate.
BeginValidation ==
  /\ gate = "idle"
  /\ output # None
  /\ restored' = output
  /\ Validates("restored")
  /\ UNCHANGED <<report, wrapper>>

\* The amenities of every document, against the archive of the checkout.
Reconciles(graph) ==
  \A d \in Sources : graph.docs[d] # None /\ Lists[graph.docs[d][2]] = Lists[corpus]

\* What the release queries read.  Chunks, Hotels and offers go with a document.
DocumentsIn(graph) == {d \in Sources : graph.docs[d] # None}

\* validate_prebuilt_candidate.py.
CandidatePasses == DocumentsIn(restored) = Sources

\* graph_counts, against PREBUILT_COUNTS before the load and FULL_COUNTS after.
CountsHold == Cardinality(DocumentsIn(restored)) = Cardinality(Sources)

\* The dump loads, both validators pass, and so do the counts before.
BeforeGate ==
  /\ gate = "restored"
  /\ restored \in Graphs
  /\ Reconciles(restored) /\ CandidatePasses
  /\ CountsHold
  /\ report' = "running"
  /\ Validates("running")
  /\ UNCHANGED <<restored, wrapper>>

\* load_held_out_hotels.py succeeds or fails, and the run goes on to count and
\* reconcile.
LoadHeldOut ==
  /\ gate = "running"
  /\ \E loaded \in BOOLEAN :
       report' = IF loaded /\ CountsHold /\ Reconciles(restored) THEN "passed" ELSE "failed"
  /\ Validates("loaded")
  /\ UNCHANGED <<restored, wrapper>>

\* The wrapper names the file that is at the candidate's path now.
WriteWrapper ==
  /\ gate = "loaded"
  /\ report = "passed" /\ output # None
  /\ wrapper' = output
  /\ Validates("written")
  /\ UNCHANGED <<restored, report>>

\* Done; or a dump that cannot be loaded, a gate that fails, an interruption.
EndValidation ==
  /\ gate # "idle"
  /\ gate' = "idle"
  /\ restored' = None /\ report' = "none" /\ wrapper' = None /\ moved' = FALSE
  /\ UNCHANGED <<checkout, docker, files, build, faults>>

ValidationStep ==
  BeginValidation \/ BeforeGate \/ LoadHeldOut \/ WriteWrapper \/ EndValidation

(***************************************************************************)
(* The maintainer, and what may go wrong.                                  *)
(***************************************************************************)
\* After review, or because a build refused to go on.
RemoveCandidate ==
  /\ phase = "idle" /\ output # None
  /\ output' = None
  /\ moved' = (moved \/ gate # "idle")
  /\ UNCHANGED <<checkout, docker, pending, manifest, build, gate, restored, report, wrapper,
                 faults>>

RemoveManifest ==
  /\ phase = "idle" /\ manifest # None
  /\ manifest' = None
  /\ UNCHANGED <<checkout, docker, output, pending, build, validation, faults>>

\* The container of a killed build.
RemoveContainer(v) ==
  /\ v \in attached /\ ~(phase \in Owning /\ v = mine)
  /\ attached' = attached \ {v}
  /\ UNCHANGED <<checkout, volume, files, build, validation, faults>>

\* A retained volume that nobody will resume.
RemoveVolume(v) ==
  /\ volume[v] \in Graphs /\ v \notin attached /\ phase = "idle"
  /\ volume' = [volume EXCEPT ![v] = None]
  /\ UNCHANGED <<checkout, attached, files, build, validation, faults>>

Fault == faults < MaxFaults /\ faults' = faults + 1

\* Ctrl-C, or a command of the script that fails: the trap runs.
Stop ==
  /\ Fault
  /\ phase # "idle"
  /\ Exits(FALSE)
  /\ UNCHANGED <<checkout, files, validation>>

\* No trap runs.
Kill ==
  /\ Fault
  /\ phase # "idle"
  /\ phase' = "idle" /\ Forgets
  /\ UNCHANGED <<checkout, docker, files, validation>>

Edit ==
  /\ Fault
  /\ \/ contract' \in Contracts \ {contract} /\ UNCHANGED <<corpus, data>>
     \/ corpus' \in Corpora \ {corpus} /\ UNCHANGED <<contract, data>>
     \/ phase # "ingest" /\ data # None /\ data' = None /\ UNCHANGED <<contract, corpus>>
  /\ touched' = (touched \/ phase \in {"volume", "prepare"})
  /\ UNCHANGED <<docker, files, phase, resume, mine, snapshot, using, staged, validation>>

RemoveUnderCopy ==
  /\ Fault
  /\ phase \in {"copied", "verify"} /\ output # None
  /\ output' = None
  /\ moved' = (moved \/ gate # "idle")
  /\ UNCHANGED <<checkout, docker, pending, manifest, build, gate, restored, report, wrapper>>

Next ==
  \/ \E r \in BOOLEAN, v \in Volumes : Begin(r, v)
  \/ BuildStep \/ ValidationStep
  \/ RemoveCandidate \/ RemoveManifest
  \/ \E v \in Volumes : RemoveContainer(v) \/ RemoveVolume(v)
  \/ Stop \/ Kill \/ Edit \/ RemoveUnderCopy

\* The files that make a build refuse to begin and that no run can complete.
InTheWay ==
  \/ output # None /\ manifest = None /\ ~Verifies /\ RemoveCandidate
  \/ output = None /\ RemoveManifest

\* The maintainer resumes until a candidate is published and does what a refusal
\* says.
Fairness ==
  /\ WF_vars(BuildStep)
  /\ SF_vars(Begin(TRUE, Checkpoint))
  /\ WF_vars(InTheWay)
  /\ WF_vars(\E v \in Volumes : RemoveContainer(v))

Spec == Init /\ [][Next]_vars /\ Fairness

(***************************************************************************)
(* Properties.                                                             *)
(***************************************************************************)
Published == output # None /\ manifest # None

\* Whatever stopped before, a candidate that stands beside a manifest is the one
\* the manifest describes.
PairAgrees == Published => manifest.candidate = output

\* A candidate that has a manifest holds every document, all made to one recipe,
\* with the fixtures and without the indexes, however many builds, resumed after
\* whatever edits, it took; the recipe is the recorded one, unless the checkout was
\* edited between the record and the load or data/ held another corpus.
CandidateWhole ==
  manifest # None =>
    LET graph == manifest.candidate
    IN /\ graph.seeded /\ ~graph.indexed
       /\ \E recipe \in Recipes :
            /\ \A d \in Sources : graph.docs[d] = recipe
            /\ ~manifest.touched => recipe = manifest.built

\* A build removes its volume, which holds what extraction cost, only when the
\* candidate made from it is published; and never another's.
CheckpointKept ==
  [][\A v \in Volumes :
       (phase # "idle" /\ volume[v] # None /\ volume'[v] = None) =>
          v = mine /\ Published /\ manifest.candidate = volume[v]]_vars

\* What a validation put its name to is what it restored, though builds go on
\* meanwhile, unless the maintainer moved the candidate under it.
EvidenceTrue == wrapper # None /\ ~moved => wrapper = restored

\* From whatever stops, kills, partial copies and stale containers left, resuming
\* publishes a candidate.
ReleaseFinishes == []<>Published
================================================================================
