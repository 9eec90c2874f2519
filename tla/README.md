# Neo4j AWS GraphRAG workshop: specifications, checks and proofs

TLA+ models of the program in this repository (paths below are under `src/`),
the TLC configurations that check them on small instances, and proofs that TLAPS
checks for every value of the constants. `PROJECT.json` holds the index:
components, runs, the definition-to-source map, the hazards and the theorems.

Every definition is translated from the code. Where the repository's prose and
its code disagree, the model follows the code, and a run that refutes the prose
records the disagreement (see *Where documentation and code disagree*).

## 1. The system

Hotel documents are extracted into a Neo4j knowledge graph. Retrieval tools and a
booking agent work over that graph. The agent's one write is a reservation
request. Release and deployment tools prepare and publish the graph and the
environments.

| Component | Sources | State | Operations | Status |
|---|---|---|---|---|
| Reservation command | `notebooks/03-grounded-booking-agent/reservation_command.py`, `notebooks/workshop/contracts.py` | `ReservationRequest` nodes, their `FOR_HOTEL` relationships, cached driver and secret | `create_reservation_request`: validate, one managed write transaction, second read after a lost race | modelled |
| Reservation fixtures | `notebooks/workshop/fixtures.py` | constraints, fixture IDs of hotels, the guest-limit `Rule` | `apply_reservation_fixtures`, one transaction after another | modelled |
| Graph build | `notebooks/02-connected-context/graph_builder.py` | Documents, Chunks, entities, the threads that write them | `run_additive_build`, `run_build` (rebuild, resume), `ingest`, `retry_failures`, `clear_document`, gates | partly |
| Amenity materialization | `notebooks/workshop/amenities.py` | `OFFERS_AMENITY` relationships | one transaction per source; comparison with the parsed list | partly |
| Retrieval setup | `notebooks/workshop/retrieval_setup.py` | indexes | index creation, `report_readiness` | partly |
| Graph preparation | `notebooks/02-connected-context/prepare_graph.py` and helpers | the extracted `data/` | index check, rebuild or resume, then seeding | partly |
| Retrieval | `notebooks/workshop/hybrid_retrieval.py`, Lambda tools | cached retrievers and drivers, a one-thread pool per query | `graph_query` under a wall-clock bound, the handlers | partly |
| Booking agent | `notebooks/05-agentcore-deploy/runtime_app/booking_agent.py`, `notebooks/workshop/agent_tools.py` | verified hotels and bounded result recorders of one invocation | `invoke`, request guard, recorders, `create_reservation` | modelled |
| Memory demo | `notebooks/06-neo4j-memory/` | users, conversations, preferences, ownership markers | link and tag writes, recall, five cleanup transactions | partly |
| Gateway deployment | `notebooks/04-production-agent/4.1_agentcore_gateway.ipynb`, `lambda_packaging.py`, Module 5's notebook | secret, role, functions and their containers, Gateway and targets | the notebook's cells, run again over what is there | partly |
| Prebuilt release | `tools/release/` | Docker volumes, scratch dump, candidate, pending and published manifest, evidence | build, resume, recover, publish, validate | partly |
| Release validators | `tools/release/validate_*` | none | compare a restored graph with the archive | partly |
| Own-account deployment | `environment/own-account/deploy.py` | one CloudFormation stack per student, role quota, staged template | deploy, status, delete | modelled |
| Vocareum pin | `environment/vocareum/bump_pin.py` | two files that must agree | write both, check | not modelled |
| Notebook runner, repository checks | `tools/quality/`, `environment/verify.py` | none | sequential comparisons | not modelled |
| Providers, helpers, site, slides, data | | configuration and text | | not modelled |

How they interact:

- **Through the graph.** All components share one Neo4j database and no memory.
  `graph_builder` creates the hotels, `fixtures` marks some of them and writes the
  rule and constraints, `reservation_command` reads all three and writes requests,
  and a rebuild takes the hotels away underneath it.
- **By calls.** A caller invokes the booking agent in its Runtime container; the
  agent's language model asks for read tools and for the command, which the agent
  calls in its own process. A caller that got no answer invokes again with the same
  request ID. `prepare_graph` runs a build and then the seeding.
- **By hooks.** The agent loop runs the tool calls of one model turn concurrently.
  The request guard and the two recorders are callbacks before and after each call
  and share the invocation's state.
- **Through AWS.** The gateway notebook and `deploy.py` send requests that AWS accepts now and
  settles later, also when the sender has stopped; the next run finds whatever came of them.
- **Through files.** A build publishes a dump and then its manifest; a validation, a resumed
  build and a maintainer read and move them.
- **By abandoned work.** `asyncio.wait_for` around `asyncio.to_thread` ends the
  wait and not the thread, so an extraction the builder gave up on may still
  write. `graph_query` abandons a thread in the same way.

What makes it hard: transactions that interleave at statement granularity
under read-committed isolation; commits whose acknowledgement is lost; drivers that run a
transaction function again; setup and clearing made of several transactions with
stops between them; extraction that creates nodes and never merges them, fails halfway,
times out and goes on writing; counts taken early and compared late.

### What correctness means, per component

- *Reservation command*: one node per request ID; an accepted answer is true of the
  graph; nothing is stored above a limit nobody had in force; a retry gets the
  recorded request or an error, never another one; each call is answered.
- *Fixtures*: a stop between any two transactions leaves a graph in which the
  command stays safe; a new run completes it.
- *Graph build*: the restored dump survives additive builds; no source is
  duplicated by retries, resumes and repeated runs; a build that reports success left
  exactly its sources behind; every build ends.
- *Booking agent*: a command runs only with the caller's request ID and a hotel that a
  passage result named before; one ID makes one request over all the caller's retries; a
  reported acceptance is in the graph; an invocation that reports nothing wrote nothing.
- *Memory demo*: cleanup never removes what another user still owns; one that completes
  leaves nothing of the runs that finished before it; a run recalls its own preference and no other's.
- *Prebuilt release*: the manifest beside a candidate describes it; a candidate is whole and of
  one recipe; evidence names what was restored; the volume that extraction was paid for
  survives every failure; resuming comes to a publication.
- *Gateway deployment and retrieval*: tools of a notebook that ended read the secret in force; running it again over
  tools that serve does not interrupt them; it always comes to its end, also beside reads
  the server never answers.
- *Own-account deployment*: the report is true of every student's stack; a class that passed
  the quota check can be built; a second deploy moves nobody to another subnet; delete takes
  every listed stack, and only after a yes.

## 2. Modules

| Module | Role |
|---|---|
| `ReservationContract` | abstract specification: record, replay, refuse, each one atomic step |
| `ReservationFixtures` | setup, rule edits, clear and rebuild of the hotels |
| `Reservation` | EXTENDS the fixtures: deliveries, statement by statement, and failures |
| `MCReservation` | payloads, edited rules and the symmetry of deliveries for TLC |
| `ReservationProofs` | type correctness, the inductive invariant, the safety theorems and the refinement |
| `BookingAgent` | invocations, the model's tool calls, guard and recorders; the command is `ReservationContract` by INSTANCE |
| `RuntimeContract` | abstract specification of the deployed agent: what a caller is sent, told, and finds committed |
| `MCBookingAgent` | write arguments a model may give, symmetry of calls and invocations for TLC |
| `BookingAgentProofs` | type correctness, the inductive invariant, the safety theorems and the refinement of `RuntimeContract` |
| `MemoryDemo` | runs of the memory notebook, cleanups, outsiders |
| `MCMemoryDemo` | symmetry of runs and cleanups for TLC |
| `MemoryDemoProofs` | type correctness, the inductive invariant and the properties |
| `GraphBuild` | the builds, their extraction threads, clears, retries, gates |
| `MCGraphBuild` | sources with amenities and sequences of builds for TLC |
| `GraphBuildProofs` | type correctness, the survival of restored documents, one Document per source |
| `GraphBuildExactProofs` | EXTENDS those: a build that reports success is exact |
| `StructuredRead` | the bounded read of `graph_query` and its abandoned thread |
| `GatewayDeploy` | EXTENDS the read: the gateway notebook, AWS, warm Lambda containers, rotations and cleanups |
| `MCGatewayDeploy` | its instance for TLC |
| `GatewayDeployProofs` | type correctness, the inductive invariant and the safety properties |
| `PrebuiltRelease` | the build script, the additive validation, Docker and the maintainer |
| `MCPrebuiltRelease` | corpora and their lists for TLC |
| `PrebuiltReleaseProofs` | type correctness, the inductive invariant and the safety properties |
| `OwnAccountDeploy` | deploy, status and delete of a class, CloudFormation, the account |
| `MCOwnAccountDeploy` | zones and the symmetry of editions for TLC |
| `OwnAccountDeployProofs` | type correctness, the inductive invariants, the safety and action properties |

### 2.1 Reservation, ReservationFixtures, ReservationContract

A *delivery* is one call of `create_reservation_request`. A caller's retry is
another delivery with the same payload. `pc[d]` names the last statement the delivery has
completed:

| Action | Code |
|---|---|
| `Deliver` | payload validation and the one reading of the date, before any transaction |
| `ReadExisting` | `READ_EXISTING_QUERY`, answer for an existing record, check-in against the date |
| `ReadTargets` | rule and hotel read, and every refusal that follows from them |
| `MatchTargets`, `CreateRequest` | `CREATE_REQUEST_QUERY`, whose MATCH/WHERE and CREATE are told apart because other transactions commit between them |
| `Commit` | end of `execute_write` |
| `ReadDuplicate` | the new session's read after a `ConstraintError` |
| `DriverRetries`, `CallFails`, `StaleDuplicateRead`, `CommitUnacknowledged`, `Crash` | failures, bounded together by `MaxFaults` |

`fixtures.py` is the sequence `StartSetup`, `CreateConstraints` (three), `ResolveFixtures`,
`ApplyFixtureIds`, `UpsertRule`, any of which `AbortSetup` can be the last to follow. `EditRule`,
`ClearHotels` and `RebuildHotels` are what an operator or a graph build does meanwhile.

Neo4j is external and modelled as the code relies on it: read committed with no
read locks; uncommitted nodes are invisible; with a uniqueness constraint the second
creator of a value waits for the first transaction to end (`Claimed`); the driver reruns
a transaction function after a transient failure and never after a commit
whose outcome it does not know. Abstracted: the text of fields (a payload is
`valid`, `malformed` or has `bad_dates`), the wording of messages, caches of
drivers and secrets, log lines.

### 2.2 GraphBuild

`Modes` is the sequence of builds an operator runs, one at a time. An *attempt* is
one extraction of a file in one `ingest` call of one build. `documents`, `hotels`,
`offers` are the graph; an attempt stands for the Document and Chunk it wrote. Each
`step` is one transaction or one decision of the builder:

| Action | Code |
|---|---|
| `Start`, `Interrupt` | a cell or script starts, with every list parsed; it is interrupted, killed or raises |
| `Refuse` | a list that does not parse, a source that is missing or a concurrency out of range: nothing is written |
| `EnsureIndexes` | `create_*_index`, which does nothing where the name is taken, and the check of the contract: before a build in `prepare_graph.py`, after every build |
| `Wipe` | `clear_extracted_graph` |
| `Inspect`, `Plan` | `resumable_paths` and what the resume ingests |
| `ClearEntities`, `ClearLexical` | the two transactions of `clear_document` |
| `CountLoaded` | `already_loaded` |
| `StartDocument`, `DocumentDone`, `DocumentFails`, `DocumentTimesOut`, `IngestEnds` | `ingest` and its semaphore and `wait_for` |
| `WriteLexical`, `WriteEntities`, `WriterEnds` | the pipeline in its thread, awaited or left behind |
| `RetryNext` | `retry_failures` with its recent-write guard and one pass |
| `CheckCanary` ... `Readiness`, `Materialize` | the gates and `materialize_amenities` |

Abstractions, each made so that the model has more behaviours than the code or the
same ones: no clock (a document that did not time out may always have started
recently); what the language model extracts is a number of Hotels, and a gate may
always fail, standing for the content it checks; loops take files in one fixed order;
threads outlive a notebook cell, while a script joins its threads before it exits or
is killed together with them. Narrower than the code: one build at a time (the code takes no
lock; `PROJECT.json` lists two operators at once as an uncovered hazard),
and a Hotel has one Chunk and is not shared between documents. `Ready` includes the
fixture sources that `report_readiness` reads back in full.

Three things the model brings out about the code, each kept in the properties'
wording rather than hidden:

- A thread left behind by an earlier cell can commit its Document between a later
  build's clear and its count. It is then counted as already loaded, and a
  success can be claimed over it. `SuccessIsExact` therefore assumes
  that threads which wrote late belong to the running build. That is the case the
  comment at `graph_builder.py:1056` thinks of.
- A left thread that writes its entities after the clear creates Hotels attached to no
  Document. `clear_document` finds entities through the Document, so no later additive
  build removes them, and the readiness counts fail on each.
- `RECENT_WRITE_SECONDS` (30) defers young documents from the retry; a
  timed-out document is at least `DOC_TIMEOUT_SECONDS` (180) old, so the guard
  never protects against the thread it was written for. `OneDocumentPerSource` therefore
  excepts the documents of late threads.

### 2.3 BookingAgent

An *invocation* is one request to the Runtime, a *call* one tool use the model asks for.
The language model is external: in each turn it may ask for any tools with any arguments,
several at once, or answer in prose. The agent loop is external too, and modelled as the
hooks rely on it: `BeforeToolCallEvent`, the tool, `AfterToolCallEvent`, the calls of a turn
concurrently, the next turn when all have finished.

| Action | Code |
|---|---|
| `Invoke` | `_prompt` and `_request_id`, then a fresh guard, fresh recorders and agent |
| `Turn`, `AskAgain` | one model response with tool uses, and the return to the model |
| `Start` | `ReservationRequestGuard._validate`, which cancels a write or lets it run |
| `ReadReturns` | the read tools' envelopes, `_record_hotel_ids`, the grounding recorder |
| `Command` | `create_reservation`: a step of the contract, then the command recorder |
| `ToolRaises` | an exception, whose prose `_tool_payload` cannot parse |
| `Return`, `Raise`, `Die` | the end of `invoke`, its exception, the loss of the container |

The command appears as `ReservationContract`, not as `Reservation`: the refinement theorem says
that every behaviour of the detailed command is one of the contract's, so that what
holds over the contract holds over the command. The contract's guard `Open` lets a
delivery take effect once, which is what links a call to the request it made.
Abstracted: prose, logging, the record fields of a read result (only the hotel IDs
matter), the driver cached per container.

`RuntimeContract` is what all of this amounts to for a caller. It knows the request ID an invocation
was `sent`, what is `committed`, and the `reply` each invocation came back with; it has no model,
tools, guard or recorders. `ImplementsRuntimeContract` maps `sent` to `callerId`, `committed` to the
requests with the invocation of the call that made them, and `reply` to `command_result` once
`stage` has come to an end. The contract lets an invocation that raised or was lost commit
afterwards: a caller must not take a failure for nothing written. One that returns without a
`command_result` must have written nothing.

What the model brings out:

- The command recorder has one place. When a model writes twice in one invocation,
  the later result displaces the earlier one, and `command_result` may be
  a refusal although the invocation's first write was accepted. `ReportsTrue` is about the
  result that is left. What an acceptance says is true; a refusal says nothing about
  the invocation's other writes.
- An exception in the write tool (no connection settings) leaves no
  `command_result`, like a cancelled call. `SilenceMeansNothingWritten` holds nonetheless, because
  every failure after the connection is made comes back as a recorded error answer.
- Reads beyond `MAX_RECORDED_READ_RESULTS` push out the passage result that justified a write.
  The guard's set still remembers its hotels, the response does not show them.
  `EvidenceReturned` therefore speaks of recorders that are not full.

### 2.4 MemoryDemo

A *run* is one execution of the notebook with its `RUN_ID`, cells in order and once each, as the
notebook asks; `cell[r]` is its next write or check. A *cleanup* is one execution of
`run_cleanup`; `query[c]` is its next query. A message stands for itself and its conversation,
and only the markers on preferences are kept, since cleanup finds users and conversations by
prefix and never reads their markers.

| Action | Code |
|---|---|
| `Say`, `AddPreference` | `add_message` and `add_preference` of neo4j-agent-memory, external |
| `LinkMessage`, `LinkPreference`, `Tag` | the module's own write transactions |
| `Recall`, `Trace` | the actor-anchored reads and the assertions on them |
| `Stop` | a write or assertion that fails, or cells nobody runs |
| `StartCleanup`, `DeleteHotelLinks`, `DeleteSessions`, `DeleteUsers`, `DeleteOrphans`, `RemoveMarkers` | `run_cleanup`, one transaction after the other |
| `StopCleanup` | a failed query or an interrupt between two of them |
| `Share`, `Unshare` | somebody outside the prefix comes to own a preference, or ceases to |

`disturbed`, `sees`, `swept` and `shared` are history for the properties. Each cleanup statement
is one step, though under read committed an owner may be added between its test and its
delete; nothing in the repository adds owners at that time. The final comparison of hotel counts only
reads, and no modelled step touches a hotel.

What the model brings out: cleanup beside a run can leave that run's preference for ever, in two
ways. It may delete the user before the preference is tagged; or its last query may remove the
tag while the user is still there, so that the next cleanup deletes the user and cannot find the
preference. `FinishedRunsRemoved` excepts such runs.

### 2.5 OwnAccountDeploy

A stack is a number: 0 is the plain name, n the name with suffix n. `status` is what
CloudFormation says of it, `live` the template edition and subnet it runs with, `wanted` those of the
request last accepted. `phase` is where the one running command is.

| Action | Code |
|---|---|
| `BeginDeploy`, `CheckRoleHeadroom`, `ResolveParameters`, `StageTemplate`, `Refused` | `deploy` up to its loop: quota, network, bucket, template |
| `CreateStack`, `UpdateStack`, `NothingToUpdate`, `StartFails`, `EndStarts` | `start_stack` and the loop over the class |
| `WaitSucceeds`, `WaitFails`, `Report` | `wait_for_stack`, its loop, outputs or roster, exit code |
| `ShowStatus` | `show_status` |
| `BeginDelete`, `Confirm`, `DeleteStack`, `DeleteRefused`, `EndDeletes`, `WaitGone`, `WaitGoneFails`, `EndDelete` | `delete` |
| `Stop` | Ctrl-C, or an AWS error that only `main` catches |
| `MakeRoles` ... `DeleteFails`, `OthersTakeRole`, `Bystander` | CloudFormation and other people in the account, external |

Creates are sent with `DO_NOTHING`, so none rolls back; a failed create keeps its roles. Abstracted:
`.env` and argument parsing, the roster's text, the waiter's clock (it may give up at any time).

What the model brings out:

- A `ClientError` while `start_stack` describes a stack (`deploy.py:505`) is not a
  `DeployError`: it leaves the loop through `Stop`, and the stacks already started are not waited for. The comment
  at line 574 speaks only of the errors the loop catches.
- `delete` asks nothing when one name matches, "the unambiguous case" (lines 655-656), but that name
  may be a bystander's with the same prefix. `DeleteAsked` says what the code does: listed, and a yes for several.
- The quota check counts roles that exist. Stacks of an interrupted, larger class may still be
  making theirs; `HeadroomHolds` requires that nothing outside the class is under way.
- Within one zone the rotation follows EC2's order. `SeatKept` is checked with one subnet per zone.

### 2.6 GatewayDeploy and StructuredRead

`step` is the notebook's cell, `at` the tool its loop has come to. A *secret* is one of the stable
names the notebook tries in turn, `doomed` while it is in its recovery window. `warm[f]` holds the
passwords that containers of `f` connected with, since `hybrid_retrieval.py` caches secret, driver
and retrievers for the life of a container.

| Action | Code |
|---|---|
| `Begin`, `UpsertSecret`, `RestoreSecret`, `PutRestored`, `NextCandidate`, `NoCandidateLeft` | the secret's cell |
| `EnsureExecutionRole` | the role, created or reused, and its one policy |
| `CreateFunction`, `UpdateCode`, `UpdateConfiguration`, `FunctionActive`, `UpdateConflicts`, `CodeUpdateFailed` | `deploy_function` and its waiters |
| `CheckConfiguration`, `TestFunction`, `ConfirmReadOnly` | the assertions and direct invocations |
| `CreateGateway`, `WaitForGateway`, `CreateTarget`, `WaitForTargets`, `TargetFailed`, `CallThroughGateway` | Gateway, targets, and the calls over MCP |
| `InvokeRecords`, `RecordsReturn`, `RecordsTimeOut`, `CallFails` | `query_hotel_records` and what a caller meets |
| `BeginRead`, `ReadReturns`, `ReadIsLate`, `TimesOut`, `ThreadEnds` | `graph_query`: a new pool of one, `result(timeout)`, `shutdown(wait=False)` |
| `Settle`, `SettleGateway`, `SettleTarget`, `Purge`, `UserCall` | AWS finishing what it accepted; callers |
| `Stop`, `UpdateFails`, `GatewayFails`, `DatabaseIsSlow`, `Rotate`, `RemoveSecret`, `RemoveFunctions`, `RemoveGateway` | faults, rotations and cleanups by hand |

Abstracted: the retries while a new role propagates and the waiters' own limits (`Stop` ends a run
at any step), the read-back of the secret, packaging of the zip files, ranking and query
text. Cleanup by hand is external; the notebook only describes it.

What the model brings out:

- The last waiter waits for an active function, which a function under update is. The check of
  the configuration passes on the accepted settings, and the test after it may be answered with
  the old ones. `ToolsServe` therefore speaks of functions whose update has settled.
- "The first available stable name" keeps reruns consistent as long as no preferred name
  comes free again. When one does, the run takes it, and the tools that served fail until their own updates
  are done. `RerunKeepsServing` excepts that case (`NoBetterName`).
- A target that exists is skipped, also one that failed: no run repairs it, and the participant must
  delete it. The fairness of `RemoveGateway` says so.

### 2.7 PrebuiltRelease

A *recipe* is the contract of the code with an edition of the archive; a graph records by which
recipe each document was made, whether the fixtures were seeded and whether it has indexes. A dump is
the graph it holds.

| Action | Code |
|---|---|
| `Recover`, `Begin` | the checks before a build of `build_prebuilt_graph.sh`, the pending manifest finished or discarded, `start_snapshot` |
| `RefuseVolume`, `TakeVolume` | label and container checks; the Neo4j container starts |
| `Prepare`, `Ingest`, `BuildEnds`, `Seed` | `prepare_graph.py`, extraction of the archive included |
| `DropIndexes`, `Dump`, `FinishManifest` | the end of the build and `final_manifest` |
| `CopyBegins`, `CopyEnds`, `Publish`, `VerifyFails`, `Succeed` | copy, verification, rename, exit trap |
| `BeginValidation`, `BeforeGate`, `LoadHeldOut`, `WriteWrapper`, `EndValidation` | `run_additive_validation.sh` and `.py` with the two validators they call |
| `Stop`, `Kill` | a failing command or Ctrl-C, after which the trap runs; SIGKILL, after which it does not |
| `Edit`, `RemoveCandidate`, `RemoveManifest`, `RemoveContainer`, `RemoveVolume`, `RemoveUnderCopy` | the maintainer |

Abstracted: image builds and digests (the image is inspected by tag after it was built), log files,
ports, the counts (documents stand for what goes with them). One builder at a time: the refusal
at lines 118-127 of the build script looks only at the start. The corpora of the instance differ
in their amenity lists; a change of prose alone is not seen by the gate.

What the model brings out:

- `data/` is extracted only when it has no text files (`prepare_graph.py:70`). A manifest records the
  archive of the checkout, which need not be what was loaded. "Immutable build inputs"
  (`write_prebuilt_manifest.py:78`) are recorded and not frozen. `CandidateWhole` compares recipes
  for builds that were not `touched` in this way; that a candidate is of one recipe holds for all.
- The validation's wrapper hashes the file at the candidate's path at its end
  (`run_additive_validation.sh:189`), not the copy it restored. The build's refusal to replace a
  candidate makes the two agree (`EvidenceTrue`), unless a person moves the file meanwhile.
- The help text says that `--resume` keeps the volume of a failed build; the exit trap keeps it in both
  modes, which `CheckpointKept` relies on. A killed build leaves a container that makes
  `--resume` refuse until somebody removes it.
- A publication completed by `Recover` leaves the checkpoint volume behind.

## 3. Runs

| Run | Question | Bounds |
|---|---|---|
| `reservation` | Do racing deliveries, setup, an edit or clear, and a failure keep `OneNodePerRequestId`, `AcceptedMatchesGraph` and `CommittedUnderLimitInForce`? | 3 deliveries, one request ID with two party sizes and a malformed call, 1 edit, 1 fault |
| `reservation_contract` | Does the command implement the contract, and is every begun delivery answered? | 2 deliveries, every refusal, 2 days, broken rules, 1 edit, 1 fault |
| `reservation_isolation` | Does what a delivery checked still hold when it writes? (It does not.) | 2 deliveries, no edit, no fault |
| `build_additive` | Does the notebook's build, run twice, keep the dump, never duplicate a source, and succeed only when exact? | 2 sources, 1 restored document which shares an amenity and is a fixture, 1 recipe, indexes absent at first, concurrency 2, 2 threads left |
| `build_resume` | Does a rebuild and a resume of it end, and succeed only when exact and of one recipe? | 2 sources, one a fixture, 3 recipes of which one is malformed, indexes absent or of another contract, up to 2 Hotels per document, concurrency 1, 1 thread left |
| `booking_agent` | Do the guard and the recorders keep writes grounded, one per ID, and what is returned true, whatever the model asks for, and is the agent `RuntimeContract` to its caller? | 2 invocations, 1 caller ID, 4 calls, 2 write inputs (the caller's ID and an invented one), 1 hotel, recorder of 2 |
| `memory` | Do runs and a cleanup, stopped and repeated anywhere, remove finished runs, spare outsiders and leave undisturbed runs alone? | 2 runs, 1 cleanup at a time, 1 outsider |
| `memory_stopped` | Is a run that stopped before tagging removed? (Not its preference.) | 1 run, 1 cleanup |
| `own_account` | Is a deploy's report true of each stack, does a class that passed the quota check find its roles, does every student stay where they are, and does delete take what it listed and nothing else? | class of up to 2, 2 subnets in 2 zones, 2 editions, 6 roles, 1 taken by others, 3 commands, 1 bystander |
| `gateway` | Do the tools of an ended notebook serve, does a rerun keep them serving, and does it end? | 2 tools, 2 secret names, 2 passwords, 2 faults |
| `release` | Do candidate, manifest, evidence and checkpoint survive stops, kills, edits and recoveries, and is a candidate published at last? | 2 documents, 2 contracts, 2 archives, 3 volumes of which one is foreign, 2 faults |
| `build_retry` | Is each failed document retried once? (Not always.) | 2 sources, 1 build |

Why the bounds suffice. A lost race needs two creators; the third delivery is the
one that reads while the other two are in different states, or that reuses the ID with other
input. One request ID is the interesting case, since deliveries with different IDs share
only the rule and the hotel, which any of them sees change. One fault puts a failure at every
point of every interleaving, and one edit likewise. Two sources are the least for
which a shared slot, a partial clear, a retained and a missing document, and a retry beside
a success differ; one restored document shares an amenity with one of them. Two builds
in turn are the least in which one repairs what another left. For the agent, four calls are the least
that hold a passage search, a write, a second write that meets the first one's
record in the same or another invocation, and a read that fills the recorder of two
(the code's six, made small so that it overflows). For the memory demo, two runs are the least
of which one is finished while the other writes, or whose preferences could be confused; a
cleanup may start again without bound. Cleanups under way at the same time are left to the proof, which
allows any number of them. For `own_account`, three commands are the least in which one is
stopped, one builds over what it left, and a third deletes both; two students are the least of whom one fails
while the other waits, and with roles for exactly two stacks a third party's role makes the difference. For `gateway`,
two tools tell the loop's first from its last, which reads structured; two names and two passwords are
the least for a name to be skipped and a container to be stale; two faults put a stop after a rotation, a cleanup after a
failed update, and so on. For `release`, two documents tell a partial graph from a whole one, two recipes a mixed one, and two
faults allow a kill followed by an edit before the resume. The proofs remove the bounds
for the properties they cover.

Deadlock is checked for `Reservation`, where setup can always start again.
`GraphBuild` disables it: when the last build has ended and its threads are
done, nothing remains to happen. So does `BookingAgent`: when every invocation has
returned, raised or died, nobody asks for more. It is checked for
`MemoryDemo`, where a cleanup can always start, and for `GatewayDeploy`, `PrebuiltRelease` and
`OwnAccountDeploy`, where somebody can always begin another run or ask for the status.

Each property of a passing run has a mutant in `PROJECT.json`: a plausible bug,
written as an operator beside the definition it replaces (`CreateRequestRetriesInPlace`,
`ConstraintsSkippingRequestId`, `RetryNextKeepingWrites`, `AmenityGoesIfAny`, ...), under
which TLC finds the property violated.

### Fairness

- `Reservation`: `WF(Step(d))` for each delivery. A running call executes its next
  statement; a container is not suspended in the middle of one, and a process that dies is
  `Crash`. Nothing makes a caller call, setup start or a day pass. A wait for another
  delivery's claim ends because the claimant's own steps are fair or it crashes,
  which rolls it back.
- `GraphBuild`: `WF(BuildStep)`, since the builder's own code runs on, and `WF(Answered(f))`,
  since `wait_for` ends every wait with a result, an exception or a timeout. Left threads have no
  fairness; they may stall for ever.

- `GatewayDeploy`: `WF(Begin \/ NotebookStep)`, since the participant runs the cells and, when one raises, the
  notebook again; `WF` of what AWS accepted coming to its end, and of a recovery window's end; `SF(RemoveGateway)`, since a participant who keeps
  meeting a failed Gateway or target deletes it in the end. A late read has no fairness: nothing says that the
  server ever answers it.
- `PrebuiltRelease`: `WF(BuildStep)`; `SF` of a resume of the default checkpoint, since the maintainer
  tries until a candidate is published; `WF` of removing what a refusal names (`InTheWay`) and of the
  containers killed builds left. Faults are bounded, validations need no fairness.
- `BookingAgent`, `MemoryDemo` and `OwnAccountDeploy` state safety only and assume no fairness: a model, a caller, a
  participant or an organiser may do nothing more at any time.

### Where documentation and code disagree

- `reservation_isolation`: Module 3's page says that one transaction prevents
  another request from changing the relevant state between check and write. Read
  committed isolation does not; the code does not depend on it, as it matches again in the
  CREATE and handles the lost race.
- `build_retry`: Module 1's notebook and a comment in the builder say that a failed document is
  retried once. One that failed within 30 seconds after its Document was committed is deferred
  and never retried.

- `memory_stopped`: a comment in `memory_helpers.py` says that cleanup also removes the records of a
  run that failed before the tagging step. It removes all but the preference, which only the tag
  would find.

## 4. Proofs

TLAPS checks the following for any sets of deliveries, payloads, sources and
restored documents, any sequence of builds, any class, tools, volumes and recipes, and any number of edits and failures,
from the named assumptions of the modules (`FixturesAssumption`, `ReservationAssumption`,
`GraphBuildAssumption`, `BookingAgentAssumption`, `MemoryDemoAssumption`, `OwnAccountAssumption`,
`GatewayAssumption`, `ReleaseAssumption`: finite sets, natural-number limits, a nonempty list of amenities per source).

`ReservationProofs`

- `TypeCorrect`: `TypeOK`.
- `Invariance`: the inductive invariant `IInv`. None of the safety properties is
  inductive. Uniqueness fails in an arbitrary state in which the constraint is absent and two
  deliveries hold the same ID, so the invariant records why that state is not
  reached: a delivery past its rule read has seen a rule, a rule is only written by the
  last step of setup, and by then the constraint exists and is never dropped. With the
  constraint, creators that hold an uncommitted node hold distinct, unrecorded IDs. Further
  conjuncts say that a stored record carries the input of the delivery that
  created it, that only a finished delivery is answered, and that a limit that let a
  creator pass is in its `inForce` history.
- `RequestIdsUnique`, `AcceptedAnswersTrue`, `StoredUnderLimit`: the three safety properties,
  each from `IInv`.
- `Refinement`: `Spec => Contract!Spec`. `Commit` and `CommitUnacknowledged` map to
  `Record`, accepted duplicates to `Replay`, other answers to `Refuse`, the rest to stuttering.

`GraphBuildProofs`

- `TypeCorrect`: `TypeOK`, with the loop invariant that a loop at work has a file to
  take, that a retry belongs to the retry phase, and that a wipe happens only in the rebuild's phases.
- `AdditiveKeepsRestored`: if every build is additive, `RestoredUntouched` holds for
  ever. A clear is given only files of `Sources`, which are not `Restored`; it removes an amenity
  offer only when all its documents belong to the cleared file; and the wipe is not reachable.
- `OneDocumentAlways`: `OneDocumentPerSource`. That two Documents are never there says nothing of why the next
  ingest makes no second one; the invariant adds that a Document not `late` was written by an attempt its build awaited,
  and that an ingest takes only files whose Documents have been cleared, wiped or never written, with at most one attempt at each.

`GraphBuildExactProofs`

- `SuccessIsAlwaysExact`: `SuccessIsExact`. The readiness step compares totals: Documents with a base and a number of sources,
  Hotels with Documents. Two counting lemmas turn totals into sets: when each source has a Document of its own, and the total leaves
  room for no more, nothing else is there (`NothingElse`); when each Document has one Hotel, and there are as
  many Hotels as Documents, no Hotel belongs to anything else (`NoneLeftOver`). That the totals
  have a right base is `Baseline`: an additive build counts what it found after the clears, and until it ends only its own threads write.
  `Fresh` says that from the clears on the sources' Documents are of the build's recipe, `HasAmenities` that the amenity comparison,
  once passed, stays true of Documents each source still has, `Clock` and `Kinds` when attempts write and which builds wipe. As in
  the property, threads left by earlier builds may write, but then nothing is claimed of the build they write beside.

`BookingAgentProofs`

- `TypeCorrect`: `TypeOK`, with the recorders' bounds.
- `Invariance`: the inductive invariant. `ReportsTrue` relates the invocation's answer to
  requests that other invocations may have made, so the invariant carries where
  they come from: verified hotels come from a recorded passage result of that invocation;
  each request belongs to a command that ran under its own invocation's caller ID; IDs are
  unique; a command that has finished in an invocation that lives or returned fills the
  recorder; an accepted answer matches a request.
- `Grounded`, `OneRequest`, `AcceptedReports`, `SilentInvocations`: four of the five
  safety invariants, each from the inductive one.
- `EvidenceGoesAlong`: `EvidenceReturned`, the fifth. It needs that nothing has been dropped from a recorder that is
  not full, so that each verified hotel still has the passage result that showed it.
- `RuntimeIsContract`: `ImplementsRuntimeContract`. `Invoke` maps to `Send`, or to a stutter when no ID was sent; a
  command that writes to `Commit`; `Return` to `Confirm`, `Refuse` or `SayNothing` by what the recorder holds; `Raise`, `Die`
  and a refused payload to `Fail`; turns, hooks, reads and all other commands to stuttering. The invariant `CInv` adds to the
  former ones that an invocation not begun has no ID, that no write runs or is recorded without one, and that a recorded
  command was answered. The refusal of a write is then seen to have an ID, and a silent return to have no request of its own.

`MemoryDemoProofs`

- `TypeCorrect`: `TypeOK`, including that links and markers never outlive their preference.
- `Invariance`: `FinishedRunsRemoved` says nothing of a cleanup half done, so the invariant
  carries what each cleanup has removed at each query of the runs that ended before it, that an
  undisturbed run which reached a cell has written what the cells before it write, and that an
  outsider's ownership is remembered in `shared`.
- `FinishedRunsGo`, `UndisturbedRunsPass`, `OutsidersKeep`: the properties of the `memory` run.

`OwnAccountDeployProofs`

- `TypeCorrect`: `TypeOK`.
- `ReportAlwaysTrue`: `ReportTrue`. The invariant says, for each phase, what is known of a name the loops have passed: it
  failed, is still pending with this deploy's request accepted, or has settled with it; CloudFormation's
  own steps keep that, since nobody else sends requests for a class's names.
- `HeadroomAlwaysHolds`: the roles still to be made by the class, with those in use, stay within the quota; counting
  them is an argument on cardinalities.
- `DeleteAlwaysClears`, `DeleteAlwaysAsked`: what `delete` found stays the set of all stacks but bystanders' while it works,
  and its loop holds only names it found, after the consent.
- `SeatAlwaysKept`: `ZonesApart => (Spec => SeatKept)`. The hypothesis is about the account, not the code: AWS gives a
  default VPC one subnet per availability zone, but `default_network` takes every public subnet of it, also a second one that somebody
  added in a zone. The sort keeps EC2's order of those, which two deploys may find different: then an update can ask for another
  subnet. The same instance with both subnets in one zone shows it. Under the hypothesis the sorted rotation is unique (`OneRotation`: at the least place where two
  differ, each would have the subnet of the lower zone first; the least place comes from the library's theorem on the natural order), and each stack,
  whatever stopped or failed since, has and wants the seat its number has in that rotation (`SeatInv`).

`GatewayDeployProofs`

- `TypeCorrect`: `TypeOK`.
- `ToolsAlwaysServe`: `ToolsServe`, from an invariant by steps: past the secret's cell the candidate is live and carries the
  password, past the role's cell the policy grants it, and a function the loop has passed will run with it, in containers
  started since, as long as nobody rotates or removes anything.
- `RerunAlwaysKeepsServing`: a run that began over tools that serve comes to the name in use, so what it grants
  and configures is what they have.

`PrebuiltReleaseProofs`

- `TypeCorrect`: `TypeOK`.
- `PairAlwaysAgrees`, `CandidateAlwaysWhole`, `EvidenceAlwaysTrue`, `CheckpointAlwaysKept`, from one invariant: a build owns its volume
  and nobody else's; what it staged is whole and what its manifest says; a pending or published manifest describes such
  a graph; a candidate with a manifest is not replaced; a validation's copy is the candidate unless it was moved.

Only model-checked: the liveness properties `EveryDeliveryAnswered`, `BuildEnds`, `RerunFinishes` and `ReleaseFinishes`,
since liveness under fairness is out of the prover's reach, as is ENABLED. Every invariant, action property and refinement
that a passing run checks is also proved. Induction over data and RECURSIVE operators are out of reach too; the
modules use neither. The three properties that the code violates are refuted by TLC.

## 5. Not modelled

- `environment/vocareum/bump_pin.py`: sequential. A stop between its two writes leaves a dirty
  tree, which the next run refuses.
- `write_prebuilt_manifest.py recover`: a one-off for a build whose log it demands; it looks for lines the present
  `graph_builder.py` no longer prints, so no present build can reach it.
- `validate_prebuilt_candidate.sh`, `validate_post_restore_indexes.py`: restore, compare, report; no state is kept.
- `lambda_packaging.py`, diagnostics and the Runtime notebook of Module 5: files copied and one toolkit
  command after another.
- Notebook runner, repository checks, `verify.py`: sequential tools that run once and report on text and configuration.
- Model providers and helpers: configuration and display. The one behaviour that reaches the rest, a Bedrock
  call that outlives its await, is `GraphBuild`'s thread left behind.
- The text rules of the amenity parser, dates and IDs: content, with unit tests of their own; the models take their
  outcomes.
- Ranking, prompts, extracted text, display cells, site and slides: no state to check.
- Two builds at once against one database (see the hazards): the code promises nothing there.
- An owner added to a preference within one cleanup statement: nothing in the repository adds owners then.
