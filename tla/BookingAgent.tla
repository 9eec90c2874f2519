----------------------------- MODULE BookingAgent ------------------------------
(***************************************************************************)
(* The Runtime agent, notebooks/05-agentcore-deploy/runtime_app/           *)
(* booking_agent.py: invocations whose language model asks for read tools  *)
(* and for the reservation command in any order and several at once, the   *)
(* guard that binds a write to the caller's request ID and to a hotel the  *)
(* passage tool returned, and the recorders invoke answers from.           *)
(*                                                                         *)
(* The command itself is ReservationContract, which Reservation            *)
(* implements: a call of the write tool is one of its deliveries.          *)
(* External are the model, which may ask for anything, and the agent loop, *)
(* which runs the tool calls of one model turn concurrently and asks the   *)
(* model again when all of them have finished.                             *)
(***************************************************************************)
EXTENDS Naturals, Sequences, FiniteSets

CONSTANTS
  Invocations,      \* Runtime invocations; a caller's retry is one more
  Calls,            \* bound: tool calls of all invocations
  RequestIds,       \* canonical UUIDs
  Hotels,           \* stable hotel IDs
  Inputs,           \* arguments a write call may be given
  MaxReadResults    \* MAX_RECORDED_READ_RESULTS

NoId == "none"      \* the caller sent no request_id

ASSUME BookingAgentAssumption ==
  /\ IsFiniteSet(Calls)
  /\ Inputs # {}
  /\ NoId \notin RequestIds
  /\ MaxReadResults \in Nat \ {0}

VARIABLES
  callerId,         \* request_id of each invocation
  stage,            \* how far it is
  verified,         \* the guard's verified_hotel_ids
  groundingResults, \* results of the grounding recorder, by call
  commandResults,   \* results of the command recorder, by call
  state,            \* how far each tool call is
  invocation,       \* the invocation it belongs to
  tool,             \* the tool it names
  found,            \* hotel IDs its result carries
  payload,          \* arguments of a write call
  requests,         \* committed reservation requests
  answer            \* what the command answered to each write call

Contract == INSTANCE ReservationContract WITH Deliveries <- Calls

recorders == <<verified, groundingResults, commandResults>>
calls == <<state, invocation, tool, found, payload>>
vars == <<callerId, stage, recorders, calls, requests, answer>>

ReadTools == {"search_hotel_passages", "query_hotel_records"}
Tools == ReadTools \union {"create_reservation"}
Ends == {"returned", "raised", "lost"}

Answers ==
  {Contract!Unanswered} \union Contract!Refusals
    \union {Contract!Answer("accepted", "none", d) : d \in BOOLEAN}

TypeOK ==
  /\ callerId \in [Invocations -> RequestIds \union {NoId}]
  /\ stage \in [Invocations -> {"idle", "model", "tools"} \union Ends]
  /\ verified \in [Invocations -> SUBSET Hotels]
  /\ groundingResults \in [Invocations -> Seq(Calls)]
  /\ commandResults \in [Invocations -> Seq(Calls)]
  /\ \A i \in Invocations :
       Len(groundingResults[i]) <= MaxReadResults /\ Len(commandResults[i]) <= 1
  /\ state \in [Calls -> {"free", "asked", "running", "recorded", "skipped", "lost"}]
  /\ invocation \in [Calls -> Invocations]
  /\ tool \in [Calls -> Tools]
  /\ found \in [Calls -> SUBSET Hotels]
  /\ payload \in [Calls -> Inputs]
  /\ requests \subseteq {Contract!Recorded(p, c) : p \in Inputs, c \in Calls}
  /\ answer \in [Calls -> Answers]

\* What a call names is chosen when it is asked for; before, it does not matter.
Init ==
  /\ callerId = [i \in Invocations |-> NoId]
  /\ stage = [i \in Invocations |-> "idle"]
  /\ verified = [i \in Invocations |-> {}]
  /\ groundingResults = [i \in Invocations |-> <<>>]
  /\ commandResults = [i \in Invocations |-> <<>>]
  /\ state = [c \in Calls |-> "free"]
  /\ invocation \in {[c \in Calls |-> i] : i \in Invocations}
  /\ tool = [c \in Calls |-> "query_hotel_records"]
  /\ found = [c \in Calls |-> {}]
  /\ payload = [c \in Calls |-> CHOOSE p \in Inputs : TRUE]
  /\ Contract!Init

CallsOf(i, states) == {c \in Calls : invocation[c] = i /\ state[c] \in states}

(***************************************************************************)
(* invoke and the agent loop.                                              *)
(***************************************************************************)
\* A prompt that is blank, or a request_id that is not a canonical UUID, is
\* refused before there is an agent.
Invoke(i) ==
  /\ stage[i] = "idle"
  /\ \/ /\ \E id \in RequestIds \union {NoId} : callerId' = [callerId EXCEPT ![i] = id]
        /\ stage' = [stage EXCEPT ![i] = "model"]
     \/ /\ stage' = [stage EXCEPT ![i] = "raised"]
        /\ UNCHANGED callerId
  /\ UNCHANGED <<recorders, calls, requests, answer>>

AskFor(i, asked, tools, inputs) ==
  /\ state' = [c \in Calls |-> IF c \in asked THEN "asked" ELSE state[c]]
  /\ invocation' = [c \in Calls |-> IF c \in asked THEN i ELSE invocation[c]]
  /\ tool' = [c \in Calls |-> IF c \in asked THEN tools[c] ELSE tool[c]]
  /\ payload' = [c \in Calls |-> IF c \in DOMAIN inputs THEN inputs[c] ELSE payload[c]]

\* The model's next response asks for one tool call or several.
Turn(i) ==
  /\ stage[i] = "model"
  /\ stage' = [stage EXCEPT ![i] = "tools"]
  /\ \E asked \in SUBSET {c \in Calls : state[c] = "free"} \ {{}} :
       \E t \in [asked -> Tools] :
         \E p \in [{c \in asked : t[c] = "create_reservation"} -> Inputs] :
           AskFor(i, asked, t, p)
  /\ UNCHANGED <<callerId, recorders, found, requests, answer>>

AskAgain(i) ==
  /\ stage[i] = "tools"
  /\ CallsOf(i, {"asked", "running"}) = {}
  /\ stage' = [stage EXCEPT ![i] = "model"]
  /\ UNCHANGED <<callerId, recorders, calls, requests, answer>>

\* The model answers in prose, and invoke returns what the recorders hold.
Return(i) ==
  /\ stage[i] = "model"
  /\ stage' = [stage EXCEPT ![i] = "returned"]
  /\ UNCHANGED <<callerId, recorders, calls, requests, answer>>

\* The model call fails; invoke raises.
Raise(i) ==
  /\ stage[i] = "model"
  /\ stage' = [stage EXCEPT ![i] = "raised"]
  /\ UNCHANGED <<callerId, recorders, calls, requests, answer>>

\* The session's container goes, with everything that runs in it.
Die(i) ==
  /\ stage[i] \in {"model", "tools"}
  /\ stage' = [stage EXCEPT ![i] = "lost"]
  /\ state' = [c \in Calls |-> IF c \in CallsOf(i, {"asked", "running"})
                                 THEN "lost" ELSE state[c]]
  /\ UNCHANGED <<callerId, recorders, invocation, tool, found, payload, requests, answer>>

(***************************************************************************)
(* The hooks around a tool call.                                           *)
(***************************************************************************)
AllowedUnderAnyId(c) ==
  tool[c] = "create_reservation" =>
    /\ callerId[invocation[c]] # NoId
    /\ payload[c].hotel_id \in verified[invocation[c]]

\* ReservationRequestGuard._validate.
Allowed(c) ==
  tool[c] = "create_reservation" =>
    /\ callerId[invocation[c]] # NoId
    /\ payload[c].request_id = callerId[invocation[c]]
    /\ payload[c].hotel_id \in verified[invocation[c]]

\* The result of a cancelled call is prose no recorder keeps.
Start(c) ==
  /\ state[c] = "asked"
  /\ stage[invocation[c]] = "tools"
  /\ state' = [state EXCEPT ![c] = IF Allowed(c) THEN "running" ELSE "skipped"]
  /\ UNCHANGED <<callerId, stage, recorders, invocation, tool, found, payload,
                 requests, answer>>

KeptOneMore(results, c, max) ==
  IF Len(results) > max THEN Tail(Append(results, c)) ELSE Append(results, c)

\* ToolResultRecorder appends, and drops the oldest when there are too many.
Kept(results, c, max) ==
  IF Len(results) + 1 > max THEN Tail(Append(results, c)) ELSE Append(results, c)

RecordHotelIdsOfAnyRead(c, ok, ids) ==
  verified' = [verified EXCEPT ![invocation[c]] = @ \union IF ok THEN ids ELSE {}]

\* ReservationRequestGuard._record_hotel_ids.
RecordHotelIds(c, ok, ids) ==
  verified' = [verified EXCEPT ![invocation[c]] =
                 @ \union IF ok /\ tool[c] = "search_hotel_passages" THEN ids ELSE {}]

\* A read tool returns an envelope: what it found, or an error code.
ReadReturns(c) ==
  /\ state[c] = "running"
  /\ tool[c] \in ReadTools
  /\ \E ok \in BOOLEAN, ids \in SUBSET Hotels :
       /\ ~ok => ids = {}
       /\ found' = [found EXCEPT ![c] = ids]
       /\ RecordHotelIds(c, ok, ids)
  /\ groundingResults' =
       [groundingResults EXCEPT ![invocation[c]] = Kept(@, c, MaxReadResults)]
  /\ state' = [state EXCEPT ![c] = "recorded"]
  /\ UNCHANGED <<callerId, stage, commandResults, invocation, tool, payload,
                 requests, answer>>

\* An exception, which the loop turns into prose: a search that fails, or a
\* command that finds no connection settings.
ToolRaises(c) ==
  /\ state[c] = "running"
  /\ Contract!Open(c)
  /\ state' = [state EXCEPT ![c] = "skipped"]
  /\ UNCHANGED <<callerId, stage, recorders, invocation, tool, found, payload,
                 requests, answer>>

AnsweredUnlessError(c) ==
  IF answer'[c] = Contract!Unanswered
    THEN UNCHANGED <<state, commandResults>>
    ELSE /\ state' = [state EXCEPT ![c] = "recorded"]
         /\ commandResults' =
              IF answer'[c].status = "error" THEN commandResults
              ELSE [commandResults EXCEPT ![invocation[c]] = Kept(@, c, 1)]

\* The command's response is JSON text and is recorded, whatever it says.
Answered(c) ==
  IF answer'[c] = Contract!Unanswered
    THEN UNCHANGED <<state, commandResults>>
    ELSE /\ state' = [state EXCEPT ![c] = "recorded"]
         /\ commandResults' =
              [commandResults EXCEPT ![invocation[c]] = Kept(@, c, 1)]

\* create_reservation: the command takes effect, and mostly answers.
Command(c) ==
  /\ state[c] = "running"
  /\ tool[c] = "create_reservation"
  /\ Contract!Record(c) \/ Contract!Replay(c) \/ Contract!Refuse(c)
  /\ Answered(c)
  /\ UNCHANGED <<callerId, stage, verified, groundingResults, invocation, tool, found>>

Next ==
  \/ \E i \in Invocations :
       Invoke(i) \/ Turn(i) \/ AskAgain(i) \/ Return(i) \/ Raise(i) \/ Die(i)
  \/ \E c \in Calls : Start(c) \/ ReadReturns(c) \/ ToolRaises(c) \/ Command(c)

Spec == Init /\ [][Next]_vars

(***************************************************************************)
(* Properties.                                                             *)
(***************************************************************************)
\* No command runs, whatever the model asks for and however its calls overlap,
\* but with the caller's request ID and a hotel that an earlier passage result
\* of the same invocation carried.
WritesGrounded ==
  \A c \in Calls :
    tool[c] = "create_reservation" /\ state[c] = "running" =>
      /\ payload[c].request_id = callerId[invocation[c]]
      /\ \E k \in CallsOf(invocation[c], {"recorded"}) :
           tool[k] = "search_hotel_passages" /\ payload[c].hotel_id \in found[k]

\* One request per ID a caller sent, over all its retries and all writes the
\* model asks for in each.
OneRequestPerCallerId ==
  \A r, s \in requests :
    callerId[invocation[r.by]] = callerId[invocation[s.by]] => r = s

Returned(i) == stage[i] = "returned"
Result(i) == commandResults[i][Len(commandResults[i])]

\* An accepted command_result is the caller's: a request with its ID is
\* committed, and one that is called new was made by this invocation.
ReportsTrue ==
  \A i \in Invocations :
    Returned(i) /\ commandResults[i] # <<>> /\ answer[Result(i)].status = "accepted" =>
      \E r \in requests :
        /\ r.request_id = callerId[i]
        /\ Contract!SameInput(r, payload[Result(i)])
        /\ ~answer[Result(i)].duplicate => invocation[r.by] = i

\* An invocation that returns no command_result has written nothing.
SilenceMeansNothingWritten ==
  \A i \in Invocations :
    Returned(i) /\ commandResults[i] = <<>> => \A r \in requests : invocation[r.by] # i

\* While the grounding recorder is not full, the response carries the passage
\* result that justifies the write it reports.
EvidenceReturned ==
  \A i \in Invocations :
    Returned(i) /\ commandResults[i] # <<>> /\ Len(groundingResults[i]) < MaxReadResults =>
      \E n \in DOMAIN groundingResults[i] :
        /\ tool[groundingResults[i][n]] = "search_hotel_passages"
        /\ payload[Result(i)].hotel_id \in found[groundingResults[i][n]]

(***************************************************************************)
(* What a caller sees of it.                                               *)
(***************************************************************************)
InputOf(p) ==
  [request_id |-> p.request_id, hotel_id |-> p.hotel_id, check_in |-> p.check_in,
   check_out |-> p.check_out, guests |-> p.guests]

Committed == {[input |-> InputOf(r), by |-> invocation[r.by]] : r \in requests}

Says(kind, status, duplicate, about) ==
  [kind |-> kind, status |-> status, duplicate |-> duplicate, about |-> about]

SaysOfCommand(i) ==
  IF commandResults[i] = <<>> THEN Says("silent", "none", FALSE, {})
  ELSE LET said == answer[Result(i)]
       IN Says("result", said.status, said.duplicate,
               IF said.status = "accepted" THEN {InputOf(payload[Result(i)])} ELSE {})

ReplyTo(i) ==
  CASE Returned(i)                       -> SaysOfCommand(i)
    [] stage[i] \in {"raised", "lost"}   -> Says("failed", "none", FALSE, {})
    [] stage[i] \notin Ends              -> Says("none", "none", FALSE, {})

Runtime == INSTANCE RuntimeContract
             WITH sent <- callerId, committed <- Committed,
                  reply <- [i \in Invocations |-> ReplyTo(i)]

\* To a caller the agent, with its model, overlapping tool calls, guard and
\* recorders, is the contract: one unchanging request per ID, one true reply per
\* invocation.
ImplementsRuntimeContract == Runtime!Spec
================================================================================
