------------------------------ MODULE Reservation ------------------------------
(***************************************************************************)
(* The reservation command, create_reservation_request in                  *)
(* notebooks/03-grounded-booking-agent/reservation_command.py, running in  *)
(* several deliveries at once against one Neo4j database whose fixtures    *)
(* (ReservationFixtures) are prepared, edited and rebuilt meanwhile.       *)
(*                                                                         *)
(* The database is external.  As the code relies on it: a statement reads  *)
(* what is committed when it runs and keeps no read lock; a created node   *)
(* is invisible to others until its transaction commits; with the          *)
(* uniqueness constraint, a second creator of a request ID waits for the   *)
(* first to commit or roll back; the driver retries a transaction function *)
(* from its start after a transient failure, and never after a commit      *)
(* whose outcome it does not know.                                         *)
(***************************************************************************)
EXTENDS ReservationFixtures, FiniteSets

CONSTANTS
  Deliveries,      \* calls of the command; a caller's retry is one more
  Payloads,        \* inputs a call may carry
  LastDay,         \* bound: the clock stops on this day
  MaxFaults        \* bound: failures of the database, network or process

ASSUME ReservationAssumption ==
  /\ IsFiniteSet(Deliveries)
  /\ \A p \in Payloads : p.check_in \in Nat /\ p.check_out \in Nat /\ p.guests \in Int
  /\ LastDay \in Nat
  /\ MaxFaults \in Nat

VARIABLES
  today,           \* the date
  payload,         \* input of each delivery
  pc,              \* last statement each delivery has completed
  calledOn,        \* effective_today of each delivery
  answer,          \* its response
  requests,        \* committed ReservationRequest nodes, by their creator
  forHotel,        \* creators whose node still has its FOR_HOTEL relationship
  faults,          \* failures so far
  inForce          \* history: limits enabled since a delivery's attempt began

commandVars == <<payload, pc, calledOn, answer, requests, forHotel, inForce>>
vars == <<fixtureVars, today, payload, pc, calledOn, answer, requests, forHotel,
          faults, inForce>>

Contract == INSTANCE ReservationContract
Answer(status, reason, duplicate) == Contract!Answer(status, reason, duplicate)
Accepted(duplicate) == Answer("accepted", "none", duplicate)
Rejected(reason) == Answer("rejected", reason, FALSE)
Failed(reason) == Answer("error", reason, FALSE)
Unanswered == Contract!Unanswered
SameInput(a, b) == Contract!SameInput(a, b)

Answers ==
  {Unanswered}
    \union {Accepted(dup) : dup \in BOOLEAN}
    \union {Rejected(r) : r \in {"invalid_dates", "unknown_hotel", "max_guests_exceeded"}}
    \union {Failed(r) : r \in {"service_error", "unauthorized"}}

InWrite == {"begin", "existing_read", "targets_read", "matched", "created"}
Stages == InWrite \union {"idle", "read_duplicate", "done", "lost"}

TypeOK ==
  /\ FixturesTypeOK
  /\ today \in 0 .. LastDay
  /\ payload \in [Deliveries -> Payloads]
  /\ pc \in [Deliveries -> Stages]
  /\ calledOn \in [Deliveries -> 0 .. LastDay]
  /\ answer \in [Deliveries -> Answers]
  /\ requests \subseteq {Contract!Recorded(p, d) : p \in Payloads, d \in Deliveries}
  /\ forHotel \subseteq Deliveries
  /\ faults \in Nat
  /\ inForce \in [Deliveries -> SUBSET Nat]

EnabledRules == {r \in rules : r.enabled}
EnabledLimits == {r.max_guests : r \in EnabledRules}

Init ==
  /\ FixturesInit
  /\ today = 0
  /\ payload \in [Deliveries -> Payloads]
  /\ pc = [d \in Deliveries |-> "idle"]
  /\ calledOn = [d \in Deliveries |-> 0]
  /\ Contract!Init
  /\ forHotel = {}
  /\ faults = 0
  /\ inForce = [d \in Deliveries |-> {}]

(***************************************************************************)
(* Steps of one delivery.                                                  *)
(***************************************************************************)
Respond(d, a) ==
  /\ pc' = [pc EXCEPT ![d] = "done"]
  /\ answer' = [answer EXCEPT ![d] = a]

Advance(d, stage) ==
  /\ pc' = [pc EXCEPT ![d] = stage]
  /\ UNCHANGED answer

\* A payload outside the closed contract is an error; dates outside theirs are
\* a rejection.  The other fields are checked before the dates.
Validate(p) ==
  IF p.form = "malformed" \/ p.guests < 1 THEN Failed("service_error")
  ELSE IF p.form = "bad_dates" \/ p.check_out <= p.check_in
         THEN Rejected("invalid_dates")
         ELSE Unanswered

\* The call arrives; the date is read once, before any transaction.
Deliver(d) ==
  /\ pc[d] = "idle"
  /\ calledOn' = [calledOn EXCEPT ![d] = today]
  /\ IF Validate(payload[d]) = Unanswered
       THEN Advance(d, "begin")
       ELSE Respond(d, Validate(payload[d]))
  /\ inForce' = [inForce EXCEPT ![d] = EnabledLimits]
  /\ UNCHANGED <<fixtureVars, today, payload, requests, forHotel, faults>>

Existing(id) == {r \in requests : r.request_id = id}

ExistingResponseIgnoringGuests(r, p) ==
  IF r.by \in forHotel /\ SameInput([r EXCEPT !.guests = p.guests], p)
    THEN Accepted(TRUE)
    ELSE Failed("service_error")

ExistingResponseRejecting(r, p) ==
  IF r.by \in forHotel /\ SameInput(r, p)
    THEN Accepted(TRUE)
    ELSE Rejected("service_error")

\* A record that lost its hotel violates the contract, one with other input
\* conflicts; both are answered as a service error.
ExistingResponse(r, p) ==
  IF r.by \in forHotel /\ SameInput(r, p)
    THEN Accepted(TRUE)
    ELSE Failed("service_error")

\* READ_EXISTING_QUERY and the date check that follows it.
ReadExisting(d) ==
  /\ pc[d] = "begin"
  /\ \/ \E r \in Existing(payload[d].request_id) :
          Respond(d, ExistingResponse(r, payload[d]))
     \/ /\ Existing(payload[d].request_id) = {}
        /\ IF payload[d].check_in < calledOn[d]
             THEN Respond(d, Rejected("invalid_dates"))
             ELSE Advance(d, "existing_read")
  /\ UNCHANGED <<fixtureVars, today, payload, calledOn, requests, forHotel,
                 faults, inForce>>

LimitOneOver(guests, limit) == guests <= limit + 1
LimitAllows(guests, limit) == guests <= limit

\* What the command answers from the rule and hotel it read; Unanswered when
\* it goes on to create.
TargetsVerdict(p) ==
  IF ~ \E r \in EnabledRules : EnabledRules = {r} THEN Failed("service_error")
  ELSE IF p.hotel_id \notin fixtureIds THEN Rejected("unknown_hotel")
  ELSE IF \E r \in EnabledRules : r.max_guests < 1 \/ ~r.has_message
         THEN Failed("service_error")
  ELSE IF \E r \in EnabledRules : ~LimitAllows(p.guests, r.max_guests)
         THEN Rejected("max_guests_exceeded")
  ELSE Unanswered

ReadTargets(d) ==
  /\ pc[d] = "existing_read"
  /\ IF TargetsVerdict(payload[d]) = Unanswered
       THEN Advance(d, "targets_read")
       ELSE Respond(d, TargetsVerdict(payload[d]))
  /\ UNCHANGED <<fixtureVars, today, payload, calledOn, requests, forHotel,
                 faults, inForce>>

\* The MATCH and WHERE clauses of CREATE_REQUEST_QUERY let the row through.
CreateMatches(p) ==
  /\ \E r \in EnabledRules : EnabledRules = {r} /\ LimitAllows(p.guests, r.max_guests)
  /\ p.hotel_id \in fixtureIds

RequestIdUnique == "ReservationRequest" \in constraints

\* Another transaction holds an uncommitted node with this request ID.
Claimed(d) ==
  \E e \in Deliveries \ {d} :
    pc[e] = "created" /\ payload[e].request_id = payload[d].request_id

\* CREATE_REQUEST_QUERY, first its clauses up to CREATE.  No row: the rule or
\* hotel changed since it was read.
MatchTargets(d) ==
  /\ pc[d] = "targets_read"
  /\ IF CreateMatches(payload[d])
       THEN Advance(d, "matched")
       ELSE Respond(d, Failed("service_error"))
  /\ UNCHANGED <<fixtureVars, today, payload, calledOn, requests, forHotel,
                 faults, inForce>>

CreateRequestRetriesInPlace(d) ==
  /\ pc[d] = "matched"
  /\ RequestIdUnique => ~Claimed(d)
  /\ IF RequestIdUnique /\ Existing(payload[d].request_id) # {}
       THEN Advance(d, "targets_read")
       ELSE Advance(d, "created")
  /\ UNCHANGED <<fixtureVars, today, payload, calledOn, requests, forHotel,
                 faults, inForce>>

\* Then CREATE: the node is written uncommitted, or the constraint rejects it
\* and the transaction is rolled back.
CreateRequest(d) ==
  /\ pc[d] = "matched"
  /\ RequestIdUnique => ~Claimed(d)
  /\ IF RequestIdUnique /\ Existing(payload[d].request_id) # {}
       THEN Advance(d, "read_duplicate")
       ELSE Advance(d, "created")
  /\ UNCHANGED <<fixtureVars, today, payload, calledOn, requests, forHotel,
                 faults, inForce>>

Store(d) ==
  /\ requests' = requests \union {Contract!Recorded(payload[d], d)}
  /\ forHotel' = forHotel \union {d}

Commit(d) ==
  /\ pc[d] = "created"
  /\ Store(d)
  /\ Respond(d, Accepted(FALSE))
  /\ UNCHANGED <<fixtureVars, today, payload, calledOn, faults, inForce>>

ReadDuplicateTrustingId(d) ==
  /\ pc[d] = "read_duplicate"
  /\ Existing(payload[d].request_id) # {}
  /\ Respond(d, Accepted(TRUE))
  /\ UNCHANGED <<fixtureVars, today, payload, calledOn, requests, forHotel,
                 faults, inForce>>

\* After the lost race, a read in a new session.
ReadDuplicate(d) ==
  /\ pc[d] = "read_duplicate"
  /\ \/ \E r \in Existing(payload[d].request_id) :
          Respond(d, ExistingResponse(r, payload[d]))
     \/ /\ Existing(payload[d].request_id) = {}
        /\ Respond(d, Failed("service_error"))
  /\ UNCHANGED <<fixtureVars, today, payload, calledOn, requests, forHotel,
                 faults, inForce>>

(***************************************************************************)
(* Failures, each counted against MaxFaults.                               *)
(***************************************************************************)
Fault == faults < MaxFaults /\ faults' = faults + 1

\* A transient failure rolls the transaction back and the driver runs the
\* function again, with the same effective date.
DriverRetries(d) ==
  /\ Fault
  /\ pc[d] \in InWrite \ {"begin"}
  /\ Advance(d, "begin")
  /\ inForce' = [inForce EXCEPT ![d] = EnabledLimits]
  /\ UNCHANGED <<fixtureVars, today, payload, calledOn, requests, forHotel>>

\* A failure the driver does not retry, or no longer: rolled back and reported.
CallFails(d) ==
  /\ Fault
  /\ \/ /\ pc[d] \in InWrite \union {"read_duplicate"}
        /\ Respond(d, Failed("service_error"))
     \/ /\ pc[d] \in {"begin", "read_duplicate"}
        /\ Respond(d, Failed("unauthorized"))
  /\ UNCHANGED <<fixtureVars, today, payload, calledOn, requests, forHotel, inForce>>

\* A member that has not applied the winner's commit serves the second read.
StaleDuplicateRead(d) ==
  /\ Fault
  /\ pc[d] = "read_duplicate"
  /\ Respond(d, Failed("service_error"))
  /\ UNCHANGED <<fixtureVars, today, payload, calledOn, requests, forHotel, inForce>>

\* The connection breaks after the commit was applied and before it was
\* acknowledged: the driver does not retry, the command reports an error.
CommitUnacknowledged(d) ==
  /\ Fault
  /\ pc[d] = "created"
  /\ Store(d)
  /\ Respond(d, Failed("service_error"))
  /\ UNCHANGED <<fixtureVars, today, payload, calledOn, inForce>>

\* The process running the delivery dies; nobody is answered.  A commit on its
\* way may still be applied.
Crash(d) ==
  /\ Fault
  /\ pc[d] \in InWrite \union {"read_duplicate"}
  /\ Advance(d, "lost")
  /\ \/ UNCHANGED <<requests, forHotel>>
     \/ pc[d] = "created" /\ Store(d)
  /\ UNCHANGED <<fixtureVars, today, payload, calledOn, inForce>>

(***************************************************************************)
(* The surroundings.                                                       *)
(***************************************************************************)
\* A changed rule joins the limits in force for every attempt under way.
RuleChanges ==
  /\ UpsertRule \/ EditRule
  /\ inForce' = [d \in Deliveries |->
                   IF pc[d] \in InWrite THEN inForce[d] \union EnabledLimits'
                                       ELSE inForce[d]]
  /\ UNCHANGED <<today, payload, pc, calledOn, answer, requests, forHotel, faults>>

\* Deleting a hotel waits for the transactions that hold a relationship to it
\* and takes the FOR_HOTEL relationships along.  A CREATE whose hotel goes after
\* its MATCH fails: CallFails, followed by the clear.
GraphCleared ==
  /\ ClearHotels
  /\ \A d \in Deliveries : pc[d] \notin {"matched", "created"}
  /\ forHotel' = {}
  /\ UNCHANGED <<today, payload, pc, calledOn, answer, requests, faults, inForce>>

FixturesStep ==
  /\ \/ StartSetup \/ CreateConstraints \/ ResolveFixtures \/ ApplyFixtureIds
     \/ AbortSetup \/ RebuildHotels
  /\ UNCHANGED <<commandVars, today, faults>>

NextDay ==
  /\ today < LastDay
  /\ today' = today + 1
  /\ UNCHANGED <<fixtureVars, commandVars, faults>>

Step(d) ==
  ReadExisting(d) \/ ReadTargets(d) \/ MatchTargets(d) \/ CreateRequest(d)
    \/ Commit(d) \/ ReadDuplicate(d)

Failure(d) ==
  DriverRetries(d) \/ CallFails(d) \/ StaleDuplicateRead(d)
    \/ CommitUnacknowledged(d) \/ Crash(d)

Next ==
  \/ \E d \in Deliveries : Deliver(d) \/ Step(d) \/ Failure(d)
  \/ RuleChanges \/ GraphCleared \/ FixturesStep \/ NextDay

\* A running call keeps executing statements: a Lambda or Runtime container is
\* not suspended in the middle of one.  Nothing else has to happen.
Fairness == \A d \in Deliveries : WF_vars(Step(d))

Spec == Init /\ [][Next]_vars /\ Fairness

(***************************************************************************)
(* Properties.                                                             *)
(***************************************************************************)
\* However deliveries, setup runs and rebuilds interleave, the graph holds at
\* most one ReservationRequest per request ID.
OneNodePerRequestId ==
  \A r, s \in requests : r.request_id = s.request_id => r = s

\* An accepted answer is never wrong about the graph: the request it confirms
\* is committed with exactly the caller's input, and an answer that calls it
\* new went to the delivery that created it.
AcceptedMatchesGraph ==
  \A d \in Deliveries :
    answer[d].status = "accepted" =>
      \E r \in requests :
        /\ SameInput(r, payload[d])
        /\ ~answer[d].duplicate => r.by = d

\* The guest limit binds what is stored: no request is committed above every
\* limit that was enabled while the transaction attempt that stored it ran.
CommittedUnderLimitInForce ==
  \A r \in requests : \E limit \in inForce[r.by] : r.guests <= limit

\* The command, statement by statement and with all its failures, implements
\* the contract's atomic record, replay and refusal.
ImplementsContract == Contract!Spec

\* A delivery that started is answered unless its process dies: waiting for
\* another delivery's claim on the same request ID always ends.
EveryDeliveryAnswered ==
  \A d \in Deliveries : pc[d] = "begin" ~> pc[d] \in {"done", "lost"}

\* What a delivery checked still holds when it creates: no request with its ID
\* is committed, and the rule lets it through.  Module 3's page claims this of
\* keeping checks and write in one transaction.
ChecksHoldUntilWrite ==
  \A d \in Deliveries :
    pc[d] = "targets_read" =>
      Existing(payload[d].request_id) = {} /\ CreateMatches(payload[d])
================================================================================
