--------------------------- MODULE ReservationProofs ---------------------------
(***************************************************************************)
(* Proofs about the reservation command for any deliveries, payloads,      *)
(* rule edits and failures: its type invariant, the inductive invariant    *)
(* behind uniqueness, accepted answers and the guest limit, and that it    *)
(* implements ReservationContract.                                         *)
(***************************************************************************)
EXTENDS Reservation, TLAPS

(***************************************************************************)
(* The parts of the inductive invariant.                                   *)
(***************************************************************************)
\* Setup creates the request ID constraint before it writes the rule.
RuleNeedsConstraint ==
  rules # {} \/ setup \in {"rule_constraint", "resolve", "apply_ids", "upsert_rule"}
    => RequestIdUnique

\* Hence no delivery gets as far as CREATE without it.
CreateNeedsConstraint ==
  \A d \in Deliveries : pc[d] \in {"matched", "created"} => RequestIdUnique

\* An uncommitted node is the only one, committed or not, with its request ID.
ClaimExclusive ==
  \A d \in Deliveries :
    pc[d] = "created" => ~Claimed(d) /\ Existing(payload[d].request_id) = {}

\* Only finished deliveries left nodes, and each node is what its delivery asked.
NodesAsAsked ==
  \A r \in requests :
    /\ r = Contract!Recorded(payload[r.by], r.by)
    /\ pc[r.by] \in {"done", "lost"}

AnsweredWhenDone ==
  \A d \in Deliveries : pc[d] # "done" => answer[d] = Unanswered

\* The limits enabled now count as in force for every attempt under way, and a
\* matched request respects one that was.
LimitsTracked ==
  \A d \in Deliveries :
    /\ pc[d] \in InWrite => EnabledLimits \subseteq inForce[d]
    /\ pc[d] \in {"matched", "created"} =>
         \E limit \in inForce[d] : payload[d].guests <= limit

IInv ==
  /\ TypeOK
  /\ RuleNeedsConstraint
  /\ CreateNeedsConstraint
  /\ ClaimExclusive
  /\ NodesAsAsked
  /\ AnsweredWhenDone
  /\ LimitsTracked
  /\ OneNodePerRequestId
  /\ AcceptedMatchesGraph
  /\ CommittedUnderLimitInForce

(***************************************************************************)
(* Type correctness.                                                       *)
(***************************************************************************)
\* The answers the command computes are answers of its contract.
LEMMA AnswerTypes ==
  /\ Unanswered \in Answers
  /\ Accepted(TRUE) \in Answers
  /\ Accepted(FALSE) \in Answers
  /\ \A p : Validate(p) \in Answers
  /\ \A r, p : ExistingResponse(r, p) \in Answers
  /\ \A p : TargetsVerdict(p) \in Answers
  /\ Failed("service_error") \in Answers
  /\ Failed("unauthorized") \in Answers
  /\ Rejected("invalid_dates") \in Answers
<1>1. Unanswered \in Answers /\ Accepted(TRUE) \in Answers /\ Accepted(FALSE) \in Answers
  BY DEF Answers
<1>2. \A reason \in {"service_error", "unauthorized"} : Failed(reason) \in Answers
  BY DEF Answers
<1>3. \A reason \in {"invalid_dates", "unknown_hotel", "max_guests_exceeded"} :
        Rejected(reason) \in Answers
  BY DEF Answers
<1>4. QED
  BY <1>1, <1>2, <1>3 DEF Validate, ExistingResponse, TargetsVerdict

LEMMA TypeInit == Init => TypeOK
  BY FixturesAssumption, ReservationAssumption, AnswerTypes
     DEF Init, TypeOK, FixturesInit, FixturesTypeOK, SetupSteps, Labels, Stages,
         InWrite, Contract!Init, Unanswered

\* Every step keeps the types of the fixtures' variables.
LEMMA FixturesTypeStep == FixturesTypeOK /\ [Next]_vars => FixturesTypeOK'
<1> SUFFICES ASSUME FixturesTypeOK, [Next]_vars PROVE FixturesTypeOK'
  OBVIOUS
<1>1. CASE UNCHANGED fixtureVars
  BY <1>1 DEF FixturesTypeOK, fixtureVars
<1>2. CASE UpsertRule \/ EditRule
  <2>1. CASE UpsertRule
    BY <2>1, FixturesAssumption
       DEF FixturesTypeOK, UpsertRule, PreparedRule, Rule, SetupSteps
  <2>2. CASE EditRule
    <3>1. rules' \subseteq Rule
      BY <2>2, FixturesAssumption DEF EditRule, Rule
    <3>2. QED
      BY <2>2, <3>1 DEF FixturesTypeOK, EditRule
  <2>3. QED
    BY <1>2, <2>1, <2>2
<1>3. CASE ClearHotels
  BY <1>3 DEF FixturesTypeOK, ClearHotels, Labels, SetupSteps
<1>4. CASE StartSetup \/ CreateConstraints \/ ResolveFixtures \/ ApplyFixtureIds
             \/ AbortSetup \/ RebuildHotels
  BY <1>4 DEF FixturesTypeOK, StartSetup, CreateConstraints, CreateConstraint,
              ResolveFixtures, ApplyFixtureIds, AbortSetup, RebuildHotels,
              SetupSteps, Labels
<1>5. QED
  BY <1>1, <1>2, <1>3, <1>4
     DEF Next, vars, Deliver, Step, Failure, ReadExisting, ReadTargets, MatchTargets,
         CreateRequest, Commit, ReadDuplicate, DriverRetries, CallFails,
         StaleDuplicateRead, CommitUnacknowledged, Crash, RuleChanges, GraphCleared,
         FixturesStep, NextDay

\* Storing a delivery's request keeps the store's types.
LEMMA StoreTypes ==
  ASSUME TypeOK, NEW d \in Deliveries, Store(d)
  PROVE  /\ requests' \subseteq {Contract!Recorded(p, e) : p \in Payloads, e \in Deliveries}
         /\ forHotel' \subseteq Deliveries
<1>1. payload[d] \in Payloads
  BY DEF TypeOK
<1>2. Contract!Recorded(payload[d], d)
        \in {Contract!Recorded(p, e) : p \in Payloads, e \in Deliveries}
  BY <1>1
<1>3. QED
  BY <1>2 DEF Store, TypeOK

LEMMA TypeStep == TypeOK /\ [Next]_vars => TypeOK'
<1> SUFFICES ASSUME TypeOK, [Next]_vars PROVE TypeOK'
  OBVIOUS
<1>0. FixturesTypeOK'
  BY FixturesTypeStep DEF TypeOK
<1> USE <1>0, AnswerTypes, ReservationAssumption DEF TypeOK
<1>1. ASSUME NEW d \in Deliveries, Deliver(d) PROVE TypeOK'
  <2>1. EnabledLimits \subseteq Nat
    BY DEF EnabledLimits, EnabledRules, FixturesTypeOK, Rule
  <2>2. QED
    BY <1>1, <2>1 DEF Deliver, Respond, Advance, Stages, InWrite
<1>2. ASSUME NEW d \in Deliveries, Step(d) PROVE TypeOK'
  <2>1. CASE ReadExisting(d)
    BY <2>1 DEF ReadExisting, Respond, Advance, Stages, InWrite
  <2>2. CASE ReadTargets(d)
    BY <2>2 DEF ReadTargets, Respond, Advance, Stages, InWrite
  <2>3. CASE MatchTargets(d)
    BY <2>3 DEF MatchTargets, Respond, Advance, Stages, InWrite
  <2>4. CASE CreateRequest(d)
    BY <2>4 DEF CreateRequest, Advance, Stages, InWrite
  <2>5. CASE Commit(d)
    <3>1. /\ requests' \subseteq {Contract!Recorded(p, e) : p \in Payloads, e \in Deliveries}
          /\ forHotel' \subseteq Deliveries
      BY <2>5, StoreTypes DEF Commit
    <3>2. PICK a \in Answers : Respond(d, a)
      BY <2>5, Zenon DEF Commit
    <3>3. pc' \in [Deliveries -> Stages] /\ answer' \in [Deliveries -> Answers]
      BY <3>2 DEF Respond, Stages
    <3>4. UNCHANGED <<today, payload, calledOn, faults, inForce>>
      BY <2>5 DEF Commit
    <3>5. QED
      BY <3>1, <3>3, <3>4
  <2>6. CASE ReadDuplicate(d)
    BY <2>6 DEF ReadDuplicate, Respond, Stages
  <2>7. QED
    BY <1>2, <2>1, <2>2, <2>3, <2>4, <2>5, <2>6 DEF Step
<1>3. ASSUME NEW d \in Deliveries, Failure(d) PROVE TypeOK'
  <2>1. EnabledLimits \subseteq Nat
    BY DEF EnabledLimits, EnabledRules, FixturesTypeOK, Rule
  <2>2. CASE DriverRetries(d)
    BY <2>1, <2>2 DEF DriverRetries, Fault, Advance, Stages, InWrite
  <2>3. CASE CallFails(d) \/ StaleDuplicateRead(d)
    BY <2>3 DEF CallFails, StaleDuplicateRead, Fault, Respond, Stages
  <2>4. CASE CommitUnacknowledged(d)
    BY <2>4, StoreTypes DEF CommitUnacknowledged, Fault, Respond, Stages
  <2>5. CASE Crash(d)
    BY <2>5, StoreTypes DEF Crash, Fault, Advance, Stages
  <2>6. QED
    BY <1>3, <2>2, <2>3, <2>4, <2>5 DEF Failure
<1>4. CASE RuleChanges
  <2>1. EnabledLimits' \subseteq Nat
    BY DEF EnabledLimits, EnabledRules, FixturesTypeOK, Rule
  <2>2. ASSUME NEW d \in Deliveries
        PROVE  (IF pc[d] \in InWrite THEN inForce[d] \union EnabledLimits'
                                   ELSE inForce[d]) \in SUBSET Nat
    <3>1. inForce[d] \subseteq Nat
      OBVIOUS
    <3>2. QED
      BY <2>1, <3>1
  <2>3. inForce' \in [Deliveries -> SUBSET Nat]
    BY <1>4, <2>2 DEF RuleChanges
  <2>4. QED
    BY <1>4, <2>3 DEF RuleChanges
<1>5. CASE GraphCleared \/ FixturesStep \/ NextDay
  BY <1>5 DEF GraphCleared, FixturesStep, NextDay, commandVars
<1>6. CASE UNCHANGED vars
  BY <1>6 DEF vars, fixtureVars
<1>7. QED
  BY <1>1, <1>2, <1>3, <1>4, <1>5, <1>6 DEF Next

\* Every reachable state is well typed, whatever the payloads and failures.
THEOREM TypeCorrect == Spec => []TypeOK
  BY TypeInit, TypeStep, PTL DEF Spec

(***************************************************************************)
(* The inductive invariant.                                                *)
(***************************************************************************)
\* Nothing but the pc, answer and limit history of d changes.
OnlyDelivery(d) ==
  /\ \A e \in Deliveries \ {d} :
       pc'[e] = pc[e] /\ answer'[e] = answer[e] /\ inForce'[e] = inForce[e]
  /\ UNCHANGED <<payload, rules, constraints, setup>>

LEMMA InvInit == Init => IInv
<1> SUFFICES ASSUME Init PROVE IInv
  OBVIOUS
<1>1. TypeOK
  BY TypeInit
<1>2. requests = {} /\ rules = {} /\ setup = "idle"
  BY DEF Init, FixturesInit, Contract!Init
<1>3. \A d \in Deliveries : pc[d] = "idle" /\ answer[d] = Unanswered
  BY DEF Init, Contract!Init, Unanswered
<1>4. Unanswered.status = "none"
  BY DEF Unanswered, Contract!Unanswered
<1>5. QED
  BY <1>1, <1>2, <1>3, <1>4
     DEF IInv, RuleNeedsConstraint, CreateNeedsConstraint, ClaimExclusive, NodesAsAsked,
         AnsweredWhenDone, LimitsTracked, OneNodePerRequestId, AcceptedMatchesGraph,
         CommittedUnderLimitInForce, InWrite

\* A step of one delivery that stores nothing and does not go on to match or
\* create keeps the invariant.
LEMMA QuietStep ==
  ASSUME IInv, TypeOK', NEW d \in Deliveries, OnlyDelivery(d), UNCHANGED requests,
         pc[d] \notin {"done", "lost"},
         pc'[d] \notin {"matched", "created"},
         pc'[d] # "done" => answer'[d] = answer[d],
         answer'[d].status = "accepted" =>
           answer'[d].duplicate /\ \E r \in requests : SameInput(r, payload[d]),
         pc'[d] \in InWrite => EnabledLimits \subseteq inForce'[d]
  PROVE  IInv'
<1> USE DEF IInv, OnlyDelivery
<1>1. RuleNeedsConstraint' /\ CreateNeedsConstraint'
  BY DEF RuleNeedsConstraint, CreateNeedsConstraint, RequestIdUnique
<1>2. ClaimExclusive'
  BY DEF ClaimExclusive, Claimed, Existing
<1>3. NodesAsAsked' /\ \A r \in requests : r.by \in Deliveries \ {d}
  <2>1. \A r \in requests : r.by \in Deliveries
    BY DEF TypeOK, Contract!Recorded
  <2>2. QED
    BY <2>1 DEF NodesAsAsked
<1>4. AnsweredWhenDone'
  BY DEF AnsweredWhenDone
<1>5. LimitsTracked'
  <2>1. EnabledLimits' = EnabledLimits
    BY DEF EnabledLimits, EnabledRules
  <2>2. QED
    BY <2>1 DEF LimitsTracked
<1>6. OneNodePerRequestId' /\ AcceptedMatchesGraph'
  BY DEF OneNodePerRequestId, AcceptedMatchesGraph, SameInput, Contract!SameInput
<1>7. CommittedUnderLimitInForce'
  BY <1>3 DEF CommittedUnderLimitInForce
<1>8. QED
  BY <1>1, <1>2, <1>3, <1>4, <1>5, <1>6, <1>7

\* A commit, acknowledged or not, keeps the invariant.
LEMMA StoringStep ==
  ASSUME IInv, TypeOK', NEW d \in Deliveries, OnlyDelivery(d), Store(d),
         pc[d] = "created",
         pc'[d] \in {"done", "lost"},
         pc'[d] # "done" => answer'[d] = answer[d],
         inForce'[d] = inForce[d]
  PROVE  IInv'
<1> USE DEF IInv, OnlyDelivery
<1> DEFINE node == Contract!Recorded(payload[d], d)
<1>1. /\ requests' = requests \union {node}
      /\ node.by = d
      /\ SameInput(node, payload[d])
      /\ node.request_id = payload[d].request_id
      /\ node.guests = payload[d].guests
  BY DEF Store, Contract!Recorded, SameInput, Contract!SameInput
<1>2. RuleNeedsConstraint' /\ CreateNeedsConstraint'
  BY DEF RuleNeedsConstraint, CreateNeedsConstraint, RequestIdUnique
<1>3. \A r \in requests : r.request_id # payload[d].request_id
  BY DEF ClaimExclusive, Existing
<1>4. ClaimExclusive'
  BY <1>1 DEF ClaimExclusive, Claimed, Existing
<1>5. \A r \in requests : r.by \in Deliveries \ {d}
  BY DEF TypeOK, Contract!Recorded, NodesAsAsked
<1>6. NodesAsAsked'
  BY <1>1, <1>5 DEF NodesAsAsked
<1>7. AnsweredWhenDone'
  BY DEF AnsweredWhenDone
<1>8. LimitsTracked'
  <2>1. EnabledLimits' = EnabledLimits
    BY DEF EnabledLimits, EnabledRules
  <2>2. QED
    BY <2>1 DEF LimitsTracked, InWrite
<1>9. OneNodePerRequestId'
  BY <1>1, <1>3 DEF OneNodePerRequestId
<1>10. AcceptedMatchesGraph'
  BY <1>1 DEF AcceptedMatchesGraph, SameInput, Contract!SameInput
<1>11. CommittedUnderLimitInForce'
  BY <1>1, <1>5 DEF CommittedUnderLimitInForce, LimitsTracked
<1>12. QED
  BY <1>2, <1>4, <1>6, <1>7, <1>8, <1>9, <1>10, <1>11

\* Only an existing request with the same input is answered as accepted, and
\* then as a duplicate.
LEMMA AnswerStatus ==
  /\ Unanswered.status # "accepted"
  /\ \A p : Validate(p).status # "accepted"
  /\ \A p : TargetsVerdict(p).status # "accepted"
  /\ Failed("service_error").status # "accepted"
  /\ Failed("unauthorized").status # "accepted"
  /\ Rejected("invalid_dates").status # "accepted"
  /\ \A r, p : ExistingResponse(r, p).status = "accepted" =>
       ExistingResponse(r, p).duplicate /\ SameInput(r, p)
<1>1. /\ Unanswered.status # "accepted"
      /\ \A reason : /\ Failed(reason).status # "accepted"
                     /\ Rejected(reason).status # "accepted"
  BY DEF Unanswered, Contract!Unanswered, Failed, Rejected, Answer, Contract!Answer
<1>2. Accepted(TRUE).duplicate = TRUE
  BY DEF Accepted, Answer, Contract!Answer
<1>3. QED
  BY <1>1, <1>2 DEF Validate, TargetsVerdict, ExistingResponse

\* A step of one delivery keeps the invariant.
LEMMA StepInv ==
  ASSUME IInv, TypeOK', NEW d \in Deliveries, Step(d)
  PROVE  IInv'
<1> USE DEF IInv
<1>1. CASE ReadExisting(d)
  <2>1. OnlyDelivery(d) /\ UNCHANGED requests /\ pc[d] = "begin" /\ UNCHANGED inForce
    BY <1>1 DEF ReadExisting, OnlyDelivery, Respond, Advance, TypeOK, fixtureVars
  <2>2. pc'[d] \in {"done", "existing_read"} /\ (pc'[d] # "done" => answer'[d] = answer[d])
    BY <1>1 DEF ReadExisting, Respond, Advance, TypeOK
  <2>3. answer'[d].status = "accepted" =>
           answer'[d].duplicate /\ \E r \in requests : SameInput(r, payload[d])
    BY <1>1, <2>1, AnswerStatus
       DEF ReadExisting, Respond, Advance, TypeOK, Existing, AnsweredWhenDone
  <2>4. EnabledLimits \subseteq inForce'[d]
    BY <2>1 DEF LimitsTracked, InWrite
  <2>5. QED
    BY <2>1, <2>2, <2>3, <2>4, QuietStep
<1>2. CASE ReadTargets(d)
  <2>1. OnlyDelivery(d) /\ UNCHANGED requests /\ pc[d] = "existing_read" /\ UNCHANGED inForce
    BY <1>2 DEF ReadTargets, OnlyDelivery, Respond, Advance, TypeOK, fixtureVars
  <2>2. pc'[d] \in {"done", "targets_read"} /\ (pc'[d] # "done" => answer'[d] = answer[d])
    BY <1>2 DEF ReadTargets, Respond, Advance, TypeOK
  <2>3. answer'[d].status # "accepted"
    BY <1>2, <2>1, AnswerStatus DEF ReadTargets, Respond, Advance, TypeOK, AnsweredWhenDone
  <2>4. EnabledLimits \subseteq inForce'[d]
    BY <2>1 DEF LimitsTracked, InWrite
  <2>5. QED
    BY <2>1, <2>2, <2>3, <2>4, QuietStep
<1>3. CASE MatchTargets(d) /\ ~CreateMatches(payload[d])
  <2>1. OnlyDelivery(d) /\ UNCHANGED requests /\ pc[d] = "targets_read" /\ UNCHANGED inForce
    BY <1>3 DEF MatchTargets, OnlyDelivery, Respond, TypeOK, fixtureVars
  <2>2. pc'[d] = "done"
    BY <1>3 DEF MatchTargets, Respond, TypeOK
  <2>3. answer'[d].status # "accepted"
    BY <1>3, AnswerStatus DEF MatchTargets, Respond, TypeOK
  <2>4. QED
    BY <2>1, <2>2, <2>3, QuietStep DEF InWrite
<1>4. CASE MatchTargets(d) /\ CreateMatches(payload[d])
  <2>1. /\ OnlyDelivery(d) /\ UNCHANGED <<requests, forHotel, answer, inForce>>
        /\ pc[d] = "targets_read" /\ pc'[d] = "matched"
    BY <1>4 DEF MatchTargets, OnlyDelivery, Advance, TypeOK, fixtureVars
  <2>2. PICK rule \in EnabledRules : payload[d].guests <= rule.max_guests
    BY <1>4 DEF CreateMatches, LimitAllows
  <2>3. \E limit \in inForce[d] : payload[d].guests <= limit
    BY <2>1, <2>2 DEF LimitsTracked, InWrite, EnabledLimits
  <2>4. RequestIdUnique
    BY <2>2 DEF RuleNeedsConstraint, EnabledRules
  <2>5. RuleNeedsConstraint' /\ CreateNeedsConstraint'
    BY <2>1, <2>4 DEF RuleNeedsConstraint, CreateNeedsConstraint, RequestIdUnique, OnlyDelivery
  <2>6. ClaimExclusive' /\ NodesAsAsked'
    <3>1. \A r \in requests : r.by \in Deliveries
      BY DEF TypeOK, Contract!Recorded
    <3>2. QED
      BY <2>1, <3>1 DEF ClaimExclusive, Claimed, Existing, NodesAsAsked, OnlyDelivery
  <2>7. AnsweredWhenDone' /\ LimitsTracked'
    <3>1. EnabledLimits' = EnabledLimits
      BY <2>1 DEF EnabledLimits, EnabledRules, OnlyDelivery
    <3>2. QED
      BY <2>1, <2>3, <3>1 DEF AnsweredWhenDone, LimitsTracked, OnlyDelivery, InWrite
  <2>8. OneNodePerRequestId' /\ AcceptedMatchesGraph' /\ CommittedUnderLimitInForce'
    BY <2>1 DEF OneNodePerRequestId, AcceptedMatchesGraph, SameInput, Contract!SameInput,
                CommittedUnderLimitInForce, OnlyDelivery
  <2>9. QED
    BY <2>5, <2>6, <2>7, <2>8
<1>5. CASE CreateRequest(d) /\ Existing(payload[d].request_id) # {}
  <2>1. /\ OnlyDelivery(d) /\ UNCHANGED <<requests, answer, inForce>>
        /\ pc[d] = "matched" /\ pc'[d] = "read_duplicate"
    <3>1. RequestIdUnique
      BY <1>5 DEF CreateRequest, CreateNeedsConstraint
    <3>2. QED
      BY <1>5, <3>1 DEF CreateRequest, OnlyDelivery, Advance, TypeOK, fixtureVars
  <2>2. answer'[d].status # "accepted"
    BY <2>1, AnswerStatus DEF AnsweredWhenDone
  <2>3. QED
    BY <2>1, <2>2, QuietStep DEF InWrite
<1>6. CASE CreateRequest(d) /\ Existing(payload[d].request_id) = {}
  <2>1. /\ OnlyDelivery(d) /\ UNCHANGED <<requests, forHotel, answer, inForce>>
        /\ pc[d] = "matched" /\ pc'[d] = "created"
    BY <1>6 DEF CreateRequest, OnlyDelivery, Advance, TypeOK, fixtureVars
  <2>2. RequestIdUnique /\ ~Claimed(d)
    BY <1>6, <2>1 DEF CreateRequest, CreateNeedsConstraint
  <2>3. RuleNeedsConstraint' /\ CreateNeedsConstraint'
    BY <2>1, <2>2 DEF RuleNeedsConstraint, CreateNeedsConstraint, RequestIdUnique, OnlyDelivery
  <2>4. ClaimExclusive'
    BY <1>6, <2>1, <2>2 DEF ClaimExclusive, Claimed, Existing, OnlyDelivery
  <2>5. NodesAsAsked'
    <3>1. \A r \in requests : r.by \in Deliveries
      BY DEF TypeOK, Contract!Recorded
    <3>2. QED
      BY <2>1, <3>1 DEF NodesAsAsked, OnlyDelivery
  <2>6. AnsweredWhenDone' /\ LimitsTracked'
    <3>1. EnabledLimits' = EnabledLimits
      BY <2>1 DEF EnabledLimits, EnabledRules, OnlyDelivery
    <3>2. QED
      BY <2>1, <3>1 DEF AnsweredWhenDone, LimitsTracked, OnlyDelivery, InWrite
  <2>7. OneNodePerRequestId' /\ AcceptedMatchesGraph' /\ CommittedUnderLimitInForce'
    BY <2>1 DEF OneNodePerRequestId, AcceptedMatchesGraph, SameInput, Contract!SameInput,
                CommittedUnderLimitInForce, OnlyDelivery
  <2>8. QED
    BY <2>3, <2>4, <2>5, <2>6, <2>7
<1>7. CASE Commit(d)
  <2>1. OnlyDelivery(d) /\ pc[d] = "created" /\ pc'[d] = "done" /\ UNCHANGED inForce
    BY <1>7 DEF Commit, OnlyDelivery, Respond, TypeOK, fixtureVars
  <2>2. Store(d)
    BY <1>7 DEF Commit
  <2>3. QED
    BY <2>1, <2>2, StoringStep
<1>8. CASE ReadDuplicate(d)
  <2>1. /\ OnlyDelivery(d) /\ UNCHANGED requests
        /\ pc[d] = "read_duplicate" /\ pc'[d] = "done"
    BY <1>8 DEF ReadDuplicate, OnlyDelivery, Respond, TypeOK, fixtureVars
  <2>2. answer'[d].status = "accepted" =>
           answer'[d].duplicate /\ \E r \in requests : SameInput(r, payload[d])
    BY <1>8, AnswerStatus DEF ReadDuplicate, Respond, TypeOK, Existing
  <2>3. QED
    BY <2>1, <2>2, QuietStep DEF InWrite
<1>9. QED
  <2>1. CreateRequest(d) \/ MatchTargets(d) => IInv'
    BY <1>3, <1>4, <1>5, <1>6
  <2>2. QED
    BY <1>1, <1>2, <1>7, <1>8, <2>1 DEF Step

\* The arrival of a call keeps the invariant.
LEMMA DeliverInv ==
  ASSUME IInv, TypeOK', NEW d \in Deliveries, Deliver(d)
  PROVE  IInv'
<1> USE DEF IInv
<1>1. OnlyDelivery(d) /\ UNCHANGED requests /\ pc[d] = "idle"
  BY DEF Deliver, OnlyDelivery, Respond, Advance, TypeOK, fixtureVars
<1>2. pc'[d] \in {"done", "begin"} /\ (pc'[d] # "done" => answer'[d] = answer[d])
  BY DEF Deliver, Respond, Advance, TypeOK
<1>3. answer'[d].status # "accepted"
  BY <1>1, AnswerStatus DEF Deliver, Respond, Advance, TypeOK, AnsweredWhenDone
<1>4. inForce'[d] = EnabledLimits
  BY DEF Deliver, TypeOK
<1>5. QED
  BY <1>1, <1>2, <1>3, <1>4, QuietStep

\* A failure keeps the invariant.
LEMMA FailureInv ==
  ASSUME IInv, TypeOK', NEW d \in Deliveries, Failure(d)
  PROVE  IInv'
<1> USE DEF IInv
<1>1. CASE DriverRetries(d)
  <2>1. /\ OnlyDelivery(d) /\ UNCHANGED <<requests, answer>>
        /\ pc[d] \in InWrite /\ pc'[d] = "begin" /\ inForce'[d] = EnabledLimits
    BY <1>1 DEF DriverRetries, OnlyDelivery, Advance, TypeOK, fixtureVars
  <2>2. answer'[d].status # "accepted"
    BY <2>1, AnswerStatus DEF AnsweredWhenDone, InWrite
  <2>3. QED
    BY <2>1, <2>2, QuietStep DEF InWrite
<1>2. CASE CallFails(d) \/ StaleDuplicateRead(d)
  <2>1. /\ OnlyDelivery(d) /\ UNCHANGED requests
        /\ pc[d] \in InWrite \union {"read_duplicate"} /\ pc'[d] = "done"
    BY <1>2 DEF CallFails, StaleDuplicateRead, OnlyDelivery, Respond, TypeOK, fixtureVars,
                InWrite
  <2>2. answer'[d].status # "accepted"
    BY <1>2, AnswerStatus DEF CallFails, StaleDuplicateRead, Respond, TypeOK
  <2>3. QED
    BY <2>1, <2>2, QuietStep DEF InWrite
<1>3. CASE CommitUnacknowledged(d)
  <2>1. OnlyDelivery(d) /\ pc[d] = "created" /\ pc'[d] = "done" /\ UNCHANGED inForce
    BY <1>3 DEF CommitUnacknowledged, OnlyDelivery, Respond, TypeOK, fixtureVars
  <2>2. Store(d)
    BY <1>3 DEF CommitUnacknowledged
  <2>3. QED
    BY <2>1, <2>2, StoringStep
<1>4. CASE Crash(d)
  <2>1. /\ OnlyDelivery(d) /\ UNCHANGED <<answer, inForce>>
        /\ pc[d] \in InWrite \union {"read_duplicate"} /\ pc'[d] = "lost"
    BY <1>4 DEF Crash, OnlyDelivery, Advance, TypeOK, fixtureVars
  <2>2. CASE UNCHANGED requests
    <3>1. answer'[d].status # "accepted"
      BY <2>1, AnswerStatus DEF AnsweredWhenDone, InWrite
    <3>2. QED
      BY <2>1, <2>2, <3>1, QuietStep DEF InWrite
  <2>3. CASE pc[d] = "created" /\ Store(d)
    BY <2>1, <2>3, StoringStep
  <2>4. QED
    BY <1>4, <2>2, <2>3 DEF Crash
<1>5. QED
  BY <1>1, <1>2, <1>3, <1>4 DEF Failure

\* What happens around the deliveries keeps the invariant.
LEMMA SurroundingsInv ==
  ASSUME IInv, TypeOK', RuleChanges \/ GraphCleared \/ FixturesStep \/ NextDay \/ UNCHANGED vars
  PROVE  IInv'
<1> USE DEF IInv
<1>1. UNCHANGED <<payload, pc, answer, requests>>
  BY DEF RuleChanges, GraphCleared, FixturesStep, NextDay, vars, commandVars
<1>2. constraints \subseteq constraints'
  BY DEF RuleChanges, GraphCleared, FixturesStep, NextDay, vars, fixtureVars, UpsertRule,
         EditRule, ClearHotels, StartSetup, CreateConstraints, CreateConstraint,
         ResolveFixtures, ApplyFixtureIds, AbortSetup, RebuildHotels
<1>3. RuleNeedsConstraint'
  <2>1. CASE RuleChanges
    BY <2>1, <1>2 DEF RuleChanges, UpsertRule, EditRule, RuleNeedsConstraint, RequestIdUnique
  <2>2. CASE GraphCleared \/ NextDay \/ UNCHANGED vars
    BY <2>2 DEF GraphCleared, ClearHotels, NextDay, vars, fixtureVars, RuleNeedsConstraint,
                RequestIdUnique
  <2>3. CASE FixturesStep
    BY <2>3, <1>2
       DEF FixturesStep, StartSetup, CreateConstraints, CreateConstraint, ResolveFixtures,
           ApplyFixtureIds, AbortSetup, RebuildHotels, RuleNeedsConstraint, RequestIdUnique
  <2>4. QED
    BY <2>1, <2>2, <2>3
<1>4. \A d \in Deliveries :
        /\ inForce[d] \subseteq inForce'[d]
        /\ pc[d] \in InWrite => EnabledLimits' \subseteq inForce'[d]
  <2>1. CASE RuleChanges
    BY <2>1 DEF RuleChanges
  <2>2. CASE ~RuleChanges
    <3>1. UNCHANGED <<rules, inForce>>
      BY <2>2 DEF GraphCleared, ClearHotels, FixturesStep, NextDay, vars, fixtureVars,
             commandVars, StartSetup, CreateConstraints, CreateConstraint, ResolveFixtures,
             ApplyFixtureIds, AbortSetup, RebuildHotels
    <3>2. EnabledLimits' = EnabledLimits
      BY <3>1 DEF EnabledLimits, EnabledRules
    <3>3. QED
      BY <3>1, <3>2 DEF LimitsTracked
  <2>3. QED
    BY <2>1, <2>2
<1>5. CreateNeedsConstraint' /\ ClaimExclusive' /\ NodesAsAsked' /\ AnsweredWhenDone'
  BY <1>1, <1>2 DEF CreateNeedsConstraint, RequestIdUnique, ClaimExclusive, Claimed, Existing,
                    NodesAsAsked, AnsweredWhenDone
<1>6. LimitsTracked'
  BY <1>1, <1>4 DEF LimitsTracked
<1>7. OneNodePerRequestId' /\ AcceptedMatchesGraph'
  BY <1>1 DEF OneNodePerRequestId, AcceptedMatchesGraph, SameInput, Contract!SameInput
<1>8. CommittedUnderLimitInForce'
  <2>1. \A r \in requests : r.by \in Deliveries
    BY DEF TypeOK, Contract!Recorded
  <2>2. QED
    BY <1>1, <1>4, <2>1 DEF CommittedUnderLimitInForce
<1>9. QED
  BY <1>3, <1>5, <1>6, <1>7, <1>8

LEMMA InvStep == IInv /\ [Next]_vars => IInv'
<1> SUFFICES ASSUME IInv, [Next]_vars PROVE IInv'
  OBVIOUS
<1>1. TypeOK'
  BY TypeStep DEF IInv
<1>2. QED
  BY <1>1, StepInv, DeliverInv, FailureInv, SurroundingsInv DEF Next

\* The strengthened invariant holds in every reachable state.
THEOREM Invariance == Spec => []IInv
  BY InvInit, InvStep, PTL DEF Spec

\* The graph never holds two requests with one ID, for any number of
\* deliveries, setups, rule edits, rebuilds and failures.
THEOREM RequestIdsUnique == Spec => []OneNodePerRequestId
<1>1. IInv => OneNodePerRequestId
  BY DEF IInv
<1>2. QED
  BY <1>1, Invariance, PTL

\* No accepted answer is ever wrong about the graph.
THEOREM AcceptedAnswersTrue == Spec => []AcceptedMatchesGraph
<1>1. IInv => AcceptedMatchesGraph
  BY DEF IInv
<1>2. QED
  BY <1>1, Invariance, PTL

\* No request is stored above every limit enabled during its transaction.
THEOREM StoredUnderLimit == Spec => []CommittedUnderLimitInForce
<1>1. IInv => CommittedUnderLimitInForce
  BY DEF IInv
<1>2. QED
  BY <1>1, Invariance, PTL

(***************************************************************************)
(* Refinement: Deliver, the checks and every failure answer are refusals,  *)
(* a commit is the record, a read of an existing request is the replay,    *)
(* and every other step is invisible to callers.                           *)
(***************************************************************************)
Refusals ==
  {Failed("service_error"), Failed("unauthorized"), Rejected("invalid_dates"),
   Rejected("unknown_hotel"), Rejected("max_guests_exceeded")}

LEMMA RefusalAnswers ==
  /\ \A p : Validate(p) = Unanswered \/ Validate(p) \in Refusals
  /\ \A p : TargetsVerdict(p) = Unanswered \/ TargetsVerdict(p) \in Refusals
  /\ \A r, p : \/ ExistingResponse(r, p) = Accepted(TRUE) /\ SameInput(r, p)
               \/ ExistingResponse(r, p) \in Refusals
  BY DEF Validate, TargetsVerdict, ExistingResponse, Refusals

LEMMA RefuseStep ==
  ASSUME NEW d \in Deliveries, NEW a \in Refusals, Contract!Open(d),
         answer' = [answer EXCEPT ![d] = a], UNCHANGED <<payload, requests>>
  PROVE  Contract!Next
<1>1. a \in Contract!Refusals
  BY DEF Refusals, Contract!Refusals, Failed, Rejected, Answer
<1>2. Contract!Refuse(d)
  BY <1>1 DEF Contract!Refuse, Unanswered
<1>3. QED
  BY <1>2 DEF Contract!Next

LEMMA ReplayStep ==
  ASSUME NEW d \in Deliveries, NEW r \in requests, SameInput(r, payload[d]),
         Contract!Open(d), answer' = [answer EXCEPT ![d] = Accepted(TRUE)],
         UNCHANGED <<payload, requests>>
  PROVE  Contract!Next
<1>1. Contract!Replay(d)
  BY DEF Contract!Replay, Unanswered, SameInput, Accepted, Answer
<1>2. QED
  BY <1>1 DEF Contract!Next

LEMMA RecordStep ==
  ASSUME IInv, NEW d \in Deliveries, Store(d), pc[d] = "created",
         NEW a \in {Unanswered, Accepted(FALSE), Failed("service_error")},
         answer' = [answer EXCEPT ![d] = a], UNCHANGED payload
  PROVE  Contract!Next
<1>1. Contract!Open(d)
  BY DEF IInv, AnsweredWhenDone, NodesAsAsked, Contract!Open, Unanswered
<1>2. \A r \in requests : r.request_id # payload[d].request_id
  BY DEF IInv, ClaimExclusive, Existing
<1>3. a \in {Contract!Unanswered, Contract!Answer("accepted", "none", FALSE),
            Contract!Answer("error", "service_error", FALSE)}
  BY DEF Unanswered, Accepted, Failed, Answer
<1>4. Contract!Record(d)
  BY <1>1, <1>2, <1>3 DEF Contract!Record, Store, Unanswered
<1>5. QED
  BY <1>4 DEF Contract!Next

LEMMA ContractStep == IInv /\ [Next]_vars => [Contract!Next]_(Contract!vars)
<1> SUFFICES ASSUME IInv, [Next]_vars PROVE [Contract!Next]_(Contract!vars)
  OBVIOUS
<1> USE DEF Contract!vars
<1>0. \A d \in Deliveries : pc[d] \notin {"done", "lost"} => Contract!Open(d)
  BY DEF IInv, AnsweredWhenDone, NodesAsAsked, Contract!Open, Unanswered
<1>1. ASSUME NEW d \in Deliveries, Deliver(d) PROVE [Contract!Next]_(Contract!vars)
  <2>1. Contract!Open(d) /\ UNCHANGED <<payload, requests>>
    BY <1>0, <1>1 DEF Deliver
  <2>2. CASE Advance(d, "begin")
    BY <2>1, <2>2 DEF Advance
  <2>3. CASE Validate(payload[d]) # Unanswered /\ Respond(d, Validate(payload[d]))
    BY <2>1, <2>3, RefusalAnswers, RefuseStep DEF Respond
  <2>4. QED
    BY <1>1, <2>2, <2>3 DEF Deliver
<1>2. ASSUME NEW d \in Deliveries, NEW r \in Existing(payload[d].request_id),
             Respond(d, ExistingResponse(r, payload[d])),
             Contract!Open(d), UNCHANGED <<payload, requests>>
      PROVE  Contract!Next
  <2>1. r \in requests
    BY DEF Existing
  <2>2. CASE ExistingResponse(r, payload[d]) \in Refusals
    BY <1>2, <2>2, RefuseStep DEF Respond
  <2>3. CASE ExistingResponse(r, payload[d]) = Accepted(TRUE) /\ SameInput(r, payload[d])
    BY <1>2, <2>1, <2>3, ReplayStep DEF Respond
  <2>4. QED
    BY <2>2, <2>3, RefusalAnswers
<1>3. ASSUME NEW d \in Deliveries, Step(d) PROVE [Contract!Next]_(Contract!vars)
  <2>1. CASE ReadExisting(d)
    <3>1. Contract!Open(d) /\ UNCHANGED <<payload, requests>>
      BY <1>0, <2>1 DEF ReadExisting
    <3>2. CASE Advance(d, "existing_read")
      BY <3>1, <3>2 DEF Advance
    <3>3. CASE Respond(d, Rejected("invalid_dates"))
      BY <3>1, <3>3, RefuseStep DEF Respond, Refusals
    <3>4. QED
      BY <1>2, <2>1, <3>1, <3>2, <3>3 DEF ReadExisting
  <2>2. CASE ReadTargets(d)
    <3>1. Contract!Open(d) /\ UNCHANGED <<payload, requests>>
      BY <1>0, <2>2 DEF ReadTargets
    <3>2. CASE Advance(d, "targets_read")
      BY <3>1, <3>2 DEF Advance
    <3>3. CASE TargetsVerdict(payload[d]) # Unanswered
                 /\ Respond(d, TargetsVerdict(payload[d]))
      BY <3>1, <3>3, RefusalAnswers, RefuseStep DEF Respond
    <3>4. QED
      BY <2>2, <3>2, <3>3 DEF ReadTargets
  <2>3. CASE MatchTargets(d)
    <3>1. Contract!Open(d) /\ UNCHANGED <<payload, requests>>
      BY <1>0, <2>3 DEF MatchTargets
    <3>2. CASE Advance(d, "matched")
      BY <3>1, <3>2 DEF Advance
    <3>3. CASE Respond(d, Failed("service_error"))
      BY <3>1, <3>3, RefuseStep DEF Respond, Refusals
    <3>4. QED
      BY <2>3, <3>2, <3>3 DEF MatchTargets
  <2>4. CASE CreateRequest(d)
    BY <2>4 DEF CreateRequest, Advance
  <2>5. CASE Commit(d)
    BY <2>5, RecordStep DEF Commit, Respond
  <2>6. CASE ReadDuplicate(d)
    <3>1. Contract!Open(d) /\ UNCHANGED <<payload, requests>>
      BY <1>0, <2>6 DEF ReadDuplicate
    <3>2. CASE Respond(d, Failed("service_error"))
      BY <3>1, <3>2, RefuseStep DEF Respond, Refusals
    <3>3. QED
      BY <1>2, <2>6, <3>1, <3>2 DEF ReadDuplicate
  <2>7. QED
    BY <1>3, <2>1, <2>2, <2>3, <2>4, <2>5, <2>6 DEF Step
<1>4. ASSUME NEW d \in Deliveries, Failure(d) PROVE [Contract!Next]_(Contract!vars)
  <2>1. CASE DriverRetries(d)
    BY <2>1 DEF DriverRetries, Advance
  <2>2. CASE CallFails(d) \/ StaleDuplicateRead(d)
    <3>1. Contract!Open(d) /\ UNCHANGED <<payload, requests>>
      BY <1>0, <2>2 DEF CallFails, StaleDuplicateRead, InWrite
    <3>2. PICK a \in Refusals : Respond(d, a)
      BY <2>2, Zenon DEF CallFails, StaleDuplicateRead, Refusals
    <3>3. QED
      BY <3>1, <3>2, RefuseStep DEF Respond
  <2>3. CASE CommitUnacknowledged(d)
    BY <2>3, RecordStep DEF CommitUnacknowledged, Respond
  <2>4. CASE Crash(d)
    <3>1. CASE UNCHANGED requests
      BY <2>4, <3>1 DEF Crash, Advance
    <3>2. CASE pc[d] = "created" /\ Store(d)
      <4>1. answer' = [answer EXCEPT ![d] = Unanswered]
        BY <1>0, <2>4, <3>2 DEF Crash, Advance, IInv, TypeOK, Contract!Open, Unanswered
      <4>2. QED
        BY <2>4, <3>2, <4>1, RecordStep DEF Crash
    <3>3. QED
      BY <2>4, <3>1, <3>2 DEF Crash
  <2>5. QED
    BY <1>4, <2>1, <2>2, <2>3, <2>4 DEF Failure
<1>5. CASE RuleChanges \/ GraphCleared \/ FixturesStep \/ NextDay \/ UNCHANGED vars
  BY <1>5 DEF RuleChanges, GraphCleared, FixturesStep, NextDay, vars, commandVars
<1>6. QED
  BY <1>1, <1>3, <1>4, <1>5 DEF Next

\* The command implements the contract: what callers and the graph see of any
\* execution is a sequence of atomic records, replays and refusals.
THEOREM Refinement == Spec => ImplementsContract
<1>1. Init => Contract!Init
  BY DEF Init
<1>2. QED
  BY <1>1, Invariance, ContractStep, PTL DEF Spec, ImplementsContract, Contract!Spec
================================================================================
