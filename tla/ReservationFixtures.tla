-------------------------- MODULE ReservationFixtures --------------------------
(***************************************************************************)
(* The graph-owned data the reservation command depends on, and the setup  *)
(* that prepares it: apply_reservation_fixtures in                         *)
(* notebooks/workshop/fixtures.py.  Setup is a sequence of separate        *)
(* transactions; it can stop between any two of them and be run again.     *)
(* Around it, the graph can be cleared and rebuilt, and the rule can be    *)
(* edited by hand.                                                         *)
(***************************************************************************)
EXTENDS Integers

CONSTANTS
  FixtureHotels,   \* hotel IDs of the committed manifest
  MaxGuests,       \* the limit setup writes into the rule
  EditedRules,     \* what a hand edit may make of the rule
  MaxEdits         \* bound: hand edits of the rule plus graph clears

ASSUME FixturesAssumption ==
  /\ MaxGuests \in Nat
  /\ EditedRules \subseteq [enabled : BOOLEAN, max_guests : Nat, has_message : BOOLEAN]
  /\ MaxEdits \in Nat

VARIABLES
  graph,           \* whether every manifest source resolves to one hotel
  fixtureIds,      \* hotel_id of the hotels flagged demo6_fixture
  constraints,     \* labels whose uniqueness constraint exists
  rules,           \* Rule nodes with MAX_GUESTS_RULE_ID
  setup,           \* next statement of apply_reservation_fixtures
  edits            \* edits made so far

fixtureVars == <<graph, fixtureIds, constraints, rules, setup, edits>>

Labels == {"Hotel", "ReservationRequest", "Rule"}

SetupSteps ==
  {"idle", "hotel_constraint", "request_constraint", "rule_constraint",
   "resolve", "apply_ids", "upsert_rule"}

\* enabled stands for enabled = true together with the workshop's ownership
\* marker, which every query tests with it.
Rule == [enabled : BOOLEAN, max_guests : Nat, has_message : BOOLEAN]

PreparedRule ==
  [enabled |-> TRUE, max_guests |-> MaxGuests, has_message |-> TRUE]

FixturesTypeOK ==
  /\ graph \in {"built", "cleared"}
  /\ fixtureIds \subseteq FixtureHotels
  /\ constraints \subseteq Labels
  /\ rules \subseteq Rule
  /\ setup \in SetupSteps
  /\ edits \in Nat

\* A workshop graph before reservation setup: hotels graph, nothing else.
FixturesInit ==
  /\ graph = "built"
  /\ fixtureIds = {}
  /\ constraints = {}
  /\ rules = {}
  /\ setup = "idle"
  /\ edits = 0

(***************************************************************************)
(* apply_reservation_fixtures, one transaction at a time.                  *)
(***************************************************************************)
StartSetup ==
  /\ setup = "idle"
  /\ setup' = "hotel_constraint"
  /\ UNCHANGED <<graph, fixtureIds, constraints, rules, edits>>

\* CREATE CONSTRAINT ... IF NOT EXISTS.
CreateConstraint(step, label, next) ==
  /\ setup = step
  /\ constraints' = constraints \union {label}
  /\ setup' = next
  /\ UNCHANGED <<graph, fixtureIds, rules, edits>>

ConstraintsSkippingRequestId ==
  \/ CreateConstraint("hotel_constraint", "Hotel", "rule_constraint")
  \/ CreateConstraint("rule_constraint", "Rule", "resolve")

CreateConstraints ==
  \/ CreateConstraint("hotel_constraint", "Hotel", "request_constraint")
  \/ CreateConstraint("request_constraint", "ReservationRequest", "rule_constraint")
  \/ CreateConstraint("rule_constraint", "Rule", "resolve")

\* A source that does not resolve is returned as a problem and ends setup.
ResolveFixtures ==
  /\ setup = "resolve"
  /\ setup' = IF graph = "built" THEN "apply_ids" ELSE "idle"
  /\ UNCHANGED <<graph, fixtureIds, constraints, rules, edits>>

\* The MATCH of the apply query binds nothing when the graph was cleared after
\* it was resolved; setup does not read the count it returns.
ApplyFixtureIds ==
  /\ setup = "apply_ids"
  /\ fixtureIds' = IF graph = "built" THEN FixtureHotels ELSE fixtureIds
  /\ setup' = "upsert_rule"
  /\ UNCHANGED <<graph, constraints, rules, edits>>

UpsertRule ==
  /\ setup = "upsert_rule"
  /\ rules' = {PreparedRule}
  /\ setup' = "idle"
  /\ UNCHANGED <<graph, fixtureIds, constraints, edits>>

\* The process dies or a statement fails: what is committed stays.
AbortSetup ==
  /\ setup # "idle"
  /\ setup' = "idle"
  /\ UNCHANGED <<graph, fixtureIds, constraints, rules, edits>>

(***************************************************************************)
(* What happens to the graph around setup.                                 *)
(***************************************************************************)
\* An operator changes the prepared rule: another limit, disabled, emptied
\* message, or removed.  Nobody writes a rule where setup left none.
EditRule ==
  /\ rules # {}
  /\ edits < MaxEdits
  /\ edits' = edits + 1
  /\ rules' \in {{}} \union {{r} : r \in EditedRules}
  /\ UNCHANGED <<graph, fixtureIds, constraints, setup>>

\* clear_extracted_graph: every pipeline node goes, with its hotels; rule,
\* requests and constraints carry no pipeline label and stay.
ClearHotels ==
  /\ graph = "built"
  /\ edits < MaxEdits
  /\ edits' = edits + 1
  /\ graph' = "cleared"
  /\ fixtureIds' = {}
  /\ UNCHANGED <<constraints, rules, setup>>

\* The extraction build finished: the sources resolve, their hotels are new
\* nodes without fixture IDs.
RebuildHotels ==
  /\ graph = "cleared"
  /\ graph' = "built"
  /\ UNCHANGED <<fixtureIds, constraints, rules, setup, edits>>
================================================================================
