-------------------------- MODULE ReservationContract --------------------------
(***************************************************************************)
(* What the reservation command promises its callers, with none of how:    *)
(* each request ID is recorded at most once and never changes; an accepted *)
(* answer is about the recorded request and repeats the caller's input;    *)
(* only the delivery that recorded it may call it new; a rejected delivery *)
(* records nothing.  An error answer promises nothing either way.          *)
(***************************************************************************)
CONSTANTS Deliveries

VARIABLES
  payload,      \* what each delivery asks for
  requests,     \* recorded requests
  answer        \* answer of each delivery

Unanswered == [status |-> "none", reason |-> "none", duplicate |-> FALSE]
Answer(status, reason, duplicate) ==
  [status |-> status, reason |-> reason, duplicate |-> duplicate]

\* A rejection tells the caller what to correct, an error does not.
Refusals ==
  {Answer("rejected", r, FALSE) : r \in {"invalid_dates", "unknown_hotel",
                                         "max_guests_exceeded"}}
    \union {Answer("error", r, FALSE) : r \in {"service_error", "unauthorized"}}

\* Two descriptions of a request agree on every input of the command.
SameInput(a, b) ==
  /\ a.request_id = b.request_id
  /\ a.hotel_id = b.hotel_id
  /\ a.check_in = b.check_in
  /\ a.check_out = b.check_out
  /\ a.guests = b.guests

Recorded(p, d) ==
  [request_id |-> p.request_id, hotel_id |-> p.hotel_id,
   check_in |-> p.check_in, check_out |-> p.check_out,
   guests |-> p.guests, by |-> d]

Init ==
  /\ requests = {}
  /\ answer = [d \in Deliveries |-> Unanswered]

\* Nothing has come of the delivery yet.
Open(d) == answer[d] = Unanswered /\ \A r \in requests : r.by # d

\* The first acceptance of a request ID.  The caller learns it, or is told of
\* an error, or is told nothing.
Record(d) ==
  /\ Open(d)
  /\ \A r \in requests : r.request_id # payload[d].request_id
  /\ requests' = requests \union {Recorded(payload[d], d)}
  /\ \E a \in {Unanswered, Answer("accepted", "none", FALSE),
               Answer("error", "service_error", FALSE)} :
       answer' = [answer EXCEPT ![d] = a]
  /\ UNCHANGED payload

Replay(d) ==
  /\ Open(d)
  /\ \E r \in requests : SameInput(r, payload[d])
  /\ answer' = [answer EXCEPT ![d] = Answer("accepted", "none", TRUE)]
  /\ UNCHANGED <<payload, requests>>

Refuse(d) ==
  /\ Open(d)
  /\ \E a \in Refusals : answer' = [answer EXCEPT ![d] = a]
  /\ UNCHANGED <<payload, requests>>

Next == \E d \in Deliveries : Record(d) \/ Replay(d) \/ Refuse(d)

vars == <<payload, requests, answer>>

Spec == Init /\ [][Next]_vars
================================================================================
