----------------------------- MODULE MCReservation -----------------------------
(***************************************************************************)
(* Small instance: two calls carry the same input, a third reuses their    *)
(* request ID for another party size, others are over the limit, past the  *)
(* manifest, already past their date, or malformed.                        *)
(***************************************************************************)
EXTENDS Reservation, TLC

Input(form, id, hotel, check_in, check_out, guests) ==
  [form |-> form, request_id |-> id, hotel_id |-> hotel,
   check_in |-> check_in, check_out |-> check_out, guests |-> guests]

\* A retry, a reuse of its ID for another party, and one with its ID that is
\* refused at the door.
RacingPayloads ==
  { Input("valid", "r1", "cairo", 0, 1, 1),
    Input("valid", "r1", "cairo", 0, 1, 2),
    Input("malformed", "r1", "cairo", 0, 1, 1) }

\* Every way a well-formed input can fail, next to one that can succeed.
VariedPayloads ==
  { Input("valid", "r1", "cairo", 0, 1, 2),
    Input("valid", "r1", "cairo", 0, 1, 1),
    Input("valid", "r1", "paris", 0, 1, 1),
    Input("valid", "r1", "cairo", 1, 1, 1) }

LoweredRule == {[enabled |-> TRUE, max_guests |-> 1, has_message |-> TRUE]}

BrokenRules ==
  { [enabled |-> FALSE, max_guests |-> 2, has_message |-> TRUE],
    [enabled |-> TRUE, max_guests |-> 2, has_message |-> FALSE] }

DeliverySymmetry == Permutations(Deliveries)
================================================================================
