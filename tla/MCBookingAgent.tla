---------------------------- MODULE MCBookingAgent -----------------------------
(***************************************************************************)
(* Small instance: two invocations, which may carry the same request ID,   *)
(* and a model that may reuse, change or invent the ID, the hotel and the  *)
(* party size.                                                             *)
(***************************************************************************)
EXTENDS BookingAgent, TLC

Input(id, hotel, guests) ==
  [request_id |-> id, hotel_id |-> hotel, check_in |-> 1, check_out |-> 2,
   guests |-> guests]

ModelInputs == {Input("r1", "cairo", 1), Input("r2", "cairo", 1)}

Interchangeable == Permutations(Calls) \union Permutations(Invocations)
================================================================================
