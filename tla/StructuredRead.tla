----------------------------- MODULE StructuredRead ----------------------------
(***************************************************************************)
(* graph_query of workshop/hybrid_retrieval.py, called once at a time: the *)
(* read runs on a thread of a pool of its own, and the caller waits for it *)
(* no longer than GRAPH_QUERY_TIMEOUT_SECONDS.  A late read is not         *)
(* cancelled: its thread, and its query on the server, go on until the     *)
(* server answers, if it ever does.                                        *)
(***************************************************************************)
VARIABLES
  caller,     \* none, or waiting for its read
  thread      \* of that read, or of one that its caller gave up

readVars == <<caller, thread>>

ReadTypeOK ==
  /\ caller \in {"none", "waiting"}
  /\ thread \in {"none", "running", "late"}
  /\ thread = "running" => caller = "waiting"

ReadInit == caller = "none" /\ thread = "none"

\* A new pool of one thread, whatever earlier threads still do.
BeginRead ==
  /\ caller = "none"
  /\ caller' = "waiting"
  /\ thread' = "running"

\* Records, or an expected error.
ReadReturns ==
  /\ caller = "waiting" /\ thread = "running"
  /\ caller' = "none"
  /\ thread' = "none"

\* The server does not answer within the bound.
ReadIsLate ==
  /\ thread = "running"
  /\ thread' = "late"
  /\ UNCHANGED caller

TimesOutInWithBlock ==
  /\ caller = "waiting" /\ thread = "none"
  /\ caller' = "none"
  /\ UNCHANGED thread

\* Text2CypherRetrievalError; shutdown(wait=False) leaves the thread alone.
TimesOut ==
  /\ caller = "waiting" /\ thread # "running"
  /\ caller' = "none"
  /\ UNCHANGED thread

\* The server answers a late read.
ThreadEnds ==
  /\ thread = "late"
  /\ thread' = "none"
  /\ UNCHANGED caller
================================================================================
