---------------------------- MODULE RuntimeContract ----------------------------
(***************************************************************************)
(* What the deployed agent promises a caller, with no model, tools, guard  *)
(* or recorders.  However often a caller sends a request ID, one request   *)
(* carries it and never changes.  What comes back is said once: that the   *)
(* request is there, with its input, and that it is new only by the        *)
(* invocation that made it; that a command was refused or failed; or       *)
(* nothing, from an invocation that wrote nothing.  One that raises or is  *)
(* lost promises nothing, and may have written.                            *)
(***************************************************************************)
CONSTANTS
  Invocations,
  RequestIds,
  NoId          \* the caller sent no request ID

VARIABLES
  sent,         \* request ID each invocation was sent
  committed,    \* requests: their input, and the invocation that made them
  reply         \* what each invocation came back with

Reply(kind, status, duplicate, about) ==
  [kind |-> kind, status |-> status, duplicate |-> duplicate, about |-> about]

NoReply == Reply("none", "none", FALSE, {})
Silence == Reply("silent", "none", FALSE, {})
Failure == Reply("failed", "none", FALSE, {})

Init ==
  /\ sent = [i \in Invocations |-> NoId]
  /\ committed = {}
  /\ reply = [i \in Invocations |-> NoReply]

Send(i) ==
  /\ reply[i] = NoReply /\ sent[i] = NoId
  /\ \E id \in RequestIds : sent' = [sent EXCEPT ![i] = id]
  /\ UNCHANGED <<committed, reply>>

\* The first request of its ID.
Commit(i) ==
  /\ reply[i] \in {NoReply, Failure} /\ sent[i] # NoId
  /\ \A r \in committed : r.input.request_id # sent[i]
  /\ \E r \in committed' :
       /\ r.input.request_id = sent[i] /\ r.by = i
       /\ committed' = committed \union {r}
  /\ UNCHANGED <<sent, reply>>

Replies(i, said) ==
  /\ reply[i] = NoReply
  /\ reply' = [reply EXCEPT ![i] = said]
  /\ UNCHANGED <<sent, committed>>

Confirm(i) ==
  \E r \in committed, duplicate \in BOOLEAN :
    /\ r.input.request_id = sent[i]
    /\ ~duplicate => r.by = i
    /\ Replies(i, Reply("result", "accepted", duplicate, {r.input}))

Refuse(i) ==
  /\ sent[i] # NoId
  /\ \E status \in {"rejected", "error"} : Replies(i, Reply("result", status, FALSE, {}))

SayNothing(i) ==
  /\ \A r \in committed : r.by # i
  /\ Replies(i, Silence)

Fail(i) == Replies(i, Failure)

Next ==
  \E i \in Invocations :
    Send(i) \/ Commit(i) \/ Confirm(i) \/ Refuse(i) \/ SayNothing(i) \/ Fail(i)

vars == <<sent, committed, reply>>

Spec == Init /\ [][Next]_vars
================================================================================
