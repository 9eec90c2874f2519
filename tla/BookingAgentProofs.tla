-------------------------- MODULE BookingAgentProofs ---------------------------
(***************************************************************************)
(* Proofs about the Runtime agent for any invocations, tool calls, inputs  *)
(* and recorder bound: its types, that its writes are grounded, that one   *)
(* caller ID makes one request, what a returned command_result means, and  *)
(* that to its caller it is RuntimeContract.                               *)
(***************************************************************************)
EXTENDS BookingAgent, SequenceTheorems, TLAPS

(***************************************************************************)
(* The parts of the inductive invariant.                                   *)
(***************************************************************************)
\* A call that was asked for belongs to an invocation that began, and one that
\* has still to finish to one whose tools run.
CallsBelong ==
  \A c \in Calls :
    /\ state[c] # "free" => stage[invocation[c]] # "idle"
    /\ state[c] \in {"asked", "running"} => stage[invocation[c]] = "tools"
    /\ state[c] = "lost" => stage[invocation[c]] = "lost"

\* The guard trusts only hotels of passage results.
VerifiedByPassages ==
  \A i \in Invocations : \A h \in verified[i] :
    \E k \in CallsOf(i, {"recorded"}) :
      tool[k] = "search_hotel_passages" /\ h \in found[k]

\* Requests are made by commands that ran, with the caller's ID.
RequestsOfCallers ==
  \A r \in requests :
    /\ r.by \in Calls
    /\ state[r.by] \in {"running", "recorded", "lost"}
    /\ tool[r.by] = "create_reservation"
    /\ r.request_id = callerId[invocation[r.by]]

RequestIdsUnique ==
  \A r, s \in requests : r.request_id = s.request_id => r = s

\* A write that was answered was recorded, and only those were.
CommandsRecorded ==
  /\ \A c \in Calls :
       tool[c] = "create_reservation" /\ state[c] = "recorded" =>
         commandResults[invocation[c]] # <<>>
  /\ \A i \in Invocations : \A n \in DOMAIN commandResults[i] :
       /\ invocation[commandResults[i][n]] = i
       /\ state[commandResults[i][n]] = "recorded"
       /\ payload[commandResults[i][n]].request_id = callerId[i]

AcceptedAreRecorded ==
  \A c \in Calls :
    /\ answer[c] # Contract!Unanswered => state[c] = "recorded"
    /\ answer[c].status = "accepted" =>
         \E r \in requests :
           /\ Contract!SameInput(r, payload[c])
           /\ ~answer[c].duplicate => r.by = c

IInv ==
  /\ TypeOK
  /\ CallsBelong
  /\ VerifiedByPassages
  /\ WritesGrounded
  /\ RequestsOfCallers
  /\ RequestIdsUnique
  /\ CommandsRecorded
  /\ AcceptedAreRecorded

(***************************************************************************)
(* The recorder.                                                           *)
(***************************************************************************)
\* What a recorder keeps is a sequence of calls within its bound.
LEMMA KeptType ==
  ASSUME NEW results \in Seq(Calls), NEW c \in Calls, NEW max \in Nat \ {0},
         Len(results) <= max
  PROVE  Kept(results, c, max) \in Seq(Calls) /\ Len(Kept(results, c, max)) <= max
<1>1. /\ Append(results, c) \in Seq(Calls)
      /\ Append(results, c) # <<>>
      /\ Len(Append(results, c)) = Len(results) + 1
  BY AppendProperties
<1>2. /\ Tail(Append(results, c)) \in Seq(Calls)
      /\ Len(Tail(Append(results, c))) = Len(results)
  BY <1>1, HeadTailProperties
<1>3. Len(results) \in Nat
  BY LenProperties
<1>4. QED
  BY <1>1, <1>2, <1>3 DEF Kept

\* The command recorder keeps the last result and no other.
LEMMA KeptLast ==
  ASSUME NEW results \in Seq(Calls), NEW c \in Calls, Len(results) <= 1
  PROVE  Kept(results, c, 1) = <<c>>
<1>1. CASE results = <<>>
  BY <1>1 DEF Kept
<1>2. ASSUME NEW b \in Calls, results = <<b>> PROVE Kept(results, c, 1) = <<c>>
  <2>1. results \in Seq(Calls) /\ results # <<>> /\ Len(results) = 1
    BY <1>2
  <2>2. Tail(results) = <<>>
    <3>1. Tail(results) \in Seq(Calls) /\ Len(Tail(results)) = 0
      BY <2>1, HeadTailProperties
    <3>2. QED
      BY <3>1, EmptySeq
  <2>3. Tail(Append(results, c)) = Append(Tail(results), c)
    BY <2>1, HeadTailAppend
  <2>4. Append(<<>>, c) = <<c>>
    OBVIOUS
  <2>5. Kept(results, c, 1) = Tail(Append(results, c))
    BY <2>1 DEF Kept
  <2>6. QED
    BY <2>2, <2>3, <2>4, <2>5
<1>3. results = <<>> \/ \E b \in Calls : results = <<b>>
  <2> DEFINE n == Len(results)
  <2>0. n \in Nat /\ n <= 1
    BY LenProperties
  <2> HIDE DEF n
  <2>10. n = 0 \/ n = 1
    BY <2>0
  <2>1. Len(results) = 0 \/ Len(results) = 1
    BY <2>10 DEF n
  <2>2. CASE Len(results) = 0
    BY <2>2, EmptySeq
  <2>3. CASE Len(results) = 1
    <3>1. results[1] \in Calls /\ results = <<results[1]>>
      BY <2>3
    <3>2. QED
      BY <3>1
  <2>4. QED
    BY <2>1, <2>2, <2>3
<1>4. QED
  BY <1>1, <1>2, <1>3

(***************************************************************************)
(* Type correctness.                                                       *)
(***************************************************************************)
\* What the contract may answer is an answer, and nothing else of it changes.
LEMMA ContractTypes ==
  ASSUME TypeOK, NEW c \in Calls,
         Contract!Record(c) \/ Contract!Replay(c) \/ Contract!Refuse(c)
  PROVE  /\ requests' \subseteq {Contract!Recorded(p, e) : p \in Inputs, e \in Calls}
         /\ answer' \in [Calls -> Answers]
         /\ UNCHANGED payload
<1>0. payload[c] \in Inputs /\ answer \in [Calls -> Answers]
  BY DEF TypeOK, Answers
<1>1. CASE Contract!Record(c)
  <2>1. Contract!Answer("accepted", "none", FALSE) \in Answers
    BY DEF Answers
  <2>2. Contract!Answer("error", "service_error", FALSE) \in Answers
    BY DEF Answers, Contract!Refusals
  <2>3. Contract!Unanswered \in Answers
    BY DEF Answers
  <2>4. PICK a \in Answers : answer' = [answer EXCEPT ![c] = a]
    BY <1>1, <2>1, <2>2, <2>3, Zenon DEF Contract!Record
  <2>5. answer' \in [Calls -> Answers]
    BY <1>0, <2>4
  <2>6. Contract!Recorded(payload[c], c) \in {Contract!Recorded(p, e) : p \in Inputs, e \in Calls}
    BY <1>0
  <2>7. QED
    BY <1>1, <2>5, <2>6 DEF Contract!Record, TypeOK
<1>2. CASE Contract!Replay(c)
  <2>1. Contract!Answer("accepted", "none", TRUE) \in Answers
    BY DEF Answers
  <2>2. answer' = [answer EXCEPT ![c] = Contract!Answer("accepted", "none", TRUE)]
    BY <1>2 DEF Contract!Replay
  <2>3. answer' \in [Calls -> Answers]
    BY <1>0, <2>1, <2>2
  <2>4. UNCHANGED <<payload, requests>>
    BY <1>2 DEF Contract!Replay
  <2>5. QED
    BY <2>3, <2>4 DEF TypeOK
<1>3. CASE Contract!Refuse(c)
  <2>1. PICK a \in Answers : answer' = [answer EXCEPT ![c] = a]
    BY <1>3, Zenon DEF Contract!Refuse, Answers
  <2>2. QED
    BY <1>0, <1>3, <2>1 DEF Contract!Refuse, TypeOK
<1>4. QED
  BY <1>1, <1>2, <1>3

\* What the agent starts with is well typed.
LEMMA TypeInit == Init => TypeOK
<1> SUFFICES ASSUME Init PROVE TypeOK
  OBVIOUS
<1>1. payload \in [Calls -> Inputs]
  BY BookingAgentAssumption DEF Init
<1>2. <<>> \in Seq(Calls) /\ Len(<<>>) = 0
  OBVIOUS
<1>3. answer \in [Calls -> Answers] /\ requests = {}
  BY DEF Init, Contract!Init, Answers
<1>4. QED
  BY <1>1, <1>2, <1>3, BookingAgentAssumption
     DEF Init, TypeOK, Tools, ReadTools, Ends, NoId, Answers

\* Every step keeps the types.
LEMMA TypeStep == TypeOK /\ [Next]_vars => TypeOK'
<1> SUFFICES ASSUME TypeOK, [Next]_vars PROVE TypeOK'
  OBVIOUS
<1> USE DEF TypeOK, recorders, calls
<1>1. ASSUME NEW i \in Invocations, Invoke(i) PROVE TypeOK'
  <2>1. CASE stage' = [stage EXCEPT ![i] = "model"]
    <3>1. PICK id \in RequestIds \union {NoId} : callerId' = [callerId EXCEPT ![i] = id]
      BY <1>1, <2>1 DEF Invoke
    <3>2. QED
      BY <1>1, <2>1, <3>1 DEF Invoke
  <2>2. CASE stage' = [stage EXCEPT ![i] = "raised"] /\ UNCHANGED callerId
    BY <1>1, <2>2 DEF Invoke, Ends
  <2>3. QED
    BY <1>1, <2>1, <2>2 DEF Invoke
<1>2. ASSUME NEW i \in Invocations, Turn(i) PROVE TypeOK'
  <2>1. PICK asked \in SUBSET {c \in Calls : state[c] = "free"} \ {{}} :
          \E t \in [asked -> Tools] :
            \E p \in [{c \in asked : t[c] = "create_reservation"} -> Inputs] :
              AskFor(i, asked, t, p)
    BY <1>2 DEF Turn
  <2>2. PICK t \in [asked -> Tools] :
          \E p \in [{c \in asked : t[c] = "create_reservation"} -> Inputs] :
            AskFor(i, asked, t, p)
    BY <2>1
  <2>3. PICK p \in [{c \in asked : t[c] = "create_reservation"} -> Inputs] :
          AskFor(i, asked, t, p)
    BY <2>2
  <2>4. payload' \in [Calls -> Inputs]
    BY <2>3 DEF AskFor
  <2>5. QED
    BY <1>2, <2>3, <2>4 DEF Turn, AskFor
<1>3. ASSUME NEW i \in Invocations, AskAgain(i) PROVE TypeOK'
  BY <1>3 DEF AskAgain
<1>10. ASSUME NEW i \in Invocations, Return(i) PROVE TypeOK'
  BY <1>10 DEF Return, Ends
<1>11. ASSUME NEW i \in Invocations, Raise(i) PROVE TypeOK'
  BY <1>11 DEF Raise, Ends
<1>4. ASSUME NEW i \in Invocations, Die(i) PROVE TypeOK'
  BY <1>4 DEF Die, Ends
<1>5. ASSUME NEW c \in Calls, Start(c) PROVE TypeOK'
  BY <1>5 DEF Start
<1>12. ASSUME NEW c \in Calls, ToolRaises(c) PROVE TypeOK'
  BY <1>12 DEF ToolRaises
<1>6. ASSUME NEW c \in Calls, ReadReturns(c) PROVE TypeOK'
  <2>1. PICK ok \in BOOLEAN, ids \in SUBSET Hotels :
          found' = [found EXCEPT ![c] = ids] /\ RecordHotelIds(c, ok, ids)
    BY <1>6 DEF ReadReturns
  <2>2. verified' \in [Invocations -> SUBSET Hotels] /\ found' \in [Calls -> SUBSET Hotels]
    BY <2>1 DEF RecordHotelIds
  <2> DEFINE kept == Kept(groundingResults[invocation[c]], c, MaxReadResults)
  <2>3. kept \in Seq(Calls) /\ Len(kept) <= MaxReadResults
    BY KeptType, BookingAgentAssumption
  <2>30. groundingResults' = [groundingResults EXCEPT ![invocation[c]] = kept]
    BY <1>6 DEF ReadReturns
  <2> HIDE DEF kept
  <2>4. /\ groundingResults' \in [Invocations -> Seq(Calls)]
        /\ \A i \in Invocations : Len(groundingResults'[i]) <= MaxReadResults
    BY <2>3, <2>30
  <2>5. QED
    BY <1>6, <2>2, <2>4 DEF ReadReturns
<1>7. ASSUME NEW c \in Calls, Command(c) PROVE TypeOK'
  <2>1. /\ requests' \subseteq {Contract!Recorded(p, e) : p \in Inputs, e \in Calls}
        /\ answer' \in [Calls -> Answers]
        /\ UNCHANGED payload
    BY <1>7, ContractTypes DEF Command
  <2> DEFINE kept == Kept(commandResults[invocation[c]], c, 1)
  <2>2. kept \in Seq(Calls) /\ Len(kept) <= 1
    BY KeptType
  <2>3. \/ UNCHANGED <<state, commandResults>>
        \/ /\ commandResults' = [commandResults EXCEPT ![invocation[c]] = kept]
           /\ state' = [state EXCEPT ![c] = "recorded"]
    BY <1>7 DEF Command, Answered
  <2> HIDE DEF kept
  <2>4. CASE UNCHANGED <<state, commandResults>>
    BY <1>7, <2>1, <2>4 DEF Command
  <2>5. CASE /\ commandResults' = [commandResults EXCEPT ![invocation[c]] = kept]
             /\ state' = [state EXCEPT ![c] = "recorded"]
    <3>1. /\ commandResults' \in [Invocations -> Seq(Calls)]
          /\ \A i \in Invocations : Len(commandResults'[i]) <= 1
      BY <2>2, <2>5
    <3>2. QED
      BY <1>7, <2>1, <2>5, <3>1 DEF Command
  <2>6. QED
    BY <2>3, <2>4, <2>5
<1>8. CASE UNCHANGED vars
  BY <1>8 DEF vars
<1>9. QED
  BY <1>1, <1>2, <1>3, <1>4, <1>5, <1>6, <1>7, <1>8, <1>10, <1>11, <1>12 DEF Next

\* Invocations, recorders and tool calls are well typed, and neither recorder
\* exceeds its bound.
THEOREM TypeCorrect == Spec => []TypeOK
  BY TypeInit, TypeStep, PTL DEF Spec

(***************************************************************************)
(* The inductive invariant.                                                *)
(***************************************************************************)
\* Calls belong to invocations, and recorders hold calls.
LEMMA Owners ==
  ASSUME TypeOK
  PROVE  /\ \A c \in Calls : invocation[c] \in Invocations
         /\ \A i \in Invocations : \A n \in DOMAIN commandResults[i] :
              commandResults[i][n] \in Calls
  BY DEF TypeOK

\* The invariant holds of the start: nothing was asked for and nothing written.
LEMMA InvInit == Init => IInv
<1> SUFFICES ASSUME Init PROVE IInv
  OBVIOUS
<1>1. TypeOK
  BY TypeInit
<1>2. requests = {} /\ \A c \in Calls : answer[c] = Contract!Unanswered
  BY DEF Init, Contract!Init
<1>3. Contract!Unanswered.status = "none"
  BY DEF Contract!Unanswered
<1>4. CommandsRecorded
  BY DEF Init, CommandsRecorded
<1>5. QED
  BY <1>1, <1>2, <1>3, <1>4
     DEF Init, IInv, CallsBelong, VerifiedByPassages, WritesGrounded, RequestsOfCallers,
         RequestIdsUnique, AcceptedAreRecorded

\* Invoking, and ending with no tool call in flight.
LEMMA StageInv ==
  ASSUME IInv, TypeOK', NEW i \in Invocations,
         Invoke(i) \/ AskAgain(i) \/ Return(i) \/ Raise(i)
  PROVE  IInv'
<1> USE Owners DEF IInv
<1>1. /\ UNCHANGED <<recorders, calls, requests, answer>>
      /\ \A j \in Invocations \ {i} : stage'[j] = stage[j] /\ callerId'[j] = callerId[j]
      /\ stage[i] \in {"idle", "model", "tools"}
      /\ stage'[i] # "idle"
      /\ stage[i] # "idle" => callerId'[i] = callerId[i]
      /\ \A c \in CallsOf(i, {"asked", "running"}) : stage[i] # "tools"
  BY DEF Invoke, AskAgain, Return, Raise, TypeOK
<1> USE DEF recorders, calls
<1>2. CallsBelong'
  BY <1>1 DEF CallsBelong, CallsOf, TypeOK
<1>3. VerifiedByPassages'
  BY <1>1 DEF VerifiedByPassages, CallsOf
<1>4. \A c \in Calls : state[c] # "free" => callerId'[invocation[c]] = callerId[invocation[c]]
  BY <1>1 DEF CallsBelong
<1>5. WritesGrounded'
  BY <1>1, <1>4 DEF WritesGrounded, CallsOf
<1>6. RequestsOfCallers' /\ RequestIdsUnique'
  BY <1>1, <1>4 DEF RequestsOfCallers, RequestIdsUnique
<1>7. CommandsRecorded'
  BY <1>1, <1>4 DEF CommandsRecorded
<1>8. AcceptedAreRecorded'
  BY <1>1 DEF AcceptedAreRecorded
<1>9. QED
  BY <1>2, <1>3, <1>5, <1>6, <1>7, <1>8

\* A turn touches only calls that were free.
LEMMA TurnInv ==
  ASSUME IInv, TypeOK', NEW i \in Invocations, Turn(i)
  PROVE  IInv'
<1> USE Owners DEF IInv
<1>1. PICK asked \in SUBSET {c \in Calls : state[c] = "free"} \ {{}} :
        \E t \in [asked -> Tools] :
          \E p \in [{c \in asked : t[c] = "create_reservation"} -> Inputs] :
            AskFor(i, asked, t, p)
  BY DEF Turn
<1>2. PICK t \in [asked -> Tools] :
        \E p \in [{c \in asked : t[c] = "create_reservation"} -> Inputs] :
          AskFor(i, asked, t, p)
  BY <1>1
<1>3. PICK p \in [{c \in asked : t[c] = "create_reservation"} -> Inputs] :
        AskFor(i, asked, t, p)
  BY <1>2
<1>4. \A c \in Calls \ asked :
        /\ state'[c] = state[c] /\ invocation'[c] = invocation[c]
        /\ tool'[c] = tool[c] /\ payload'[c] = payload[c]
  BY <1>3 DEF AskFor
<1>5. \A c \in asked : state[c] = "free" /\ state'[c] = "asked" /\ invocation'[c] = i
  BY <1>3 DEF AskFor
<1>6. /\ UNCHANGED <<callerId, recorders, found, requests, answer>>
      /\ stage[i] = "model" /\ stage'[i] = "tools"
      /\ \A j \in Invocations \ {i} : stage'[j] = stage[j]
  BY DEF Turn, TypeOK
<1> USE DEF recorders
<1>7. CallsBelong'
  BY <1>4, <1>5, <1>6 DEF CallsBelong
<1>8. VerifiedByPassages'
  BY <1>4, <1>5, <1>6 DEF VerifiedByPassages, CallsOf
<1>9. WritesGrounded'
  BY <1>4, <1>5, <1>6 DEF WritesGrounded, CallsOf
<1>10. RequestsOfCallers' /\ RequestIdsUnique'
  BY <1>4, <1>5, <1>6 DEF RequestsOfCallers, RequestIdsUnique
<1>11. CommandsRecorded'
  BY <1>4, <1>5, <1>6 DEF CommandsRecorded
<1>12. AcceptedAreRecorded'
  <2>1. \A c \in asked : answer[c] = Contract!Unanswered
    BY <1>5 DEF AcceptedAreRecorded
  <2>2. Contract!Unanswered.status # "accepted"
    BY DEF Contract!Unanswered
  <2>3. QED
    BY <1>4, <1>5, <1>6, <2>1, <2>2 DEF AcceptedAreRecorded
<1>13. QED
  BY <1>7, <1>8, <1>9, <1>10, <1>11, <1>12

\* The calls in flight are lost with their container, and nothing else is.
LEMMA DieInv ==
  ASSUME IInv, TypeOK', NEW i \in Invocations, Die(i)
  PROVE  IInv'
<1> USE Owners DEF IInv, recorders
<1>1. /\ UNCHANGED <<callerId, recorders, invocation, tool, found, payload, requests, answer>>
      /\ stage[i] \in {"model", "tools"} /\ stage'[i] = "lost"
      /\ \A j \in Invocations \ {i} : stage'[j] = stage[j]
  BY DEF Die, TypeOK
<1>2. \A c \in Calls :
        \/ state'[c] = state[c] /\ (invocation[c] = i => state[c] \notin {"asked", "running"})
        \/ /\ invocation[c] = i
           /\ state[c] \in {"asked", "running"} /\ state'[c] = "lost"
  BY DEF Die, CallsOf
<1>3. CallsBelong'
  BY <1>1, <1>2 DEF CallsBelong
<1>4. VerifiedByPassages' /\ WritesGrounded'
  BY <1>1, <1>2 DEF VerifiedByPassages, WritesGrounded, CallsOf
<1>5. RequestsOfCallers' /\ RequestIdsUnique'
  BY <1>1, <1>2 DEF RequestsOfCallers, RequestIdsUnique
<1>6. CommandsRecorded'
  BY <1>1, <1>2 DEF CommandsRecorded
<1>7. AcceptedAreRecorded'
  BY <1>1, <1>2 DEF AcceptedAreRecorded
<1>8. QED
  BY <1>3, <1>4, <1>5, <1>6, <1>7

\* The guard lets a write run only with what WritesGrounded asks for.
LEMMA StartInv ==
  ASSUME IInv, TypeOK', NEW c \in Calls, Start(c)
  PROVE  IInv'
<1> USE Owners DEF IInv, recorders
<1>1. /\ UNCHANGED <<callerId, stage, recorders, invocation, tool, found, payload,
                     requests, answer>>
      /\ state[c] = "asked" /\ stage[invocation[c]] = "tools"
      /\ state'[c] \in {"running", "skipped"}
      /\ state'[c] = "running" => Allowed(c)
      /\ \A k \in Calls \ {c} : state'[k] = state[k]
  BY DEF Start, TypeOK
<1>2. CallsBelong'
  BY <1>1 DEF CallsBelong
<1>3. VerifiedByPassages'
  BY <1>1 DEF VerifiedByPassages, CallsOf
<1>4. WritesGrounded'
  <2>1. ASSUME NEW k \in Calls, tool[k] = "create_reservation", state'[k] = "running"
        PROVE  /\ payload[k].request_id = callerId[invocation[k]]
               /\ \E m \in CallsOf(invocation[k], {"recorded"}) :
                    tool[m] = "search_hotel_passages" /\ payload[k].hotel_id \in found[m]
    <3>1. CASE k = c
      BY <1>1, <2>1, <3>1 DEF Allowed, VerifiedByPassages, TypeOK
    <3>2. CASE k # c
      BY <1>1, <2>1, <3>2 DEF WritesGrounded
    <3>3. QED
      BY <3>1, <3>2
  <2>2. QED
    BY <1>1, <2>1 DEF WritesGrounded, CallsOf
<1>5. RequestsOfCallers' /\ RequestIdsUnique'
  BY <1>1 DEF RequestsOfCallers, RequestIdsUnique
<1>6. CommandsRecorded'
  BY <1>1 DEF CommandsRecorded
<1>7. AcceptedAreRecorded'
  BY <1>1 DEF AcceptedAreRecorded
<1>8. QED
  BY <1>2, <1>3, <1>4, <1>5, <1>6, <1>7

\* A read that returns records what it found before a write can rely on it.
LEMMA ReadInv ==
  ASSUME IInv, TypeOK', NEW c \in Calls, ReadReturns(c)
  PROVE  IInv'
<1> USE Owners DEF IInv
<1>1. PICK ok \in BOOLEAN, ids \in SUBSET Hotels :
        found' = [found EXCEPT ![c] = ids] /\ RecordHotelIds(c, ok, ids)
  BY DEF ReadReturns
<1>2. /\ UNCHANGED <<callerId, stage, commandResults, invocation, tool, payload, requests,
                     answer>>
      /\ state[c] = "running" /\ state'[c] = "recorded"
      /\ tool[c] # "create_reservation"
      /\ \A k \in Calls \ {c} : state'[k] = state[k]
  BY DEF ReadReturns, ReadTools, TypeOK
<1>3. found'[c] = ids /\ \A k \in Calls \ {c} : found'[k] = found[k]
  BY <1>1 DEF TypeOK
<1>4. \A i \in Invocations : \A h \in verified'[i] :
        \/ h \in verified[i]
        \/ i = invocation[c] /\ h \in ids /\ tool[c] = "search_hotel_passages"
  BY <1>1 DEF RecordHotelIds, TypeOK
<1>5. CallsBelong'
  BY <1>2 DEF CallsBelong
<1>6. VerifiedByPassages'
  BY <1>2, <1>3, <1>4 DEF VerifiedByPassages, CallsOf
<1>7. WritesGrounded'
  BY <1>2, <1>3 DEF WritesGrounded, CallsOf
<1>8. RequestsOfCallers' /\ RequestIdsUnique'
  BY <1>2 DEF RequestsOfCallers, RequestIdsUnique
<1>9. CommandsRecorded'
  BY <1>2 DEF CommandsRecorded
<1>10. AcceptedAreRecorded'
  BY <1>2 DEF AcceptedAreRecorded
<1>11. QED
  BY <1>5, <1>6, <1>7, <1>8, <1>9, <1>10

\* A call that raised leaves nothing behind: its command had taken no effect.
LEMMA RaisesInv ==
  ASSUME IInv, TypeOK', NEW c \in Calls, ToolRaises(c)
  PROVE  IInv'
<1> USE Owners DEF IInv, recorders
<1>1. /\ UNCHANGED <<callerId, stage, recorders, invocation, tool, found, payload,
                     requests, answer>>
      /\ state[c] = "running" /\ state'[c] = "skipped"
      /\ answer[c] = Contract!Unanswered /\ \A r \in requests : r.by # c
      /\ \A k \in Calls \ {c} : state'[k] = state[k]
  BY DEF ToolRaises, Contract!Open, TypeOK
<1>2. CallsBelong'
  BY <1>1 DEF CallsBelong
<1>3. VerifiedByPassages' /\ WritesGrounded'
  BY <1>1 DEF VerifiedByPassages, WritesGrounded, CallsOf
<1>4. RequestsOfCallers' /\ RequestIdsUnique'
  BY <1>1 DEF RequestsOfCallers, RequestIdsUnique
<1>5. CommandsRecorded'
  BY <1>1 DEF CommandsRecorded
<1>6. AcceptedAreRecorded'
  BY <1>1 DEF AcceptedAreRecorded
<1>7. QED
  BY <1>2, <1>3, <1>4, <1>5, <1>6

\* What a contract step adds: at most the request it was asked for, under an ID
\* nobody used, and an answer that is true of the requests.
LEMMA ContractStep ==
  ASSUME NEW c \in Calls, answer \in [Calls -> Answers],
         Contract!Record(c) \/ Contract!Replay(c) \/ Contract!Refuse(c)
  PROVE  /\ \A k \in Calls \ {c} : answer'[k] = answer[k]
         /\ \/ requests' = requests
            \/ /\ requests' = requests \union {Contract!Recorded(payload[c], c)}
               /\ \A r \in requests : r.request_id # payload[c].request_id
         /\ answer'[c].status = "accepted" =>
              \E r \in requests' :
                /\ Contract!SameInput(r, payload[c])
                /\ ~answer'[c].duplicate => r.by = c
<1>1. CASE Contract!Record(c)
  <2> DEFINE node == Contract!Recorded(payload[c], c)
  <2>1. /\ requests' = requests \union {node}
        /\ \A r \in requests : r.request_id # payload[c].request_id
    BY <1>1 DEF Contract!Record
  <2>2. PICK a : answer' = [answer EXCEPT ![c] = a]
    BY <1>1, Zenon DEF Contract!Record
  <2>3. node \in requests' /\ Contract!SameInput(node, payload[c]) /\ node.by = c
    BY <2>1 DEF Contract!SameInput, Contract!Recorded
  <2>4. QED
    BY <2>1, <2>2, <2>3
<1>2. CASE Contract!Replay(c)
  <2>1. /\ requests' = requests
        /\ answer' = [answer EXCEPT ![c] = Contract!Answer("accepted", "none", TRUE)]
        /\ \E r \in requests : Contract!SameInput(r, payload[c])
    BY <1>2 DEF Contract!Replay
  <2>2. Contract!Answer("accepted", "none", TRUE).duplicate
    BY DEF Contract!Answer
  <2>3. QED
    BY <2>1, <2>2
<1>3. CASE Contract!Refuse(c)
  <2>1. requests' = requests
    BY <1>3 DEF Contract!Refuse
  <2>2. PICK a \in Contract!Refusals : answer' = [answer EXCEPT ![c] = a]
    BY <1>3, Zenon DEF Contract!Refuse
  <2>3. a.status # "accepted"
    BY DEF Contract!Refusals, Contract!Answer
  <2>4. QED
    BY <2>1, <2>2, <2>3
<1>4. QED
  BY <1>1, <1>2, <1>3

\* A command commits under the caller's ID, and the recorder keeps its answer.
LEMMA CommandInv ==
  ASSUME IInv, TypeOK', NEW c \in Calls, Command(c)
  PROVE  IInv'
<1> USE Owners DEF IInv
<1> DEFINE i == invocation[c]
           node == Contract!Recorded(payload[c], c)
<1>1. /\ UNCHANGED <<callerId, stage, verified, groundingResults, invocation, tool, found,
                     payload>>
      /\ state[c] = "running" /\ tool[c] = "create_reservation"
      /\ payload[c].request_id = callerId[i]
  BY DEF Command, WritesGrounded, Contract!Record, Contract!Replay, Contract!Refuse
<1>2. /\ \A k \in Calls \ {c} : answer'[k] = answer[k]
      /\ \/ requests' = requests
         \/ /\ requests' = requests \union {node}
            /\ \A r \in requests : r.request_id # payload[c].request_id
      /\ answer'[c].status = "accepted" =>
           \E r \in requests' :
             /\ Contract!SameInput(r, payload[c])
             /\ ~answer'[c].duplicate => r.by = c
  <2>1. answer \in [Calls -> Answers]
    BY DEF TypeOK
  <2>2. Contract!Record(c) \/ Contract!Replay(c) \/ Contract!Refuse(c)
    BY DEF Command
  <2>3. QED
    BY <2>1, <2>2, ContractStep
<1>3. node.by = c /\ node.request_id = payload[c].request_id
  BY DEF Contract!Recorded
<1>4. requests \subseteq requests' /\ \A r \in requests' : r \in requests \/ r = node
  BY <1>2
<1>5. \/ /\ UNCHANGED <<state, commandResults>>
         /\ answer'[c] = Contract!Unanswered
      \/ /\ state'[c] = "recorded" /\ \A k \in Calls \ {c} : state'[k] = state[k]
         /\ commandResults'[i] = <<c>>
         /\ \A j \in Invocations \ {i} : commandResults'[j] = commandResults[j]
  <2>1. CASE answer'[c] = Contract!Unanswered
    BY <2>1 DEF Command, Answered
  <2>2. CASE answer'[c] # Contract!Unanswered
    <3>1. /\ state' = [state EXCEPT ![c] = "recorded"]
          /\ commandResults' = [commandResults EXCEPT ![i] = Kept(@, c, 1)]
      BY <2>2 DEF Command, Answered
    <3>2. Kept(commandResults[i], c, 1) = <<c>>
      BY KeptLast DEF TypeOK
    <3>3. QED
      BY <3>1, <3>2 DEF TypeOK
  <2>3. QED
    BY <2>1, <2>2
<1> HIDE DEF i, node
<1>6. state'[c] \in {"running", "recorded"} /\ \A k \in Calls \ {c} : state'[k] = state[k]
  BY <1>1, <1>5
<1>7. CallsBelong'
  BY <1>1, <1>6 DEF CallsBelong
<1>8. VerifiedByPassages' /\ WritesGrounded'
  BY <1>1, <1>6 DEF VerifiedByPassages, WritesGrounded, CallsOf
<1>9. RequestsOfCallers'
  <2>1. ASSUME NEW r \in requests
        PROVE  /\ r.by \in Calls
               /\ state'[r.by] \in {"running", "recorded", "lost"}
               /\ tool[r.by] = "create_reservation"
               /\ r.request_id = callerId[invocation[r.by]]
    BY <1>6 DEF RequestsOfCallers
  <2>2. /\ node.by \in Calls
        /\ state'[node.by] \in {"running", "recorded", "lost"}
        /\ tool[node.by] = "create_reservation"
        /\ node.request_id = callerId[invocation[node.by]]
    BY <1>1, <1>3, <1>6 DEF i
  <2>3. QED
    BY <1>1, <1>4, <2>1, <2>2 DEF RequestsOfCallers
<1>10. RequestIdsUnique'
  BY <1>2, <1>3 DEF RequestIdsUnique
<1>11. CommandsRecorded'
  <2>1. CASE UNCHANGED <<state, commandResults>>
    BY <1>1, <2>1 DEF CommandsRecorded
  <2>2. CASE /\ state'[c] = "recorded" /\ \A k \in Calls \ {c} : state'[k] = state[k]
             /\ commandResults'[i] = <<c>>
             /\ \A j \in Invocations \ {i} : commandResults'[j] = commandResults[j]
    <3>1. \A k \in Calls : tool[k] = "create_reservation" /\ state'[k] = "recorded" =>
            commandResults'[invocation[k]] # <<>>
      BY <1>1, <2>2 DEF CommandsRecorded, i
    <3>2. \A j \in Invocations : \A n \in DOMAIN commandResults'[j] :
            /\ invocation[commandResults'[j][n]] = j
            /\ state'[commandResults'[j][n]] = "recorded"
            /\ payload[commandResults'[j][n]].request_id = callerId[j]
      <4>1. ASSUME NEW n \in DOMAIN commandResults'[i]
            PROVE  commandResults'[i][n] = c
        BY <2>2
      <4>2. ASSUME NEW j \in Invocations \ {i}, NEW n \in DOMAIN commandResults[j]
            PROVE  /\ invocation[commandResults[j][n]] = j
                   /\ state'[commandResults[j][n]] = "recorded"
                   /\ payload[commandResults[j][n]].request_id = callerId[j]
        BY <1>1, <2>2, <4>2 DEF CommandsRecorded, i
      <4>3. QED
        BY <1>1, <2>2, <4>1, <4>2 DEF i
    <3>3. QED
      BY <1>1, <3>1, <3>2 DEF CommandsRecorded
  <2>3. QED
    BY <1>5, <2>1, <2>2
<1>12. AcceptedAreRecorded'
  <2>1. ASSUME NEW k \in Calls \ {c}
        PROVE  /\ answer'[k] # Contract!Unanswered => state'[k] = "recorded"
               /\ answer'[k].status = "accepted" =>
                    \E r \in requests' :
                      /\ Contract!SameInput(r, payload[k])
                      /\ ~answer'[k].duplicate => r.by = k
    BY <1>2, <1>4, <1>6 DEF AcceptedAreRecorded
  <2>2. answer'[c] # Contract!Unanswered => state'[c] = "recorded"
    BY <1>5
  <2>3. QED
    BY <1>1, <1>2, <2>1, <2>2 DEF AcceptedAreRecorded
<1>13. QED
  BY <1>7, <1>8, <1>9, <1>10, <1>11, <1>12

\* A stuttering step changes nothing the invariant speaks of.
LEMMA StutterInv == ASSUME IInv, UNCHANGED vars PROVE IInv'
  BY DEF IInv, vars, recorders, calls, TypeOK, CallsBelong, VerifiedByPassages,
         WritesGrounded, RequestsOfCallers, RequestIdsUnique, CommandsRecorded,
         AcceptedAreRecorded, CallsOf

\* Every step keeps the invariant.
LEMMA InvStep == IInv /\ [Next]_vars => IInv'
<1> SUFFICES ASSUME IInv, [Next]_vars PROVE IInv'
  OBVIOUS
<1>1. TypeOK'
  BY TypeStep DEF IInv
<1>2. QED
  BY <1>1, StageInv, TurnInv, DieInv, StartInv, ReadInv, RaisesInv, CommandInv, StutterInv
     DEF Next

\* The invariant the properties follow from: what the hooks and recorders hold
\* agrees with the calls and with the committed requests.
THEOREM Invariance == Spec => []IInv
  BY InvInit, InvStep, PTL DEF Spec

(***************************************************************************)
(* What follows.                                                           *)
(***************************************************************************)
\* Whatever the model asks for, a command runs only with the caller's request
\* ID and a hotel from a passage result.
THEOREM Grounded == Spec => []WritesGrounded
<1>1. IInv => WritesGrounded
  BY DEF IInv
<1>2. QED
  BY <1>1, Invariance, PTL

\* However often a caller retries and the model writes, its ID makes one request.
THEOREM OneRequest == Spec => []OneRequestPerCallerId
<1>1. IInv => OneRequestPerCallerId
  BY DEF IInv, RequestsOfCallers, RequestIdsUnique, OneRequestPerCallerId
<1>2. QED
  BY <1>1, Invariance, PTL

\* An accepted command_result is a request of this caller in the graph.
THEOREM AcceptedReports == Spec => []ReportsTrue
<1>1. ASSUME IInv PROVE ReportsTrue
  <2> SUFFICES ASSUME NEW i \in Invocations, commandResults[i] # <<>>,
                      answer[Result(i)].status = "accepted"
               PROVE  \E r \in requests :
                        /\ r.request_id = callerId[i]
                        /\ Contract!SameInput(r, payload[Result(i)])
                        /\ ~answer[Result(i)].duplicate => invocation[r.by] = i
    BY DEF ReportsTrue
  <2> DEFINE c == Result(i)
  <2>1. commandResults[i] \in Seq(Calls)
    BY <1>1 DEF IInv, TypeOK
  <2>2. Len(commandResults[i]) \in DOMAIN commandResults[i] /\ c \in Calls
    BY <2>1, EmptySeq, LenProperties DEF Result
  <2>3. invocation[c] = i /\ payload[c].request_id = callerId[i]
    BY <1>1, <2>2 DEF IInv, CommandsRecorded, Result
  <2>4. \E r \in requests : Contract!SameInput(r, payload[c]) /\ (~answer[c].duplicate => r.by = c)
    BY <1>1, <2>2 DEF IInv, AcceptedAreRecorded
  <2>5. QED
    BY <2>3, <2>4 DEF Contract!SameInput
<1>2. QED
  BY <1>1, Invariance, PTL

\* Without a command_result, the invocation wrote nothing.
THEOREM SilentInvocations == Spec => []SilenceMeansNothingWritten
<1>1. ASSUME IInv PROVE SilenceMeansNothingWritten
  <2> SUFFICES ASSUME NEW i \in Invocations, stage[i] = "returned", commandResults[i] = <<>>,
                      NEW r \in requests, invocation[r.by] = i
               PROVE  FALSE
    BY DEF SilenceMeansNothingWritten, Returned
  <2>1. r.by \in Calls /\ state[r.by] \in {"running", "recorded", "lost"}
        /\ tool[r.by] = "create_reservation"
    BY <1>1 DEF IInv, RequestsOfCallers
  <2>2. state[r.by] = "recorded"
    BY <1>1, <2>1 DEF IInv, CallsBelong
  <2>3. QED
    BY <1>1, <2>1, <2>2 DEF IInv, CommandsRecorded
<1>2. QED
  BY <1>1, Invariance, PTL

(***************************************************************************)
(* The evidence.  A hotel is verified by the read that records it, and     *)
(* nothing is dropped before the recorder is full.                         *)
(***************************************************************************)
Shows(k, h) == tool[k] = "search_hotel_passages" /\ h \in found[k]

ShowsNext(k, h) == tool'[k] = "search_hotel_passages" /\ h \in found'[k]

EvidenceKept ==
  \A i \in Invocations : Len(groundingResults[i]) < MaxReadResults =>
    \A h \in verified[i] :
      \E n \in DOMAIN groundingResults[i] : Shows(groundingResults[i][n], h)

ReadsRecorded ==
  \A i \in Invocations : \A n \in DOMAIN groundingResults[i] :
    state[groundingResults[i][n]] = "recorded"

WritesVerified ==
  \A c \in Calls :
    tool[c] = "create_reservation" /\ state[c] \in {"running", "recorded"} =>
      payload[c].hotel_id \in verified[invocation[c]]

ResultsAreWrites ==
  \A i \in Invocations : \A n \in DOMAIN commandResults[i] :
    tool[commandResults[i][n]] = "create_reservation"

EInv == IInv /\ EvidenceKept /\ ReadsRecorded /\ WritesVerified /\ ResultsAreWrites

EParts == EvidenceKept /\ ReadsRecorded /\ WritesVerified /\ ResultsAreWrites

\* Both recorders hold calls.
LEMMA Held ==
  ASSUME TypeOK, NEW i \in Invocations
  PROVE  /\ \A n \in DOMAIN groundingResults[i] : groundingResults[i][n] \in Calls
         /\ \A n \in DOMAIN commandResults[i] : commandResults[i][n] \in Calls
  BY DEF TypeOK

LEMMA EvidenceInit == Init => EInv
<1> SUFFICES ASSUME Init PROVE EInv
  OBVIOUS
<1>1. IInv
  BY InvInit
<1>2. EParts
  BY DEF Init, EParts, EvidenceKept, ReadsRecorded, WritesVerified, ResultsAreWrites
<1>3. QED
  BY <1>1, <1>2 DEF EInv, EParts

\* A step that records nothing, and changes no call that runs or is recorded, leaves
\* the evidence as it is.
LEMMA EvidenceStays ==
  ASSUME EInv, UNCHANGED recorders,
         \A c \in Calls :
           /\ state[c] = "recorded" =>
                state'[c] = "recorded" /\ tool'[c] = tool[c] /\ found'[c] = found[c]
           /\ tool'[c] = "create_reservation" /\ state'[c] \in {"running", "recorded"} =>
                payload'[c].hotel_id \in verified[invocation'[c]]
  PROVE  EParts'
<1> USE DEF EInv
<1>1. TypeOK
  BY DEF IInv
<1>2. ReadsRecorded'
  BY <1>1, Held DEF ReadsRecorded, recorders
<1>3. ResultsAreWrites'
  <2>1. \A i \in Invocations : \A n \in DOMAIN commandResults[i] :
          state[commandResults[i][n]] = "recorded"
    BY DEF IInv, CommandsRecorded
  <2>2. QED
    BY <1>1, <2>1, Held DEF ResultsAreWrites, recorders
<1>4. EvidenceKept'
  <2> SUFFICES ASSUME NEW i \in Invocations, Len(groundingResults[i]) < MaxReadResults,
                      NEW h \in verified[i]
               PROVE  \E n \in DOMAIN groundingResults[i] : Shows(groundingResults[i][n], h)'
    BY DEF EvidenceKept, Shows, recorders
  <2>1. PICK n \in DOMAIN groundingResults[i] : Shows(groundingResults[i][n], h)
    BY DEF EvidenceKept
  <2>2. groundingResults[i][n] \in Calls /\ state[groundingResults[i][n]] = "recorded"
    BY <1>1, Held DEF ReadsRecorded
  <2>3. QED
    BY <2>1, <2>2 DEF Shows, recorders
<1>5. WritesVerified'
  BY DEF WritesVerified, recorders
<1>6. QED
  BY <1>2, <1>3, <1>4, <1>5 DEF EParts

LEMMA UnrecordedEvidence ==
  ASSUME EInv,
         \/ \E i \in Invocations :
              Invoke(i) \/ Turn(i) \/ AskAgain(i) \/ Return(i) \/ Raise(i) \/ Die(i)
         \/ \E c \in Calls : Start(c) \/ ToolRaises(c)
         \/ UNCHANGED vars
  PROVE  EParts'
<1> USE DEF EInv, IInv
<1>1. CASE \/ \E i \in Invocations : Invoke(i) \/ AskAgain(i) \/ Return(i) \/ Raise(i)
           \/ UNCHANGED vars
  <2>1. UNCHANGED <<recorders, calls>>
    BY <1>1 DEF Invoke, AskAgain, Return, Raise, vars
  <2>2. QED
    BY <2>1, EvidenceStays DEF WritesVerified, calls
<1>2. ASSUME NEW i \in Invocations, Turn(i) PROVE EParts'
  <2>1. PICK asked \in SUBSET {c \in Calls : state[c] = "free"} :
          /\ state' = [c \in Calls |-> IF c \in asked THEN "asked" ELSE state[c]]
          /\ \A c \in Calls \ asked :
               tool'[c] = tool[c] /\ invocation'[c] = invocation[c] /\ payload'[c] = payload[c]
    <3>1. PICK asked \in SUBSET {c \in Calls : state[c] = "free"} \ {{}} :
            \E t \in [asked -> Tools] :
              \E p \in [{c \in asked : t[c] = "create_reservation"} -> Inputs] :
                AskFor(i, asked, t, p)
      BY <1>2 DEF Turn
    <3>2. PICK t \in [asked -> Tools] :
            \E p \in [{c \in asked : t[c] = "create_reservation"} -> Inputs] :
              AskFor(i, asked, t, p)
      BY <3>1
    <3>3. PICK p \in [{c \in asked : t[c] = "create_reservation"} -> Inputs] :
            AskFor(i, asked, t, p)
      BY <3>2
    <3>4. DOMAIN p \subseteq asked
      OBVIOUS
    <3>5. QED
      BY <3>3, <3>4 DEF AskFor
  <2>2. UNCHANGED <<recorders, found>>
    BY <1>2 DEF Turn
  <2>3. QED
    BY <2>1, <2>2, EvidenceStays DEF WritesVerified
<1>3. ASSUME NEW i \in Invocations, Die(i) PROVE EParts'
  <2>1. /\ UNCHANGED <<recorders, tool, found, payload, invocation>>
        /\ \A c \in Calls :
             /\ state[c] = "recorded" => state'[c] = "recorded"
             /\ state'[c] \in {"running", "recorded"} => state'[c] = state[c]
    BY <1>3 DEF Die, CallsOf
  <2>2. QED
    BY <2>1, EvidenceStays DEF WritesVerified
<1>4. ASSUME NEW c \in Calls, Start(c) \/ ToolRaises(c) PROVE EParts'
  <2>1. /\ UNCHANGED <<recorders, tool, found, payload, invocation>>
        /\ state[c] \in {"asked", "running"} /\ state'[c] \in {"running", "skipped"}
        /\ state'[c] = "running" => Allowed(c)
        /\ \A k \in Calls \ {c} : state'[k] = state[k]
    BY <1>4 DEF Start, ToolRaises, TypeOK
  <2>2. QED
    BY <2>1, EvidenceStays DEF WritesVerified, Allowed
<1>5. QED
  BY <1>1, <1>2, <1>3, <1>4

\* A read that verifies hotels is itself kept.
LEMMA ReadEvidence ==
  ASSUME EInv, NEW c \in Calls, ReadReturns(c)
  PROVE  EParts'
<1> USE DEF EInv, IInv
<1> PICK i \in Invocations : i = invocation[c]
  BY DEF TypeOK
<1>1. /\ UNCHANGED <<commandResults, invocation, tool, payload>>
      /\ state[c] = "running" /\ tool[c] \in ReadTools
      /\ state' = [state EXCEPT ![c] = "recorded"]
      /\ groundingResults' =
           [groundingResults EXCEPT ![i] = Kept(groundingResults[i], c, MaxReadResults)]
  BY DEF ReadReturns, TypeOK
<1>2. /\ \A k \in Calls \ {c} : found'[k] = found[k]
      /\ \A j \in Invocations \ {i} : verified'[j] = verified[j]
      /\ verified[i] \subseteq verified'[i]
      /\ \A h \in verified'[i] : h \in verified[i] \/ ShowsNext(c, h)
  BY DEF ReadReturns, RecordHotelIds, ShowsNext, TypeOK
<1>3. groundingResults[i] \in Seq(Calls) /\ Len(groundingResults[i]) <= MaxReadResults
      /\ Len(groundingResults[i]) \in Nat /\ MaxReadResults \in Nat \ {0}
  BY BookingAgentAssumption, LenProperties DEF TypeOK
<1>4. Append(groundingResults[i], c) \in Seq(Calls)
      /\ Len(Append(groundingResults[i], c)) = Len(groundingResults[i]) + 1
      /\ Append(groundingResults[i], c) # <<>>
  BY <1>3, AppendProperties
<1>5. groundingResults'[i] \in Seq(Calls)
  BY <1>1, <1>3, KeptType DEF TypeOK
<1>6. \A n \in DOMAIN groundingResults'[i] :
        groundingResults'[i][n] = c
          \/ \E m \in DOMAIN groundingResults[i] : groundingResults'[i][n] = groundingResults[i][m]
  <2>1. groundingResults'[i] = Kept(groundingResults[i], c, MaxReadResults)
    BY <1>1 DEF TypeOK
  <2>2. CASE Len(groundingResults[i]) + 1 > MaxReadResults
    BY <1>3, <2>1, <2>2 DEF Kept
  <2>3. CASE ~(Len(groundingResults[i]) + 1 > MaxReadResults)
    BY <1>3, <2>1, <2>3 DEF Kept
  <2>4. QED
    BY <2>2, <2>3
<1>7. ReadsRecorded'
  <2>1. ASSUME NEW j \in Invocations, NEW n \in DOMAIN groundingResults'[j]
        PROVE  state'[groundingResults'[j][n]] = "recorded"
    <3>1. CASE j = i
      BY <1>1, <1>6, <3>1, Held DEF ReadsRecorded, TypeOK
    <3>2. CASE j # i
      BY <1>1, <3>2, Held DEF ReadsRecorded, TypeOK
    <3>3. QED
      BY <3>1, <3>2
  <2>2. QED
    BY <2>1 DEF ReadsRecorded
<1>8. EvidenceKept'
  <2> SUFFICES ASSUME NEW j \in Invocations, Len(groundingResults'[j]) < MaxReadResults,
                      NEW h \in verified'[j]
               PROVE  \E n \in DOMAIN groundingResults'[j] : ShowsNext(groundingResults'[j][n], h)
    BY DEF EvidenceKept, Shows, ShowsNext
  <2>1. \A k \in Calls : state[k] = "recorded" => (Shows(k, h) <=> ShowsNext(k, h))
    BY <1>1, <1>2 DEF Shows, ShowsNext
  <2>2. CASE j # i
    <3>1. groundingResults'[j] = groundingResults[j] /\ h \in verified[j]
      BY <1>1, <1>2, <2>2 DEF TypeOK
    <3>2. PICK n \in DOMAIN groundingResults[j] : Shows(groundingResults[j][n], h)
      BY <3>1 DEF EvidenceKept
    <3>3. groundingResults[j][n] \in Calls /\ state[groundingResults[j][n]] = "recorded"
      BY Held DEF ReadsRecorded
    <3>4. QED
      BY <2>1, <3>1, <3>2, <3>3
  <2>3. CASE j = i
    <3>1. groundingResults'[i] = Append(groundingResults[i], c)
      <4>1. groundingResults'[i] = Kept(groundingResults[i], c, MaxReadResults)
        BY <1>1 DEF TypeOK
      <4>2. Len(groundingResults[i]) + 1 > MaxReadResults =>
              Len(groundingResults'[i]) = Len(groundingResults[i])
        BY <1>3, <1>4, <4>1, HeadTailProperties DEF Kept
      <4>3. ~(Len(groundingResults[i]) + 1 > MaxReadResults)
        BY <1>3, <2>3, <4>2
      <4>4. QED
        BY <4>1, <4>3 DEF Kept
    <3>2. Len(groundingResults[i]) < MaxReadResults
      BY <1>3, <1>4, <2>3, <3>1
    <3>3. DOMAIN groundingResults'[i] = 1..(Len(groundingResults[i]) + 1)
          /\ groundingResults'[i][Len(groundingResults[i]) + 1] = c
          /\ \A n \in DOMAIN groundingResults[i] :
               n \in DOMAIN groundingResults'[i] /\ groundingResults'[i][n] = groundingResults[i][n]
      BY <1>3, <3>1
    <3>4. CASE ShowsNext(c, h)
      BY <1>3, <2>3, <3>3, <3>4
    <3>5. CASE h \in verified[i]
      <4>1. PICK n \in DOMAIN groundingResults[i] : Shows(groundingResults[i][n], h)
        BY <3>2, <3>5 DEF EvidenceKept
      <4>2. groundingResults[i][n] \in Calls /\ state[groundingResults[i][n]] = "recorded"
        BY Held DEF ReadsRecorded
      <4>3. QED
        BY <2>1, <2>3, <3>3, <4>1, <4>2
    <3>6. QED
      BY <1>2, <2>3, <3>4, <3>5
  <2>4. QED
    BY <2>2, <2>3
<1>9. WritesVerified'
  <2>1. tool[c] # "create_reservation"
    BY <1>1 DEF ReadTools
  <2>2. \A j \in Invocations : verified[j] \subseteq verified'[j]
    BY <1>2
  <2>3. QED
    BY <1>1, <2>1, <2>2 DEF WritesVerified, TypeOK
<1>10. ResultsAreWrites'
  BY <1>1 DEF ResultsAreWrites
<1>11. QED
  BY <1>7, <1>8, <1>9, <1>10 DEF EParts

LEMMA CommandEvidence ==
  ASSUME EInv, NEW c \in Calls, Command(c)
  PROVE  EParts'
<1> USE DEF EInv, IInv
<1>1. /\ state[c] = "running" /\ tool[c] = "create_reservation"
      /\ UNCHANGED <<verified, groundingResults, invocation, tool, found, payload>>
  BY ContractTypes DEF Command
<1>2. \/ UNCHANGED <<state, commandResults>>
      \/ /\ state' = [state EXCEPT ![c] = "recorded"]
         /\ commandResults' = [commandResults EXCEPT ![invocation[c]] = Kept(@, c, 1)]
  BY DEF Command, Answered
<1>3. \A k \in Calls : state[k] = "recorded" => state'[k] = "recorded"
  BY <1>2 DEF TypeOK
<1>4. ReadsRecorded'
  BY <1>1, <1>3, Held DEF ReadsRecorded
<1>5. EvidenceKept'
  BY <1>1 DEF EvidenceKept, Shows
<1>6. WritesVerified'
  BY <1>1, <1>2 DEF WritesVerified, TypeOK
<1>7. ResultsAreWrites'
  <2>1. CASE UNCHANGED commandResults
    BY <1>1, <2>1 DEF ResultsAreWrites
  <2>2. CASE commandResults' = [commandResults EXCEPT ![invocation[c]] = Kept(@, c, 1)]
    <3>1. invocation[c] \in Invocations /\ commandResults'[invocation[c]] = <<c>>
      BY <2>2, KeptLast DEF TypeOK
    <3>2. \A j \in Invocations \ {invocation[c]} : commandResults'[j] = commandResults[j]
      BY <2>2 DEF TypeOK
    <3>3. QED
      BY <1>1, <3>1, <3>2 DEF ResultsAreWrites
  <2>3. QED
    BY <1>2, <2>1, <2>2
<1>8. QED
  BY <1>4, <1>5, <1>6, <1>7 DEF EParts

\* Every step keeps the evidence.
LEMMA EvidenceStep == EInv /\ [Next]_vars => EInv'
<1> SUFFICES ASSUME EInv, [Next]_vars PROVE EInv'
  OBVIOUS
<1>1. IInv'
  BY InvStep DEF EInv
<1>2. EParts'
  BY UnrecordedEvidence, ReadEvidence, CommandEvidence DEF Next
<1>3. QED
  BY <1>1, <1>2 DEF EInv, EParts

\* booking_agent.py's invoke returns, with a command_result, the passage result that
\* showed its hotel, as long as the grounding recorder is not full.
THEOREM EvidenceGoesAlong == Spec => []EvidenceReturned
<1>1. ASSUME EInv PROVE EvidenceReturned
  <2> SUFFICES ASSUME NEW i \in Invocations, commandResults[i] # <<>>,
                      Len(groundingResults[i]) < MaxReadResults
               PROVE  \E n \in DOMAIN groundingResults[i] :
                        Shows(groundingResults[i][n], payload[Result(i)].hotel_id)
    BY DEF EvidenceReturned, Shows
  <2>1. commandResults[i] \in Seq(Calls)
    BY <1>1 DEF EInv, IInv, TypeOK
  <2>2. Len(commandResults[i]) \in DOMAIN commandResults[i] /\ Result(i) \in Calls
    BY <2>1, EmptySeq, LenProperties DEF Result
  <2>3. invocation[Result(i)] = i /\ state[Result(i)] = "recorded"
        /\ tool[Result(i)] = "create_reservation"
    BY <1>1, <2>2 DEF EInv, IInv, CommandsRecorded, ResultsAreWrites, Result
  <2>4. payload[Result(i)].hotel_id \in verified[i]
    BY <1>1, <2>2, <2>3 DEF EInv, WritesVerified
  <2>5. QED
    BY <1>1, <2>4 DEF EInv, EvidenceKept
<1>2. QED
  BY <1>1, EvidenceInit, EvidenceStep, PTL DEF Spec

(***************************************************************************)
(* The caller's view.  The agent is RuntimeContract once three more facts  *)
(* are known: no ID before the invocation, no write without one, and no    *)
(* recorded command that has not answered.                                 *)
(***************************************************************************)
IdleUnsent == \A i \in Invocations : stage[i] = "idle" => callerId[i] = NoId

WritesSent ==
  \A c \in Calls :
    tool[c] = "create_reservation" /\ state[c] \in {"running", "recorded"} =>
      callerId[invocation[c]] # NoId

ResultsAnswered ==
  \A i \in Invocations : \A n \in DOMAIN commandResults[i] :
    answer[commandResults[i][n]] # Contract!Unanswered

CParts == IdleUnsent /\ WritesSent /\ ResultsAnswered

CInv == EInv /\ CParts

\* The three facts hold of the start.
LEMMA CallerInit == Init => CInv
<1>1. Init => IdleUnsent /\ WritesSent /\ ResultsAnswered
  BY DEF Init, IdleUnsent, WritesSent, ResultsAnswered
<1>2. QED
  BY <1>1, EvidenceInit DEF CInv, CParts

\* A step by which no write comes to run but with an ID, and no result is recorded.
LEMMA CallerStays ==
  ASSUME CInv, UNCHANGED <<commandResults, answer>>,
         \A i \in Invocations : stage'[i] = "idle" => callerId'[i] = NoId,
         \A c \in Calls :
           tool'[c] = "create_reservation" /\ state'[c] \in {"running", "recorded"} =>
             callerId'[invocation'[c]] # NoId
  PROVE  CParts'
  BY DEF CInv, CParts, IdleUnsent, WritesSent, ResultsAnswered

\* Every step keeps them: a write runs only with an ID, and is recorded only answered.
LEMMA CallerStep == CInv /\ [Next]_vars => CInv'
<1> SUFFICES ASSUME CInv, [Next]_vars PROVE CInv'
  OBVIOUS
<1> USE DEF CInv, EInv, IInv
<1>1. ASSUME NEW i \in Invocations, Invoke(i) PROVE CParts'
  <2>1. /\ UNCHANGED <<recorders, calls, requests, answer>>
        /\ stage[i] = "idle" /\ stage'[i] # "idle"
        /\ \A j \in Invocations \ {i} : stage'[j] = stage[j] /\ callerId'[j] = callerId[j]
    BY <1>1 DEF Invoke, TypeOK
  <2>2. \A c \in Calls : state[c] # "free" => invocation[c] \in Invocations \ {i}
    BY <2>1, Owners DEF CallsBelong
  <2>3. QED
    BY <2>1, <2>2, CallerStays DEF CParts, IdleUnsent, WritesSent, recorders, calls
<1>2. ASSUME NEW i \in Invocations, AskAgain(i) \/ Return(i) \/ Raise(i) PROVE CParts'
  <2>1. /\ UNCHANGED <<callerId, recorders, calls, requests, answer>>
        /\ \A j \in Invocations : stage'[j] = "idle" => stage[j] = "idle"
    BY <1>2 DEF AskAgain, Return, Raise, TypeOK
  <2>2. QED
    BY <2>1, CallerStays DEF CParts, IdleUnsent, WritesSent, recorders, calls
<1>3. ASSUME NEW i \in Invocations, Turn(i) PROVE CParts'
  <2>1. PICK asked \in SUBSET {c \in Calls : state[c] = "free"} :
          /\ state' = [c \in Calls |-> IF c \in asked THEN "asked" ELSE state[c]]
          /\ \A c \in Calls \ asked : tool'[c] = tool[c] /\ invocation'[c] = invocation[c]
    BY <1>3 DEF Turn, AskFor
  <2>2. /\ UNCHANGED <<callerId, recorders, answer>>
        /\ \A j \in Invocations : stage'[j] = "idle" => stage[j] = "idle"
    BY <1>3 DEF Turn, TypeOK
  <2>3. QED
    BY <2>1, <2>2, CallerStays DEF CParts, IdleUnsent, WritesSent, recorders
<1>4. ASSUME NEW i \in Invocations, Die(i) PROVE CParts'
  <2>1. /\ UNCHANGED <<callerId, recorders, tool, invocation, answer>>
        /\ \A j \in Invocations : stage'[j] = "idle" => stage[j] = "idle"
        /\ \A c \in Calls : state'[c] \in {"running", "recorded"} => state'[c] = state[c]
    BY <1>4 DEF Die, TypeOK
  <2>2. QED
    BY <2>1, CallerStays DEF CParts, IdleUnsent, WritesSent, recorders
<1>5. ASSUME NEW c \in Calls, Start(c) \/ ToolRaises(c) \/ ReadReturns(c) PROVE CParts'
  <2>1. /\ UNCHANGED <<callerId, stage, commandResults, tool, invocation, answer>>
        /\ \A k \in Calls \ {c} : state'[k] = state[k]
        /\ tool[c] = "create_reservation" /\ state'[c] \in {"running", "recorded"} =>
             Allowed(c)
    BY <1>5 DEF Start, ToolRaises, ReadReturns, ReadTools, recorders, TypeOK
  <2>2. QED
    BY <2>1, CallerStays DEF CParts, IdleUnsent, WritesSent, Allowed
<1>6. ASSUME NEW c \in Calls, Command(c) PROVE CParts'
  <2>1. /\ UNCHANGED <<callerId, stage, tool, invocation>>
        /\ state[c] = "running" /\ tool[c] = "create_reservation"
        /\ \A k \in Calls \ {c} : answer'[k] = answer[k]
    <3>1. answer \in [Calls -> Answers]
      BY DEF TypeOK
    <3>2. Contract!Record(c) \/ Contract!Replay(c) \/ Contract!Refuse(c)
      BY <1>6 DEF Command
    <3>3. QED
      BY <1>6, <3>1, <3>2, ContractStep DEF Command
  <2>2. \/ UNCHANGED <<state, commandResults>>
        \/ /\ state' = [state EXCEPT ![c] = "recorded"]
           /\ commandResults' = [commandResults EXCEPT ![invocation[c]] = Kept(@, c, 1)]
           /\ answer'[c] # Contract!Unanswered
    BY <1>6 DEF Command, Answered
  <2>3. IdleUnsent' /\ WritesSent'
    BY <2>1, <2>2 DEF CParts, IdleUnsent, WritesSent, TypeOK
  <2>4. ASSUME NEW i \in Invocations, NEW n \in DOMAIN commandResults'[i]
        PROVE  answer'[commandResults'[i][n]] # Contract!Unanswered
    <3>1. CASE commandResults'[i] = commandResults[i]
      <4>1. commandResults[i][n] \in Calls /\ state[commandResults[i][n]] = "recorded"
        BY <2>4, <3>1, Owners DEF CommandsRecorded
      <4>2. QED
        BY <2>1, <2>4, <3>1, <4>1 DEF CParts, ResultsAnswered
    <3>2. CASE commandResults'[i] # commandResults[i]
      <4>1. commandResults'[i] = Kept(commandResults[i], c, 1)
            /\ answer'[c] # Contract!Unanswered
        BY <2>2, <3>2 DEF TypeOK
      <4>2. commandResults'[i] = <<c>>
        BY <4>1, KeptLast DEF TypeOK
      <4>3. QED
        BY <2>4, <4>1, <4>2
    <3>3. QED
      BY <3>1, <3>2
  <2>5. QED
    BY <2>3, <2>4 DEF CParts, ResultsAnswered
<1>7. ASSUME UNCHANGED vars PROVE CParts'
  BY <1>7 DEF CParts, IdleUnsent, WritesSent, ResultsAnswered, vars, recorders, calls
<1>8. CParts'
  BY <1>1, <1>2, <1>3, <1>4, <1>5, <1>6, <1>7 DEF Next
<1>9. QED
  BY <1>8, EvidenceStep

\* What a caller is told depends on how its invocation ended.
LEMMA Replies ==
  ASSUME NEW i \in Invocations
  PROVE  /\ stage[i] = "returned" => ReplyTo(i) = SaysOfCommand(i)
         /\ stage[i] \in {"raised", "lost"} => ReplyTo(i) = Runtime!Failure
         /\ stage[i] \in {"idle", "model", "tools"} => ReplyTo(i) = Runtime!NoReply
  BY DEF ReplyTo, Returned, Ends, Says, Runtime!Failure, Runtime!NoReply, Runtime!Reply

\* The last recorded result is one of the invocation's own writes.
LEMMA ResultOf ==
  ASSUME CInv, NEW i \in Invocations, commandResults[i] # <<>>
  PROVE  /\ Result(i) \in Calls /\ invocation[Result(i)] = i
         /\ tool[Result(i)] = "create_reservation" /\ state[Result(i)] = "recorded"
         /\ answer[Result(i)] # Contract!Unanswered
<1>1. commandResults[i] \in Seq(Calls)
  BY DEF CInv, EInv, IInv, TypeOK
<1>2. Len(commandResults[i]) \in DOMAIN commandResults[i] /\ Result(i) \in Calls
  BY <1>1, EmptySeq, LenProperties DEF Result
<1>3. QED
  BY <1>2 DEF CInv, CParts, EInv, IInv, CommandsRecorded, ResultsAreWrites, ResultsAnswered,
              Result

\* A reply stays while its invocation stays where it is and its result is not touched.
LEMMA ReplyStays ==
  ASSUME CInv, NEW i \in Invocations, stage[i] \in {"idle", "model", "tools"} \union Ends,
         stage'[i] = stage[i],
         stage[i] = "returned" =>
           /\ commandResults'[i] = commandResults[i]
           /\ \A c \in Calls : invocation[c] = i /\ state[c] = "recorded" =>
                answer'[c] = answer[c] /\ payload'[c] = payload[c]
  PROVE  ReplyTo(i)' = ReplyTo(i)
<1>1. CASE stage[i] = "returned"
  <2>1. commandResults[i] # <<>> => answer'[Result(i)] = answer[Result(i)]
                                    /\ payload'[Result(i)] = payload[Result(i)]
    BY <1>1, ResultOf
  <2>2. Result(i)' = Result(i)
    BY <1>1 DEF Result
  <2>3. SaysOfCommand(i)' = SaysOfCommand(i)
    BY <1>1, <2>1, <2>2 DEF SaysOfCommand, InputOf
  <2>4. QED
    BY <1>1, <2>3 DEF ReplyTo, Returned
<1>2. CASE stage[i] # "returned"
  BY <1>2 DEF ReplyTo, Returned, Ends
<1>3. QED
  BY <1>1, <1>2

\* The caller sees nothing of a step that changes no request, ID, stage or result.
LEMMA Unseen ==
  ASSUME CInv, UNCHANGED <<callerId, requests>>,
         \A c \in Calls : state[c] # "free" => invocation'[c] = invocation[c],
         \A i \in Invocations : ReplyTo(i)' = ReplyTo(i)
  PROVE  UNCHANGED Runtime!vars
<1>1. \A r \in requests : invocation'[r.by] = invocation[r.by]
  BY DEF CInv, EInv, IInv, RequestsOfCallers
<1>2. Committed' = Committed
  BY <1>1 DEF Committed, InputOf
<1>3. [i \in Invocations |-> ReplyTo(i)]' = [i \in Invocations |-> ReplyTo(i)]
  OBVIOUS
<1>4. QED
  BY <1>2, <1>3 DEF Runtime!vars

\* An invocation that ends says one thing, and nothing else is seen to change.
LEMMA EndSeen ==
  ASSUME CInv, NEW i \in Invocations, NEW said,
         UNCHANGED <<callerId, commandResults, invocation, payload, requests, answer>>,
         stage[i] \in {"idle", "model", "tools"}, stage' = [stage EXCEPT ![i] = stage'[i]],
         ReplyTo(i)' = said
  PROVE  Runtime!Replies(i, said)
<1>1. \A j \in Invocations \ {i} : ReplyTo(j)' = ReplyTo(j)
  <2>1. \A j \in Invocations \ {i} : stage'[j] = stage[j]
    BY DEF CInv, EInv, IInv, TypeOK
  <2>2. QED
    BY <2>1, ReplyStays DEF CInv, EInv, IInv, TypeOK
<1>2. ReplyTo(i) = Runtime!NoReply
  BY Replies
<1>3. Committed' = Committed
  BY DEF Committed, InputOf
<1>4. [j \in Invocations |-> ReplyTo(j)]' = [[j \in Invocations |-> ReplyTo(j)] EXCEPT ![i] = said]
  BY <1>1
<1>5. QED
  BY <1>2, <1>3, <1>4 DEF Runtime!Replies

\* invoke's response names the recorder's last result, or nothing.
LEMMA ReturnSeen ==
  ASSUME CInv, NEW i \in Invocations, Return(i)
  PROVE  Runtime!Next
<1> USE DEF CInv, EInv, IInv
<1>1. /\ UNCHANGED <<callerId, commandResults, invocation, state, payload, requests, answer>>
      /\ stage[i] = "model" /\ stage' = [stage EXCEPT ![i] = stage'[i]]
      /\ stage'[i] = "returned"
  BY DEF Return, recorders, calls, TypeOK
<1>2. ReplyTo(i)' = SaysOfCommand(i)
  <2>1. SaysOfCommand(i)' = SaysOfCommand(i)
    BY <1>1 DEF SaysOfCommand, InputOf, Result
  <2>2. stage'[i] = "returned"
    BY <1>1
  <2>3. ReplyTo(i)' = SaysOfCommand(i)'
    BY <2>2 DEF ReplyTo, Returned, Ends
  <2>4. QED
    BY <2>1, <2>3
<1>3. Runtime!Replies(i, SaysOfCommand(i))
  BY <1>1, <1>2, EndSeen
<1>4. CASE commandResults[i] = <<>>
  <2>1. SaysOfCommand(i) = Runtime!Silence
    BY <1>4 DEF SaysOfCommand, Says, Runtime!Silence, Runtime!Reply
  <2>2. \A r \in Committed : r.by # i
    <3>1. ASSUME NEW r \in requests, invocation[r.by] = i PROVE FALSE
      <4>1. r.by \in Calls /\ state[r.by] \in {"running", "recorded", "lost"}
            /\ tool[r.by] = "create_reservation"
        BY DEF RequestsOfCallers
      <4>2. state[r.by] = "recorded"
        BY <1>1, <3>1, <4>1 DEF CallsBelong
      <4>3. QED
        BY <1>4, <3>1, <4>1, <4>2 DEF CommandsRecorded
    <3>2. QED
      BY <3>1 DEF Committed
  <2>3. QED
    BY <1>3, <2>1, <2>2 DEF Runtime!SayNothing, Runtime!Next
<1>5. CASE commandResults[i] # <<>>
  <2> DEFINE c == Result(i)
  <2>1. c \in Calls /\ invocation[c] = i /\ callerId[i] # NoId
        /\ answer[c] # Contract!Unanswered /\ payload[c].request_id = callerId[i]
    <3>1. c \in Calls /\ invocation[c] = i /\ tool[c] = "create_reservation"
          /\ state[c] = "recorded" /\ answer[c] # Contract!Unanswered
      BY <1>5, ResultOf
    <3>2. Len(commandResults[i]) \in DOMAIN commandResults[i]
      BY <1>5, EmptySeq, LenProperties DEF TypeOK
    <3>3. QED
      BY <3>1, <3>2 DEF CParts, WritesSent, CommandsRecorded, Result
  <2>2. SaysOfCommand(i) =
          Runtime!Reply("result", answer[c].status, answer[c].duplicate,
                        IF answer[c].status = "accepted" THEN {InputOf(payload[c])} ELSE {})
    BY <1>5 DEF SaysOfCommand, Says, Runtime!Reply
  <2>3. answer[c] \in Answers \ {Contract!Unanswered}
    BY <2>1 DEF TypeOK
  <2>4. CASE answer[c].status = "accepted"
    <3>1. PICK r \in requests :
            Contract!SameInput(r, payload[c]) /\ (~answer[c].duplicate => r.by = c)
      BY <2>1, <2>4 DEF AcceptedAreRecorded
    <3> DEFINE made == [input |-> InputOf(r), by |-> invocation[r.by]]
    <3>2. made \in Committed
      BY DEF Committed
    <3>3. made.input = InputOf(payload[c]) /\ made.input.request_id = callerId[i]
          /\ (~answer[c].duplicate => made.by = i)
      BY <2>1, <3>1 DEF InputOf, Contract!SameInput
    <3>4. answer[c].duplicate \in BOOLEAN
      <4>1. CASE answer[c] \in Contract!Refusals
        <5>1. PICK status, reason : answer[c] = Contract!Answer(status, reason, FALSE)
          BY <4>1 DEF Contract!Refusals
        <5>2. QED
          BY <5>1 DEF Contract!Answer
      <4>2. CASE \E d \in BOOLEAN : answer[c] = Contract!Answer("accepted", "none", d)
        BY <4>2 DEF Contract!Answer
      <4>3. QED
        BY <2>3, <4>1, <4>2 DEF Answers
    <3>5. SaysOfCommand(i) =
            Runtime!Reply("result", "accepted", answer[c].duplicate, {made.input})
      BY <2>2, <2>4, <3>3
    <3>6. Runtime!Confirm(i)
      <4> HIDE DEF made, c
      <4>1. QED
        BY <1>3, <3>2, <3>3, <3>4, <3>5 DEF Runtime!Confirm
    <3>7. QED
      BY <3>6 DEF Runtime!Next
  <2>5. CASE answer[c].status # "accepted"
    <3>1. answer[c].status \in {"rejected", "error"} /\ answer[c].duplicate = FALSE
      BY <2>3, <2>5 DEF Answers, Contract!Refusals, Contract!Answer, Contract!Unanswered
    <3>2. SaysOfCommand(i) = Runtime!Reply("result", answer[c].status, FALSE, {})
      BY <2>2, <2>5, <3>1
    <3>3. Runtime!Refuse(i)
      <4> HIDE DEF c
      <4>1. QED
        BY <1>3, <2>1, <3>1, <3>2 DEF Runtime!Refuse
    <3>4. QED
      BY <3>3 DEF Runtime!Next
  <2>6. QED
    BY <2>4, <2>5
<1>6. QED
  BY <1>4, <1>5

\* A command is seen as the first request of its ID, or not at all.
LEMMA CommandSeen ==
  ASSUME CInv, NEW c \in Calls, Command(c)
  PROVE  Runtime!Next \/ UNCHANGED Runtime!vars
<1> USE DEF CInv, EInv, IInv
<1> PICK i \in Invocations : i = invocation[c]
  BY DEF TypeOK
<1>1. /\ UNCHANGED <<callerId, stage, invocation, tool, payload>>
      /\ state[c] = "running" /\ tool[c] = "create_reservation"
      /\ \A k \in Calls \ {c} : answer'[k] = answer[k]
      /\ \/ requests' = requests
         \/ /\ requests' = requests \union {Contract!Recorded(payload[c], c)}
            /\ \A r \in requests : r.request_id # payload[c].request_id
  <2>1. Contract!Record(c) \/ Contract!Replay(c) \/ Contract!Refuse(c)
    BY DEF Command
  <2>2. UNCHANGED payload
    BY <2>1, ContractTypes
  <2>3. answer \in [Calls -> Answers]
    BY DEF TypeOK
  <2>4. QED
    BY <2>1, <2>2, <2>3, ContractStep DEF Command
<1>2. stage[i] = "tools" /\ callerId[i] # NoId /\ payload[c].request_id = callerId[i]
  BY <1>1 DEF CallsBelong, CParts, WritesSent, WritesGrounded
<1>3. \A j \in Invocations \ {i} : commandResults'[j] = commandResults[j]
  BY DEF Command, Answered, TypeOK
<1>4. \A j \in Invocations : ReplyTo(j)' = ReplyTo(j)
  <2>1. ASSUME NEW j \in Invocations PROVE ReplyTo(j)' = ReplyTo(j)
    <3>1. stage[j] = "returned" => j # i
      BY <1>2
    <3>2. \A k \in Calls : state[k] = "recorded" => k # c
      BY <1>1
    <3>3. stage[j] \in {"idle", "model", "tools"} \union Ends
      BY DEF TypeOK
    <3>4. QED
      BY <1>1, <1>3, <3>1, <3>2, <3>3, ReplyStays
  <2>2. QED
    BY <2>1
<1>5. CASE requests' = requests
  BY <1>1, <1>4, <1>5, Unseen
<1>6. CASE /\ requests' = requests \union {Contract!Recorded(payload[c], c)}
           /\ \A r \in requests : r.request_id # payload[c].request_id
  <2> DEFINE node == Contract!Recorded(payload[c], c)
             made == [input |-> InputOf(node), by |-> i]
  <2>1. node.by = c /\ node.request_id = callerId[i]
    BY <1>2 DEF Contract!Recorded
  <2>2. Committed' = Committed \union {made}
    <3>1. Committed' = {[input |-> InputOf(r), by |-> invocation[r.by]] :
                         r \in requests \union {node}}
      BY <1>1, <1>6 DEF Committed, InputOf
    <3> HIDE DEF node
    <3>2. QED
      BY <2>1, <3>1 DEF Committed
  <2>3. made.input.request_id = callerId[i] /\ made.by = i
    BY <2>1 DEF InputOf
  <2>4. \A m \in Committed : m.input.request_id # callerId[i]
    BY <1>2, <1>6 DEF Committed, InputOf
  <2>5. ReplyTo(i) = Runtime!NoReply
    BY <1>2, Replies
  <2>6. [j \in Invocations |-> ReplyTo(j)]' = [j \in Invocations |-> ReplyTo(j)]
    BY <1>4
  <2> HIDE DEF made
  <2>7. Runtime!Commit(i)
    BY <1>1, <1>2, <2>2, <2>3, <2>4, <2>5, <2>6 DEF Runtime!Commit
  <2>8. QED
    BY <2>7 DEF Runtime!Next
<1>7. QED
  BY <1>1, <1>5, <1>6

\* An invocation that begins is sent its ID, if it has one, or fails.
LEMMA InvokeSeen ==
  ASSUME CInv, NEW i \in Invocations, Invoke(i)
  PROVE  Runtime!Next \/ UNCHANGED Runtime!vars
<1> USE DEF CInv, EInv, IInv
<1>1. /\ UNCHANGED <<commandResults, state, invocation, payload, requests, answer>>
      /\ stage[i] = "idle" /\ callerId[i] = NoId
      /\ stage'[i] \in {"model", "raised"} /\ stage' = [stage EXCEPT ![i] = stage'[i]]
  BY DEF Invoke, CParts, IdleUnsent, recorders, calls, TypeOK
<1>2. CASE stage'[i] = "raised" /\ UNCHANGED callerId
  <2>1. ReplyTo(i)' = Runtime!Failure
    BY <1>2 DEF ReplyTo, Returned, Ends, Says, Runtime!Failure, Runtime!Reply
  <2>2. Runtime!Replies(i, Runtime!Failure)
    BY <1>1, <1>2, <2>1, EndSeen
  <2>3. QED
    BY <2>2 DEF Runtime!Fail, Runtime!Next
<1>3. ASSUME NEW id \in RequestIds \union {NoId}, callerId' = [callerId EXCEPT ![i] = id],
             stage'[i] = "model"
      PROVE  Runtime!Next \/ UNCHANGED Runtime!vars
  <2>1. \A j \in Invocations : ReplyTo(j)' = ReplyTo(j)
    <3>1. ASSUME NEW j \in Invocations \ {i} PROVE ReplyTo(j)' = ReplyTo(j)
      <4>1. stage'[j] = stage[j] /\ stage[j] \in {"idle", "model", "tools"} \union Ends
        BY <1>1 DEF TypeOK
      <4>2. QED
        BY <1>1, <4>1, ReplyStays
    <3>2. ReplyTo(i)' = ReplyTo(i)
      BY <1>1, <1>3 DEF ReplyTo, Returned, Ends
    <3>3. QED
      BY <3>1, <3>2
  <2>2. CASE id = NoId
    <3>1. callerId' = callerId
      BY <1>1, <1>3, <2>2 DEF TypeOK
    <3>2. QED
      BY <1>1, <2>1, <3>1, Unseen
  <2>3. CASE id \in RequestIds
    <3>1. Committed' = Committed
      BY <1>1 DEF Committed, InputOf
    <3>2. [j \in Invocations |-> ReplyTo(j)]' = [j \in Invocations |-> ReplyTo(j)]
      BY <2>1
    <3>3. ReplyTo(i) = Runtime!NoReply
      BY <1>1, Replies
    <3>4. Runtime!Send(i)
      BY <1>1, <1>3, <2>3, <3>1, <3>2, <3>3 DEF Runtime!Send
    <3>5. QED
      BY <3>4 DEF Runtime!Next
  <2>4. QED
    BY <2>2, <2>3
<1>4. CASE stage'[i] = "model"
  <2>1. PICK id \in RequestIds \union {NoId} : callerId' = [callerId EXCEPT ![i] = id]
    BY <1>1, <1>4 DEF Invoke, TypeOK
  <2>2. QED
    BY <1>3, <1>4, <2>1
<1>5. CASE stage'[i] = "raised"
  <2>1. UNCHANGED callerId
    BY <1>1, <1>5 DEF Invoke, TypeOK
  <2>2. QED
    BY <1>2, <1>5, <2>1
<1>6. QED
  BY <1>1, <1>4, <1>5

\* The model, the loop, the hooks and the reads are not seen.
LEMMA InnerUnseen ==
  ASSUME CInv,
         \/ \E i \in Invocations : Turn(i) \/ AskAgain(i)
         \/ \E c \in Calls : Start(c) \/ ReadReturns(c) \/ ToolRaises(c)
         \/ UNCHANGED vars
  PROVE  UNCHANGED Runtime!vars
<1> USE DEF CInv, EInv, IInv
<1>1. /\ UNCHANGED <<callerId, commandResults, requests, answer>>
      /\ \A c \in Calls : state[c] # "free" =>
           invocation'[c] = invocation[c] /\ payload'[c] = payload[c]
      /\ \A j \in Invocations :
           \/ stage'[j] = stage[j]
           \/ stage[j] \in {"model", "tools"} /\ stage'[j] \in {"model", "tools"}
  <2>1. ASSUME NEW i \in Invocations, Turn(i) PROVE <1>1!:
    <3>1. PICK asked \in SUBSET {c \in Calls : state[c] = "free"} :
            \A c \in Calls \ asked : invocation'[c] = invocation[c] /\ payload'[c] = payload[c]
      <4>1. PICK asked \in SUBSET {c \in Calls : state[c] = "free"} \ {{}} :
              \E t \in [asked -> Tools] :
                \E p \in [{c \in asked : t[c] = "create_reservation"} -> Inputs] :
                  AskFor(i, asked, t, p)
        BY <2>1 DEF Turn
      <4>2. PICK t \in [asked -> Tools] :
              \E p \in [{c \in asked : t[c] = "create_reservation"} -> Inputs] :
                AskFor(i, asked, t, p)
        BY <4>1
      <4>3. PICK p \in [{c \in asked : t[c] = "create_reservation"} -> Inputs] :
              AskFor(i, asked, t, p)
        BY <4>2
      <4>4. QED
        BY <4>3 DEF AskFor
    <3>2. /\ UNCHANGED <<callerId, commandResults, requests, answer>>
          /\ stage[i] = "model" /\ stage'[i] = "tools"
          /\ \A j \in Invocations \ {i} : stage'[j] = stage[j]
      BY <2>1 DEF Turn, recorders, TypeOK
    <3>3. QED
      BY <3>1, <3>2
  <2>2. ASSUME NEW i \in Invocations, AskAgain(i) PROVE <1>1!:
    BY <2>2 DEF AskAgain, recorders, calls, TypeOK
  <2>3. ASSUME NEW c \in Calls, Start(c) \/ ReadReturns(c) \/ ToolRaises(c) PROVE <1>1!:
    BY <2>3 DEF Start, ReadReturns, ToolRaises, recorders
  <2>4. CASE UNCHANGED vars
    BY <2>4 DEF vars, recorders, calls
  <2>5. QED
    BY <2>1, <2>2, <2>3, <2>4
<1>2. ASSUME NEW j \in Invocations PROVE ReplyTo(j)' = ReplyTo(j)
  <2>1. CASE stage'[j] = stage[j]
    <3>1. stage[j] \in {"idle", "model", "tools"} \union Ends
      BY DEF TypeOK
    <3>2. QED
      BY <1>1, <2>1, <3>1, ReplyStays
  <2>2. CASE stage[j] \in {"model", "tools"} /\ stage'[j] \in {"model", "tools"}
    BY <2>2 DEF ReplyTo, Returned, Ends
  <2>3. QED
    BY <1>1, <2>1, <2>2
<1>3. QED
  BY <1>1, <1>2, Unseen

\* booking_agent.py's deployed agent is the contract its caller sees, for any model,
\* tool calls, retries and losses: one request per ID, and one true reply each.
THEOREM RuntimeIsContract == Spec => ImplementsRuntimeContract
<1>1. Init => Runtime!Init
  <2> SUFFICES ASSUME Init PROVE Runtime!Init
    OBVIOUS
  <2>1. Committed = {} /\ callerId = [i \in Invocations |-> NoId]
    BY DEF Init, Contract!Init, Committed
  <2>2. \A i \in Invocations : ReplyTo(i) = Runtime!NoReply
    BY Replies DEF Init
  <2>3. QED
    BY <2>1, <2>2 DEF Runtime!Init
<1>2. ASSUME CInv, [Next]_vars PROVE Runtime!Next \/ UNCHANGED Runtime!vars
  <2>1. ASSUME NEW i \in Invocations, Raise(i) \/ Die(i) PROVE Runtime!Next
    <3>1. /\ UNCHANGED <<callerId, commandResults, invocation, payload, requests, answer>>
          /\ stage[i] \in {"model", "tools"} /\ stage'[i] \in {"raised", "lost"}
          /\ stage' = [stage EXCEPT ![i] = stage'[i]]
      BY <1>2, <2>1 DEF Raise, Die, recorders, calls, CInv, EInv, IInv, TypeOK
    <3>2. ReplyTo(i)' = Runtime!Failure
      BY <3>1 DEF ReplyTo, Returned, Ends, Says, Runtime!Failure, Runtime!Reply
    <3>3. Runtime!Replies(i, Runtime!Failure)
      BY <1>2, <3>1, <3>2, EndSeen
    <3>4. QED
      BY <3>3 DEF Runtime!Fail, Runtime!Next
  <2>2. QED
    BY <1>2, <2>1, InvokeSeen, ReturnSeen, CommandSeen, InnerUnseen DEF Next
<1>3. QED
  BY <1>1, <1>2, CallerInit, CallerStep, PTL DEF Spec, Runtime!Spec, ImplementsRuntimeContract

================================================================================
