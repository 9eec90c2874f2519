------------------------- MODULE OwnAccountDeployProofs -------------------------
(***************************************************************************)
(* Proofs about deploy.py for a class of any size, any subnets, quota and  *)
(* number of commands.                                                     *)
(***************************************************************************)
EXTENDS OwnAccountDeploy, FiniteSetTheorems, WellFoundedInduction, TLAPS

(***************************************************************************)
(* The parts of the inductive invariant.                                   *)
(***************************************************************************)
\* A command that goes on has no outcome yet.
Undecided == phase # "idle" => outcome = "none"

Settled(n) == Updatable(n) /\ live[n] = Request(n)

\* What a stack that the command waits for may be.
Due(n) ==
  \/ status[n] \in {"CREATE_IN_PROGRESS", "UPDATE_IN_PROGRESS"} /\ wanted[n] = Request(n)
  \/ status[n] \in COMPLETE /\ live[n] = Request(n)
  \/ status[n] \in TERMINAL_FAILURE_STATES

\* Every student is still to be taken, failed, waited for, or settled.
Followed ==
  /\ phase = "start" => todo \subseteq Class
  /\ phase \in {"start", "wait"} =>
       /\ \A n \in pending : Due(n)
       /\ \A n \in Class \ (todo \union failures \union pending) : Settled(n)

\* What delete has listed, was allowed, and has seen go.
Listed ==
  /\ phase \in {"confirm", "delete", "gone"} => \A n \in Numbers \ names : status[n] = "none"
  /\ phase = "delete" => consent /\ todo \subseteq names
  /\ phase = "gone" =>
       \A n \in (names \intersect Numbers) \ (todo \union failures) : status[n] = "none"

\* A class that fits has room for the roles of all its stacks, made or not.
Roomy ==
  fits =>
    /\ count > 1
    /\ Making \subseteq Class
    /\ others + ROLES_PER_STACK * Cardinality(roles \union Class) <= RolesQuota

IInv == TypeOK /\ Undecided /\ Followed /\ Listed /\ ReportTrue /\ DeleteClears /\ Roomy

(***************************************************************************)
(* Types.                                                                  *)
(***************************************************************************)
LEMMA NumbersApart == Numbers \subseteq Names /\ Bystanders \intersect Numbers = {}
  BY OwnAccountAssumption DEF Names, Numbers

LEMMA ClassTyped ==
  ASSUME TypeOK
  PROVE  Class \subseteq Numbers /\ Class \subseteq Names
  BY OwnAccountAssumption, NumbersApart DEF TypeOK, Class, Numbers

LEMMA RotationsTyped == DefaultRotation \subseteq Rotations
  BY DEF DefaultRotation, Rotations, AnyRotation

LEMMA RotationLength ==
  ASSUME NEW l \in AnyRotation
  PROVE  Len(l) \in Nat \ {0} /\ \A i \in 1..Len(l) : l[i] \in Subnets
  <1> DEFINE k == Cardinality(Subnets)
  <1>1. k \in Nat \ {0}
    BY FS_CardinalityType, FS_EmptySet, OwnAccountAssumption
  <1> HIDE DEF k
  <1>2. l \in [1..k -> Subnets]
    BY DEF AnyRotation, k
  <1>3. Len(l) = k
    BY <1>1, <1>2
  <1> QED BY <1>1, <1>2, <1>3

\* Every request is for a template edition and a subnet.
LEMMA RequestTyped ==
  ASSUME TypeOK, phase = "start", NEW n \in Numbers
  PROVE  Request(n) \in Configs
  <1> DEFINE k == Len(subnets)
  <1>1. k \in Nat \ {0} /\ \A i \in 1..k : subnets[i] \in Subnets
    BY RotationLength DEF TypeOK
  <1> HIDE DEF k
  <1>2. n \in Nat
    BY OwnAccountAssumption DEF Numbers
  <1>3. CASE n = 0
    BY <1>1, <1>3 DEF TypeOK, Request, SubnetOf, Configs
  <1>4. CASE n # 0
    <2>1. (n - 1) % k \in 0..(k - 1)
      BY <1>1, <1>2, <1>4
    <2>2. ((n - 1) % k) + 1 \in 1..k
      BY <1>1, <2>1
    <2>3. SubnetOf(n) = subnets[((n - 1) % k) + 1]
      BY <1>4 DEF SubnetOf, k
    <2> HIDE DEF k
    <2>4. SubnetOf(n) \in Subnets
      BY <1>1, <2>2, <2>3
    <2> QED BY <2>4 DEF TypeOK, Request, Configs
  <1> QED BY <1>3, <1>4

LEMMA InitTyped == Init => TypeOK
  <1> SUFFICES ASSUME Init PROVE TypeOK
    OBVIOUS
  <1>1. /\ status \in [Names -> Statuses]
        /\ live \in [Names -> Configs \union {NoConfig}]
        /\ wanted \in [Names -> Configs \union {NoConfig}]
    BY DEF Init, Statuses
  <1>2. others \in 0..MaxOthers /\ commands \in 0..MaxCommands /\ count \in 1..MaxClass
    BY OwnAccountAssumption DEF Init
  <1>3. phase \in Phases /\ outcome \in Outcomes /\ subnets \in Rotations
    BY DEF Init, Phases, Outcomes, Rotations
  <1> QED BY <1>1, <1>2, <1>3 DEF Init, TypeOK

LEMMA TypeStep ==
  ASSUME TypeOK, [Next]_vars
  PROVE  TypeOK'
  <1> USE NumbersApart DEF Phases, Outcomes
  <1>1. CASE UNCHANGED vars
    BY <1>1 DEF vars, stacks, command, history, TypeOK
  <1>2. ASSUME NEW c \in 1..MaxClass, BeginDeploy(c) PROVE TypeOK'
    <2>1. commands' \in 0..MaxCommands
      BY <1>2, OwnAccountAssumption DEF BeginDeploy, Begins, TypeOK
    <2> QED BY <1>2, <2>1 DEF BeginDeploy, Begins, stacks, TypeOK, Rotations
  <1>3. CASE ShowStatus
    BY <1>3 DEF ShowStatus, stacks, history, TypeOK
  <1>4. CASE BeginDelete
    <2>1. commands' \in 0..MaxCommands /\ 1 \in 1..MaxClass
      BY <1>4, OwnAccountAssumption DEF BeginDelete, Begins, TypeOK
    <2>2. names' \subseteq Names
      BY <1>4 DEF BeginDelete, Begins, FindStacks
    <2>3. UNCHANGED <<stacks, others, bucket, todo, pending>>
      BY <1>4 DEF BeginDelete, Begins
    <2>4. /\ phase = "idle" /\ phase' \in {"idle", "confirm"}
          /\ outcome' \in {"deleted", "none"}
          /\ count' = 1 /\ failures' = {} /\ subnets' = <<>>
          /\ consent' \in BOOLEAN /\ fits' \in BOOLEAN
      BY <1>4 DEF BeginDelete, Begins
    <2> QED BY <2>1, <2>2, <2>3, <2>4 DEF stacks, TypeOK, Rotations
  <1>5. CASE CheckRoleHeadroom
    <2>1. fits' \in BOOLEAN
      BY <1>5 DEF CheckRoleHeadroom, TypeOK
    <2>2. /\ phase' \in {"idle", "network"} /\ outcome' \in Outcomes
          /\ todo' = {} /\ pending' = {}
      BY <1>5 DEF CheckRoleHeadroom, Exits, TypeOK
    <2> QED BY <1>5, <2>1, <2>2 DEF CheckRoleHeadroom, stacks, TypeOK
  <1>6. CASE ResolveParameters
    BY <1>6, RotationsTyped
    DEF ResolveParameters, DefaultRotation, AnyRotation, Rotations, stacks, history, TypeOK
  <1>7. CASE Refused \/ Stop
    BY <1>7 DEF Refused, Stop, Exits, stacks, history, TypeOK
  <1>8. CASE StageTemplate
    BY <1>8, ClassTyped DEF StageTemplate, stacks, history, TypeOK
  <1>9. ASSUME NEW n \in Numbers, CreateStack(n) \/ UpdateStack(n) PROVE TypeOK'
    <2>1. phase = "start"
      BY <1>9 DEF CreateStack, UpdateStack, Starting
    <2>2. Request(n) \in Configs
      BY <2>1, RequestTyped
    <2>3. wanted' \in [Names -> Configs \union {NoConfig}]
      BY <1>9, <2>2 DEF CreateStack, UpdateStack, TypeOK
    <2>4. status' \in [Names -> Statuses]
      BY <1>9 DEF CreateStack, UpdateStack, TypeOK, Statuses, IN_PROGRESS
    <2>5. CASE CreateStack(n)
      BY <2>1, <2>3, <2>4, <2>5 DEF CreateStack, Starts, history, TypeOK
    <2>6. CASE UpdateStack(n)
      BY <2>1, <2>3, <2>4, <2>6 DEF UpdateStack, Starts, history, TypeOK
    <2> QED BY <1>9, <2>5, <2>6
  <1>10. ASSUME NEW n \in Numbers, NothingToUpdate(n) \/ StartFails(n) PROVE TypeOK'
    BY <1>10 DEF NothingToUpdate, StartFails, Starting, Starts, stacks, history, TypeOK
  <1>11. CASE EndStarts
    BY <1>11 DEF EndStarts, stacks, history, TypeOK
  <1>12. ASSUME NEW n \in Numbers, WaitSucceeds(n) \/ WaitFails(n) PROVE TypeOK'
    BY <1>12 DEF WaitSucceeds, WaitFails, Waiting, Waited, stacks, history, TypeOK
  <1>13. CASE Report \/ EndDelete
    BY <1>13 DEF Report, EndDelete, Exits, stacks, history, TypeOK
  <1>14. CASE Confirm
    <2>1. consent' \in BOOLEAN
      BY <1>14 DEF Confirm, TypeOK
    <2>2. /\ outcome' \in Outcomes /\ pending' = {}
          /\ phase' \in {"idle", "delete"} /\ todo' \subseteq Names
          /\ phase' = "idle" => todo' = {}
      BY <1>14 DEF Confirm, Exits, TypeOK
    <2> QED BY <1>14, <2>1, <2>2 DEF Confirm, stacks, TypeOK
  <1>15. ASSUME NEW n \in Names, DeleteStack(n) PROVE TypeOK'
    <2>1. status' \in [Names -> Statuses]
      BY <1>15 DEF DeleteStack, TypeOK, Statuses, IN_PROGRESS
    <2> QED BY <1>15, <2>1 DEF DeleteStack, history, TypeOK
  <1>16. ASSUME NEW n \in Names, DeleteRefused(n) PROVE TypeOK'
    BY <1>16 DEF DeleteRefused, stacks, history, TypeOK
  <1>17. CASE EndDeletes
    BY <1>17 DEF EndDeletes, stacks, history, TypeOK
  <1>18. ASSUME NEW n \in Names, WaitGone(n) \/ WaitGoneFails(n) PROVE TypeOK'
    BY <1>18 DEF WaitGone, WaitGoneFails, stacks, history, TypeOK
  <1>19. ASSUME NEW n \in Names, NEW state \in Statuses, Becomes(n, state),
                live' = live \/ live' = [live EXCEPT ![n] = wanted[n]],
                \/ wanted' = wanted \/ wanted' = [wanted EXCEPT ![n] = NoConfig]
                \/ wanted' = [wanted EXCEPT ![n] = live[n]],
                roles' = roles \/ roles' = roles \ {n}
         PROVE  TypeOK'
    <2>1. live' \in [Names -> Configs \union {NoConfig}]
      BY <1>19 DEF TypeOK
    <2>2. wanted' \in [Names -> Configs \union {NoConfig}]
      BY <1>19 DEF TypeOK
    <2>3. status' \in [Names -> Statuses] /\ roles' \subseteq Names
      BY <1>19 DEF Becomes, TypeOK
    <2> QED BY <1>19, <2>1, <2>2, <2>3 DEF Becomes, command, history, TypeOK
  <1>20. ASSUME NEW n \in Names, MakeRoles(n) PROVE TypeOK'
    BY <1>20 DEF MakeRoles, command, history, TypeOK
  <1>21. ASSUME NEW n \in Names, CreateCompletes(n) \/ UpdateCompletes(n) PROVE TypeOK'
    <2>1. "CREATE_COMPLETE" \in Statuses /\ "UPDATE_COMPLETE" \in Statuses
      BY DEF Statuses, COMPLETE
    <2> QED BY <1>19, <1>21, <2>1 DEF CreateCompletes, UpdateCompletes
  <1>22. ASSUME NEW n \in Names, CreateFails(n) \/ UpdateFails(n) PROVE TypeOK'
    <2>1. /\ "CREATE_FAILED" \in Statuses
          /\ {"UPDATE_ROLLBACK_COMPLETE", "UPDATE_ROLLBACK_FAILED"} \subseteq Statuses
      BY DEF Statuses, TERMINAL_FAILURE_STATES, UNUPDATABLE_STATES
    <2>2. CASE CreateFails(n)
      BY <1>19, <2>1, <2>2 DEF CreateFails
    <2>3. CASE UpdateFails(n)
      BY <1>19, <2>1, <2>3 DEF UpdateFails
    <2> QED BY <1>22, <2>2, <2>3
  <1>23. ASSUME NEW n \in Names, DeleteCompletes(n) \/ DeleteFails(n) PROVE TypeOK'
    <2>1. "none" \in Statuses /\ "DELETE_FAILED" \in Statuses
      BY DEF Statuses, TERMINAL_FAILURE_STATES, UNUPDATABLE_STATES
    <2> QED BY <1>19, <1>23, <2>1 DEF DeleteCompletes, DeleteFails
  <1>24. CASE OthersTakeRole
    <2>1. others' \in 0..MaxOthers
      BY <1>24, OwnAccountAssumption DEF OthersTakeRole, TypeOK
    <2> QED BY <1>24, <2>1 DEF OthersTakeRole, stacks, command, TypeOK
  <1>25. ASSUME NEW b \in Bystanders, Bystander(b) PROVE TypeOK'
    <2>1. b \in Names /\ "CREATE_COMPLETE" \in Statuses
      BY DEF Statuses, COMPLETE, Names
    <2> QED BY <1>19, <1>25, <2>1 DEF Bystander
  <1> QED
    BY <1>1, <1>2, <1>3, <1>4, <1>5, <1>6, <1>7, <1>8, <1>9, <1>10, <1>11, <1>12, <1>13,
       <1>14, <1>15, <1>16, <1>17, <1>18, <1>20, <1>21, <1>22, <1>23, <1>24, <1>25
    DEF Next, CommandStep, CloudFormation

(***************************************************************************)
(* What CloudFormation and other people may do to a student's stack.       *)
(***************************************************************************)
Outside == CloudFormation \/ \E b \in Bystanders : Bystander(b)

LEMMA OutsideKeeps ==
  ASSUME TypeOK, Outside
  PROVE  /\ UNCHANGED <<others, bucket, command, history>>
         /\ \A n \in Numbers :
              /\ status[n] \notin IN_PROGRESS => status'[n] = status[n] /\ live'[n] = live[n]
              /\ Due(n) => Due(n)'
  <1> USE NumbersApart DEF IN_PROGRESS
  <1>1. ASSUME NEW b \in Bystanders, Bystander(b)
        PROVE  /\ UNCHANGED <<others, bucket, command, history, live, wanted, roles>>
               /\ \A n \in Numbers : status'[n] = status[n]
    BY <1>1 DEF Bystander, Becomes, TypeOK
  <1>2. ASSUME NEW m \in Names, MakeRoles(m)
        PROVE  UNCHANGED <<others, bucket, command, history, status, live, wanted>>
    BY <1>2 DEF MakeRoles
  <1>3. ASSUME NEW m \in Names, CreateCompletes(m) \/ UpdateCompletes(m)
        PROVE  /\ UNCHANGED <<others, bucket, command, history, wanted, roles>>
               /\ status[m] \in {"CREATE_IN_PROGRESS", "UPDATE_IN_PROGRESS"}
               /\ status'[m] \in COMPLETE /\ live'[m] = wanted[m]
               /\ \A n \in Names \ {m} : status'[n] = status[n] /\ live'[n] = live[n]
    BY <1>3 DEF CreateCompletes, UpdateCompletes, Becomes, TypeOK, COMPLETE
  <1>4. ASSUME NEW m \in Names, CreateFails(m) \/ UpdateFails(m)
        PROVE  /\ UNCHANGED <<others, bucket, command, history, live, roles>>
               /\ status[m] \in IN_PROGRESS /\ status'[m] \in TERMINAL_FAILURE_STATES
               /\ \A n \in Names \ {m} : status'[n] = status[n] /\ wanted'[n] = wanted[n]
    BY <1>4
    DEF CreateFails, UpdateFails, Becomes, TypeOK, TERMINAL_FAILURE_STATES, UNUPDATABLE_STATES
  <1>5. ASSUME NEW m \in Names, DeleteCompletes(m) \/ DeleteFails(m)
        PROVE  /\ UNCHANGED <<others, bucket, command, history, live, wanted>>
               /\ status[m] = "DELETE_IN_PROGRESS"
               /\ \A n \in Names \ {m} : status'[n] = status[n]
    BY <1>5 DEF DeleteCompletes, DeleteFails, Becomes, TypeOK
  <1>6. ASSUME UNCHANGED <<bucket, command>>, NEW n \in Numbers
        PROVE  Request(n)' = Request(n)
    BY <1>6 DEF Request, SubnetOf, command
  <1> USE DEF COMPLETE, TERMINAL_FAILURE_STATES, UNUPDATABLE_STATES, Due
  <1>7. CASE \E b \in Bystanders : Bystander(b)
    BY <1>1, <1>6, <1>7
  <1>8. CASE \E m \in Names : MakeRoles(m)
    BY <1>2, <1>6, <1>8
  <1>9. CASE \E m \in Names : CreateCompletes(m) \/ UpdateCompletes(m)
    BY <1>3, <1>6, <1>9
  <1>10. CASE \E m \in Names : CreateFails(m) \/ UpdateFails(m)
    BY <1>4, <1>6, <1>10
  <1>11. CASE \E m \in Names : DeleteCompletes(m) \/ DeleteFails(m)
    BY <1>5, <1>6, <1>11
  <1> QED BY <1>7, <1>8, <1>9, <1>10, <1>11 DEF Outside, CloudFormation

\* The command ends without a report of deploy or delete.
Leaves == Refused \/ Stop \/ ShowStatus

(***************************************************************************)
(* Each part of the invariant is kept.                                     *)
(***************************************************************************)
LEMMA UndecidedStep ==
  ASSUME IInv, [Next]_vars
  PROVE  Undecided'
  <1> USE DEF IInv, Undecided
  <1>1. CASE Outside
    BY <1>1, OutsideKeeps DEF command
  <1>2. CASE UNCHANGED vars \/ OthersTakeRole
    BY <1>2 DEF vars, OthersTakeRole, command
  <1>3. CASE Leaves
    BY <1>3 DEF Leaves, Refused, Stop, ShowStatus, Exits
  <1>4. CASE BeginDelete \/ \E c \in 1..MaxClass : BeginDeploy(c)
    BY <1>4 DEF BeginDelete, BeginDeploy
  <1>5. CASE CheckRoleHeadroom \/ ResolveParameters \/ StageTemplate
    BY <1>5 DEF CheckRoleHeadroom, ResolveParameters, StageTemplate, Exits
  <1>6. ASSUME NEW n \in Numbers, CreateStack(n) \/ UpdateStack(n) PROVE Undecided'
    BY <1>6 DEF CreateStack, UpdateStack, Starts
  <1>7. ASSUME NEW n \in Numbers, NothingToUpdate(n) \/ StartFails(n) PROVE Undecided'
    BY <1>7 DEF NothingToUpdate, StartFails, Starts
  <1>8. CASE EndStarts \/ EndDeletes \/ Report \/ EndDelete \/ Confirm
    BY <1>8 DEF EndStarts, EndDeletes, Report, EndDelete, Confirm, Exits
  <1>9. ASSUME NEW n \in Numbers, WaitSucceeds(n) \/ WaitFails(n) PROVE Undecided'
    BY <1>9 DEF WaitSucceeds, WaitFails, Waited
  <1>10. ASSUME NEW n \in Names, DeleteStack(n) \/ DeleteRefused(n) PROVE Undecided'
    BY <1>10 DEF DeleteStack, DeleteRefused
  <1>11. ASSUME NEW n \in Names, WaitGone(n) \/ WaitGoneFails(n) PROVE Undecided'
    BY <1>11 DEF WaitGone, WaitGoneFails
  <1> QED
    BY <1>1, <1>2, <1>3, <1>4, <1>5, <1>6, <1>7, <1>8, <1>9, <1>10, <1>11
    DEF Next, CommandStep, Outside, Leaves

\* The request for a student, and the class, depend on the command alone.
LEMMA RequestKept ==
  ASSUME UNCHANGED <<bucket, count, subnets>>
  PROVE  Class' = Class /\ \A n \in Numbers : Request(n)' = Request(n)
  BY DEF Class, Request, SubnetOf

LEMMA FollowedStep ==
  ASSUME IInv, [Next]_vars
  PROVE  Followed'
  <1> USE ClassTyped, NumbersApart DEF IInv
  <1>1. CASE Outside
    <2>1. UNCHANGED <<others, bucket, command, history>>
      BY <1>1, OutsideKeeps
    <2>2. Class' = Class /\ \A n \in Numbers : Request(n)' = Request(n)
      BY <2>1, RequestKept DEF command
    <2>3. ASSUME NEW n \in Numbers, Settled(n) PROVE Settled(n)'
      BY <1>1, <2>2, <2>3, OutsideKeeps DEF Settled, Updatable, COMPLETE, IN_PROGRESS
    <2>4. ASSUME NEW n \in Numbers, Due(n) PROVE Due(n)'
      BY <1>1, <2>4, OutsideKeeps
    <2>5. UNCHANGED <<phase, todo, failures, pending>>
      BY <2>1 DEF command
    <2> QED BY <2>2, <2>3, <2>4, <2>5 DEF Followed, TypeOK
  <1>2. CASE UNCHANGED vars \/ OthersTakeRole
    <2>1. UNCHANGED <<bucket, command, stacks>>
      BY <1>2 DEF vars, OthersTakeRole
    <2>2. Class' = Class /\ \A n \in Numbers : Request(n)' = Request(n)
      BY <2>1, RequestKept DEF command
    <2> QED
      BY <2>1, <2>2 DEF Followed, TypeOK, Due, Settled, Updatable, command, stacks
  <1>3. CASE phase' \notin {"start", "wait"}
    BY <1>3 DEF Followed
  <1>4. CASE StageTemplate
    <2>1. /\ phase' = "start" /\ todo' = Class /\ pending' = {}
          /\ UNCHANGED <<count, subnets>>
      BY <1>4 DEF StageTemplate, TypeOK
    <2>2. Class' = Class
      BY <2>1 DEF Class
    <2> QED BY <2>1, <2>2 DEF Followed
  <1>5. ASSUME NEW n \in Numbers, CreateStack(n) \/ UpdateStack(n) PROVE Followed'
    <2>1. /\ UNCHANGED <<bucket, count, subnets, phase, failures, live>>
          /\ phase = "start" /\ n \in todo
          /\ todo' = todo \ {n} /\ pending' = pending \union {n}
      BY <1>5 DEF CreateStack, UpdateStack, Starting, Starts
    <2>2. /\ status'[n] \in {"CREATE_IN_PROGRESS", "UPDATE_IN_PROGRESS"}
          /\ wanted'[n] = Request(n)
          /\ \A m \in Names \ {n} : status'[m] = status[m] /\ wanted'[m] = wanted[m]
      BY <1>5 DEF CreateStack, UpdateStack, TypeOK
    <2>3. Class' = Class /\ \A m \in Numbers : Request(m)' = Request(m)
      BY <2>1, RequestKept
    <2>4. Due(n)' /\ \A m \in pending \ {n} : Due(m) => Due(m)'
      BY <2>1, <2>2, <2>3 DEF Due, TypeOK
    <2>5. \A m \in Numbers \ {n} : Settled(m) => Settled(m)'
      BY <2>1, <2>2, <2>3 DEF Settled, Updatable
    <2> QED BY <2>1, <2>3, <2>4, <2>5 DEF Followed, TypeOK
  <1>6. ASSUME NEW n \in Numbers, UNCHANGED <<bucket, count, subnets, stacks>>,
               phase' \in {"start", "wait"}, phase \in {"start", "wait"},
               phase = "wait" => phase' = "wait",
               todo' \subseteq todo, pending' \subseteq pending, failures \subseteq failures',
               \A m \in (todo \ todo') \union (pending \ pending') :
                 m \in failures' \/ Settled(m) \/ m \in pending' \/ m \in todo'
        PROVE  Followed'
    <2>1. Class' = Class /\ \A m \in Numbers : Request(m)' = Request(m)
      BY <1>6, RequestKept
    <2>2. \A m \in Numbers : (Due(m) => Due(m)') /\ (Settled(m) => Settled(m)')
      BY <1>6, <2>1 DEF Due, Settled, Updatable, stacks
    <2>3. \A m \in pending' : Due(m)'
      BY <1>6, <2>2 DEF Followed, TypeOK
    <2>4. \A m \in Class \ (todo' \union failures' \union pending') : Settled(m)
      BY <1>6 DEF Followed
    <2>5. phase' = "start" => todo' \subseteq Class
      BY <1>6 DEF Followed
    <2> QED BY <2>1, <2>2, <2>3, <2>4, <2>5 DEF Followed
  <1>7. ASSUME NEW n \in Numbers, NothingToUpdate(n) PROVE Followed'
    BY <1>6, <1>7 DEF NothingToUpdate, Starting, Starts, Settled
  <1>8. ASSUME NEW n \in Numbers, StartFails(n) PROVE Followed'
    BY <1>6, <1>8 DEF StartFails, Starting, Starts
  <1>9. CASE EndStarts
    BY <1>6, <1>9, OwnAccountAssumption DEF EndStarts, Numbers
  <1>10. ASSUME NEW n \in Numbers, WaitSucceeds(n) PROVE Followed'
    <2>1. phase = "wait" /\ n \in pending /\ status[n] \in COMPLETE
      BY <1>10 DEF WaitSucceeds, Waiting
    <2>2. Settled(n)
      BY <2>1
      DEF Followed, Due, Settled, Updatable, COMPLETE, TERMINAL_FAILURE_STATES,
          UNUPDATABLE_STATES
    <2> QED BY <1>6, <1>10, <2>1, <2>2 DEF WaitSucceeds, Waited
  <1>11. ASSUME NEW n \in Numbers, WaitFails(n) PROVE Followed'
    BY <1>6, <1>11 DEF WaitFails, Waiting, Waited
  <1>12. CASE BeginDelete \/ \E c \in 1..MaxClass : BeginDeploy(c)
    BY <1>3, <1>12 DEF BeginDelete, BeginDeploy
  <1>13. CASE CheckRoleHeadroom \/ ResolveParameters \/ Refused \/ Stop \/ ShowStatus
    BY <1>3, <1>13 DEF CheckRoleHeadroom, ResolveParameters, Refused, Stop, ShowStatus, Exits
  <1>14. CASE Report \/ Confirm \/ EndDeletes \/ EndDelete
    BY <1>3, <1>14 DEF Report, Confirm, EndDeletes, EndDelete, Exits
  <1>15. ASSUME NEW n \in Names, DeleteStack(n) \/ DeleteRefused(n) PROVE Followed'
    BY <1>3, <1>15 DEF DeleteStack, DeleteRefused
  <1>16. ASSUME NEW n \in Names, WaitGone(n) \/ WaitGoneFails(n) PROVE Followed'
    BY <1>3, <1>16 DEF WaitGone, WaitGoneFails
  <1> QED
    BY <1>1, <1>2, <1>4, <1>5, <1>7, <1>8, <1>9, <1>10, <1>11, <1>12, <1>13, <1>14, <1>15,
       <1>16
    DEF Next, CommandStep, Outside

LEMMA ListedStep ==
  ASSUME IInv, [Next]_vars
  PROVE  Listed'
  <1> USE NumbersApart DEF IInv
  <1>1. CASE Outside
    BY <1>1, OutsideKeeps DEF Listed, command, history, IN_PROGRESS
  <1>2. CASE UNCHANGED vars \/ OthersTakeRole
    BY <1>2 DEF vars, OthersTakeRole, command, stacks, history, Listed
  <1>3. CASE phase' \notin {"confirm", "delete", "gone"}
    BY <1>3 DEF Listed
  <1>4. CASE \E c \in 1..MaxClass : BeginDeploy(c)
    BY <1>3, <1>4 DEF BeginDeploy
  <1>5. CASE CheckRoleHeadroom \/ ResolveParameters \/ Refused \/ StageTemplate
    BY <1>3, <1>5 DEF CheckRoleHeadroom, ResolveParameters, Refused, StageTemplate, Exits
  <1>6. ASSUME NEW n \in Numbers, CreateStack(n) \/ UpdateStack(n) PROVE Listed'
    BY <1>3, <1>6 DEF CreateStack, UpdateStack, Starting, Starts
  <1>7. ASSUME NEW n \in Numbers, NothingToUpdate(n) \/ StartFails(n) PROVE Listed'
    BY <1>3, <1>7 DEF NothingToUpdate, StartFails, Starting, Starts
  <1>8. CASE EndStarts \/ Report \/ EndDelete \/ Stop \/ ShowStatus
    BY <1>3, <1>8 DEF EndStarts, Report, EndDelete, Stop, ShowStatus, Exits
  <1>9. ASSUME NEW n \in Numbers, WaitSucceeds(n) \/ WaitFails(n) PROVE Listed'
    BY <1>3, <1>9 DEF WaitSucceeds, WaitFails, Waiting, Waited
  <1>10. CASE BeginDelete
    <2>1. names' = FindStacks /\ status' = status /\ phase' \in {"idle", "confirm"}
      BY <1>10 DEF BeginDelete, Begins, stacks
    <2> QED BY <2>1 DEF FindStacks, Listed
  <1>11. CASE Confirm
    <2>1. /\ phase = "confirm" /\ names' = names /\ status' = status
          /\ phase' \in {"idle", "delete"}
          /\ phase' = "delete" => todo' = names
      BY <1>11 DEF Confirm, Exits, stacks
    <2>2. phase' = "delete" => consent'
      <3> DEFINE several == Cardinality(names) > 1
      <3> SUFFICES ASSUME phase' = "delete" PROVE consent'
        OBVIOUS
      <3>1. PICK answer \in {"yes", "no", "none"} :
              MayDelete(answer) /\ consent' = (several => answer = "yes")
        BY <1>11 DEF Confirm, Exits
      <3>2. CASE answer = "yes"
        BY <3>1, <3>2
      <3>3. CASE Cardinality(names) = 1
        <4>1. ~several
          BY <3>3
        <4> HIDE DEF several
        <4> QED BY <3>1, <4>1, Zenon
      <3> QED BY <3>1, <3>2, <3>3 DEF MayDelete
    <2> QED BY <2>1, <2>2 DEF Listed
  <1>12. ASSUME NEW n \in Names, DeleteStack(n) \/ DeleteRefused(n) PROVE Listed'
    <2>1. /\ phase = "delete" /\ phase' = "delete" /\ n \in todo /\ todo' = todo \ {n}
          /\ names' = names /\ consent' = consent
      BY <1>12 DEF DeleteStack, DeleteRefused, history
    <2>2. \A m \in Numbers \ {n} : status'[m] = status[m]
      BY <1>12 DEF DeleteStack, DeleteRefused, stacks, TypeOK
    <2> QED BY <2>1, <2>2 DEF Listed
  <1>13. CASE EndDeletes
    BY <1>13 DEF EndDeletes, stacks, Listed
  <1>14. ASSUME NEW n \in Names, WaitGone(n) \/ WaitGoneFails(n) PROVE Listed'
    BY <1>14 DEF WaitGone, WaitGoneFails, stacks, Listed
  <1> QED
    BY <1>1, <1>2, <1>4, <1>5, <1>6, <1>7, <1>8, <1>9, <1>10, <1>11, <1>12, <1>13, <1>14
    DEF Next, CommandStep, Outside

\* Both reports are written by the last step of their command, and what they say
\* can only be undone by a command, which withdraws them.
LEMMA ReportStep ==
  ASSUME IInv, [Next]_vars
  PROVE  ReportTrue' /\ DeleteClears'
  <1> USE ClassTyped, NumbersApart DEF IInv
  <1>1. CASE Outside
    <2>1. UNCHANGED <<others, bucket, command, history>>
      BY <1>1, OutsideKeeps
    <2>2. Class' = Class /\ \A n \in Numbers : Request(n)' = Request(n)
      BY <2>1, RequestKept DEF command
    <2>3. ASSUME NEW n \in Numbers, Settled(n) PROVE Settled(n)'
      BY <1>1, <2>2, <2>3, OutsideKeeps DEF Settled, Updatable, COMPLETE, IN_PROGRESS
    <2>4. outcome' = outcome /\ failures' = failures
      BY <2>1 DEF command
    <2>5. ReportTrue'
      BY <2>2, <2>3, <2>4 DEF ReportTrue, Settled
    <2> QED BY <1>1, <2>4, <2>5, OutsideKeeps DEF DeleteClears, IN_PROGRESS
  <1>2. CASE UNCHANGED vars \/ OthersTakeRole
    <2>1. UNCHANGED <<bucket, command, stacks>>
      BY <1>2 DEF vars, OthersTakeRole
    <2>2. Class' = Class /\ \A n \in Numbers : Request(n)' = Request(n)
      BY <2>1, RequestKept DEF command
    <2> QED BY <2>1, <2>2 DEF ReportTrue, DeleteClears, Updatable, command, stacks
  <1>3. CASE outcome' \notin {"deployed", "partly", "deleted"}
    BY <1>3 DEF ReportTrue, DeleteClears
  <1>4. CASE \E c \in 1..MaxClass : BeginDeploy(c)
    BY <1>3, <1>4 DEF BeginDeploy
  <1>5. CASE CheckRoleHeadroom \/ ResolveParameters \/ Refused \/ StageTemplate
    BY <1>3, <1>5
    DEF CheckRoleHeadroom, ResolveParameters, Refused, StageTemplate, Exits, Undecided
  <1>6. ASSUME NEW n \in Numbers, CreateStack(n) \/ UpdateStack(n)
        PROVE  ReportTrue' /\ DeleteClears'
    BY <1>3, <1>6 DEF CreateStack, UpdateStack, Starting, Starts, Undecided
  <1>7. ASSUME NEW n \in Numbers, NothingToUpdate(n) \/ StartFails(n)
        PROVE  ReportTrue' /\ DeleteClears'
    BY <1>3, <1>7 DEF NothingToUpdate, StartFails, Starting, Starts, Undecided
  <1>8. CASE EndStarts \/ Stop \/ ShowStatus \/ EndDeletes \/ Confirm
    BY <1>3, <1>8 DEF EndStarts, Stop, ShowStatus, EndDeletes, Confirm, Exits, Undecided
  <1>9. ASSUME NEW n \in Numbers, WaitSucceeds(n) \/ WaitFails(n)
        PROVE  ReportTrue' /\ DeleteClears'
    BY <1>3, <1>9 DEF WaitSucceeds, WaitFails, Waiting, Waited, Undecided
  <1>10. ASSUME NEW n \in Names, DeleteStack(n) \/ DeleteRefused(n)
         PROVE  ReportTrue' /\ DeleteClears'
    BY <1>3, <1>10 DEF DeleteStack, DeleteRefused, Undecided
  <1>11. ASSUME NEW n \in Names, WaitGone(n) \/ WaitGoneFails(n)
         PROVE  ReportTrue' /\ DeleteClears'
    BY <1>3, <1>11 DEF WaitGone, WaitGoneFails, Undecided
  <1>12. CASE BeginDelete
    <2>1. /\ outcome' \in {"none", "deleted"} /\ status' = status
          /\ outcome' = "deleted" => FindStacks = {}
      BY <1>12 DEF BeginDelete, Begins, stacks
    <2> QED BY <2>1 DEF FindStacks, ReportTrue, DeleteClears
  <1>13. CASE Report
    <2>1. /\ phase = "wait" /\ pending = {} /\ todo = {}
          /\ UNCHANGED <<bucket, count, subnets, failures, stacks>>
          /\ outcome' # "deleted"
      BY <1>13 DEF Report, Exits, TypeOK
    <2>2. Class' = Class /\ \A n \in Numbers : Request(n)' = Request(n)
      BY <2>1, RequestKept
    <2>3. \A n \in Class \ failures : Settled(n)
      BY <2>1 DEF Followed
    <2> QED BY <2>1, <2>2, <2>3 DEF ReportTrue, DeleteClears, Settled, Updatable, stacks
  <1>14. CASE EndDelete
    <2>1. /\ phase = "gone" /\ todo = {} /\ status' = status
          /\ outcome' \in {"deleted", "undeleted"}
          /\ outcome' = "deleted" => failures = {}
      BY <1>14 DEF EndDelete, Exits, stacks
    <2> QED BY <2>1 DEF Listed, ReportTrue, DeleteClears
  <1> QED
    BY <1>1, <1>2, <1>4, <1>5, <1>6, <1>7, <1>8, <1>9, <1>10, <1>11, <1>12, <1>13, <1>14
    DEF Next, CommandStep, Outside

(***************************************************************************)
(* Room for the roles of a class.                                          *)
(***************************************************************************)
LEMMA FiniteNames ==
  ASSUME NEW S \in SUBSET Names
  PROVE  IsFiniteSet(S)
  <1>1. IsFiniteSet(Numbers) /\ IsFiniteSet(Bystanders)
    BY FS_Interval, OwnAccountAssumption DEF Numbers
  <1>2. IsFiniteSet(Names)
    BY <1>1, FS_Union DEF Names
  <1> QED BY <1>2, FS_Subset

LEMMA CheckedRoom ==
  ASSUME TypeOK, count > 1, HasHeadroom
  PROVE  others + ROLES_PER_STACK * Cardinality(roles \union Class) <= RolesQuota
  <1>1. count \in Nat /\ Class = 1..count
    BY OwnAccountAssumption DEF TypeOK, Class
  <1>2. IsFiniteSet(Class) /\ Cardinality(Class) = count
    BY <1>1, FS_Interval
  <1>3. IsFiniteSet(roles) /\ IsFiniteSet(roles \intersect Class)
    BY FiniteNames DEF TypeOK
  <1>4. /\ Cardinality(roles) \in Nat /\ Cardinality(roles \intersect Class) \in Nat
        /\ Cardinality(roles \union Class) =
             Cardinality(roles) + Cardinality(Class) - Cardinality(roles \intersect Class)
    BY <1>2, <1>3, FS_Union, FS_CardinalityType
  <1>5. others \in Nat /\ RolesQuota \in Nat
    BY OwnAccountAssumption DEF TypeOK
  <1> QED BY <1>1, <1>2, <1>4, <1>5 DEF HasHeadroom, UsedRoles, ROLES_PER_STACK

\* Fewer roles, of a class that stays, need no more room.
LEMMA RoomShrinks ==
  ASSUME TypeOK, NEW R \in SUBSET Names, R \subseteq roles \union Class,
         others + ROLES_PER_STACK * Cardinality(roles \union Class) <= RolesQuota
  PROVE  others + ROLES_PER_STACK * Cardinality(R \union Class) <= RolesQuota
  <1>1. IsFiniteSet(roles \union Class)
    BY FiniteNames, ClassTyped DEF TypeOK
  <1>2. /\ Cardinality(R \union Class) <= Cardinality(roles \union Class)
        /\ IsFiniteSet(R \union Class)
    BY <1>1, FS_Subset
  <1>3. Cardinality(R \union Class) \in Nat /\ Cardinality(roles \union Class) \in Nat
    BY <1>1, <1>2, FS_CardinalityType
  <1>4. others \in Nat /\ RolesQuota \in Nat
    BY OwnAccountAssumption DEF TypeOK
  <1> QED BY <1>2, <1>3, <1>4 DEF ROLES_PER_STACK

LEMMA RoomyStep ==
  ASSUME IInv, [Next]_vars
  PROVE  Roomy'
  <1> USE ClassTyped, NumbersApart DEF IInv
  <1>1. CASE ~fits'
    BY <1>1 DEF Roomy
  <1>2. ASSUME UNCHANGED <<fits, count, others>>, roles' \subseteq roles \union Making,
               roles' \subseteq Names, fits => Making' \subseteq Class
        PROVE  Roomy'
    <2> SUFFICES ASSUME fits PROVE Roomy'
      BY <1>2 DEF Roomy
    <2>1. Class' = Class /\ Making \subseteq Class
      BY <1>2 DEF Class, Roomy
    <2>2. others + ROLES_PER_STACK * Cardinality(roles' \union Class) <= RolesQuota
      BY <1>2, <2>1, RoomShrinks DEF Roomy
    <2> QED BY <1>2, <2>1, <2>2 DEF Roomy
  <1>3. ASSUME UNCHANGED <<fits, count, others, status, roles>> PROVE Roomy'
    BY <1>2, <1>3 DEF Making, Roomy, TypeOK
  <1>4. CASE UNCHANGED vars \/ OthersTakeRole
    BY <1>1, <1>3, <1>4 DEF vars, stacks, command, history, OthersTakeRole
  <1>5. CASE BeginDelete \/ \E c \in 1..MaxClass : BeginDeploy(c)
    BY <1>1, <1>5 DEF BeginDelete, BeginDeploy, Begins
  <1>6. CASE CheckRoleHeadroom
    <2>1. UNCHANGED <<count, others, status, roles>>
      BY <1>6 DEF CheckRoleHeadroom, stacks
    <2>2. ~fits' \/ fits' = fits \/ (count > 1 /\ HasHeadroom /\ Making \subseteq Class)
      BY <1>6 DEF CheckRoleHeadroom
    <2>3. Class' = Class /\ Making' = Making
      BY <2>1 DEF Class, Making
    <2>4. CASE count > 1 /\ HasHeadroom /\ Making \subseteq Class
      BY <2>1, <2>3, <2>4, CheckedRoom DEF Roomy
    <2> QED BY <1>1, <1>3, <2>1, <2>2, <2>4
  <1>7. CASE ResolveParameters \/ Refused \/ StageTemplate \/ EndStarts \/ Report
    BY <1>3, <1>7 DEF ResolveParameters, Refused, StageTemplate, EndStarts, Report, stacks,
       history
  <1>8. CASE Stop \/ ShowStatus \/ Confirm \/ EndDeletes \/ EndDelete
    BY <1>3, <1>8 DEF Stop, ShowStatus, Confirm, EndDeletes, EndDelete, stacks, history
  <1>9. ASSUME NEW n \in Numbers, CreateStack(n) \/ UpdateStack(n) PROVE Roomy'
    <2>1. /\ phase = "start" /\ n \in todo /\ UNCHANGED <<fits, count, others, roles>>
          /\ \A m \in Names \ {n} : status'[m] = status[m]
      BY <1>9 DEF CreateStack, UpdateStack, Starting, Starts, history, TypeOK
    <2>2. n \in Class
      BY <2>1 DEF Followed
    <2>3. Making' \subseteq Making \union {n}
      BY <2>1 DEF Making
    <2> QED BY <1>2, <2>1, <2>2, <2>3 DEF Roomy, TypeOK
  <1>10. ASSUME NEW n \in Numbers, NothingToUpdate(n) \/ StartFails(n) PROVE Roomy'
    BY <1>3, <1>10 DEF NothingToUpdate, StartFails, Starts, stacks, history
  <1>11. ASSUME NEW n \in Numbers, WaitSucceeds(n) \/ WaitFails(n) PROVE Roomy'
    BY <1>3, <1>11 DEF WaitSucceeds, WaitFails, Waited, stacks, history
  <1>12. ASSUME NEW n \in Names, DeleteStack(n) PROVE Roomy'
    <2>1. UNCHANGED <<fits, count, others, roles>> /\ Making' \subseteq Making
      BY <1>12 DEF DeleteStack, history, Making, TypeOK
    <2> QED BY <1>2, <2>1 DEF Roomy, TypeOK
  <1>13. ASSUME NEW n \in Names, DeleteRefused(n) \/ WaitGone(n) \/ WaitGoneFails(n)
         PROVE  Roomy'
    BY <1>3, <1>13 DEF DeleteRefused, WaitGone, WaitGoneFails, stacks, history
  <1>14. ASSUME NEW n \in Names, MakeRoles(n) PROVE Roomy'
    <2>1. /\ UNCHANGED <<fits, count, others, status>> /\ roles' = roles \union {n}
          /\ n \in Making
      BY <1>14 DEF MakeRoles, command, history
    <2> QED BY <1>2, <2>1 DEF Roomy, Making, TypeOK
  <1>15. ASSUME NEW n \in Names, NEW state \in Statuses \ {"CREATE_IN_PROGRESS"},
                Becomes(n, state), roles' = roles \/ roles' = roles \ {n},
                status[n] # "CREATE_IN_PROGRESS" \/ roles' = roles
         PROVE  Roomy'
    <2>1. UNCHANGED <<fits, count, others>> /\ Making' \subseteq Making
      BY <1>15 DEF Becomes, command, history, Making, TypeOK
    <2> QED BY <1>2, <1>15, <2>1 DEF Roomy, TypeOK
  <1>16. Statuses \ {"CREATE_IN_PROGRESS"} =
           {"none", "UPDATE_IN_PROGRESS", "DELETE_IN_PROGRESS"} \union COMPLETE
             \union TERMINAL_FAILURE_STATES
    BY DEF Statuses, COMPLETE, IN_PROGRESS, TERMINAL_FAILURE_STATES, UNUPDATABLE_STATES
  <1>17. ASSUME NEW n \in Names, CreateCompletes(n) \/ UpdateCompletes(n) PROVE Roomy'
    BY <1>15, <1>16, <1>17 DEF CreateCompletes, UpdateCompletes, COMPLETE
  <1>18. ASSUME NEW n \in Names, CreateFails(n) \/ UpdateFails(n) PROVE Roomy'
    <2>1. {"CREATE_FAILED", "UPDATE_ROLLBACK_COMPLETE", "UPDATE_ROLLBACK_FAILED"}
            \subseteq Statuses \ {"CREATE_IN_PROGRESS"}
      BY <1>16 DEF TERMINAL_FAILURE_STATES, UNUPDATABLE_STATES
    <2>2. CASE CreateFails(n)
      BY <1>15, <2>1, <2>2 DEF CreateFails
    <2>3. CASE UpdateFails(n)
      BY <1>15, <2>1, <2>3 DEF UpdateFails
    <2> QED BY <1>18, <2>2, <2>3
  <1>19. ASSUME NEW n \in Names, DeleteCompletes(n) \/ DeleteFails(n) PROVE Roomy'
    <2>1. {"none", "DELETE_FAILED"} \subseteq Statuses \ {"CREATE_IN_PROGRESS"}
      BY <1>16 DEF TERMINAL_FAILURE_STATES, UNUPDATABLE_STATES
    <2> QED BY <1>15, <1>19, <2>1 DEF DeleteCompletes, DeleteFails
  <1>20. ASSUME NEW b \in Bystanders, Bystander(b) PROVE Roomy'
    BY <1>15, <1>16, <1>20 DEF Bystander, COMPLETE, Names
  <1> QED
    BY <1>4, <1>5, <1>6, <1>7, <1>8, <1>9, <1>10, <1>11, <1>12, <1>13, <1>14, <1>17, <1>18,
       <1>19, <1>20
    DEF Next, CommandStep, CloudFormation

LEMMA RoomFor ==
  ASSUME IInv
  PROVE  HeadroomHolds
  <1> SUFFICES ASSUME fits, NEW n \in Making PROVE HasRoom
    BY DEF HeadroomHolds
  <1>1. n \in Class /\ n \notin roles
    BY DEF IInv, Roomy, Making
  <1>2. IsFiniteSet(roles) /\ IsFiniteSet(roles \union Class)
    BY FiniteNames, ClassTyped DEF IInv, TypeOK
  <1>3. Cardinality(roles \union {n}) = Cardinality(roles) + 1
    BY <1>1, <1>2, FS_AddElement
  <1>4. Cardinality(roles \union {n}) <= Cardinality(roles \union Class)
    BY <1>1, <1>2, FS_Subset
  <1>5. Cardinality(roles) \in Nat /\ Cardinality(roles \union Class) \in Nat
    BY <1>2, FS_CardinalityType
  <1>6. others \in Nat /\ RolesQuota \in Nat
    BY OwnAccountAssumption DEF IInv, TypeOK
  <1> QED BY <1>3, <1>4, <1>5, <1>6 DEF IInv, Roomy, HasRoom, UsedRoles, ROLES_PER_STACK

(***************************************************************************)
(* The invariant, and what follows.                                        *)
(***************************************************************************)
LEMMA InvInit == Init => IInv
  BY InitTyped
  DEF Init, IInv, Undecided, Followed, Listed, ReportTrue, DeleteClears, Roomy

LEMMA InvStep == IInv /\ [Next]_vars => IInv'
  BY TypeStep, UndecidedStep, FollowedStep, ListedStep, ReportStep, RoomyStep DEF IInv

LEMMA InvHolds == Spec => []IInv
  BY InvInit, InvStep, PTL DEF Spec

\* deploy.py keeps every variable in its type.
THEOREM TypeCorrect == Spec => []TypeOK
  <1>1. IInv => TypeOK
    BY DEF IInv
  <1> QED BY <1>1, InvHolds, PTL

\* What deploy reports of a student is true of that student's stack, after any
\* history of commands, stops and failures.
THEOREM ReportAlwaysTrue == Spec => []ReportTrue
  <1>1. IInv => ReportTrue
    BY DEF IInv
  <1> QED BY <1>1, InvHolds, PTL

\* check_role_headroom suffices, for a class, a quota and other stacks of any size.
THEOREM HeadroomAlwaysHolds == Spec => []HeadroomHolds
  <1>1. IInv => HeadroomHolds
    BY RoomFor
  <1> QED BY <1>1, InvHolds, PTL

\* A delete_stacks that reports success left no student's stack behind.
THEOREM DeleteAlwaysClears == Spec => []DeleteClears
  <1>1. IInv => DeleteClears
    BY DEF IInv
  <1> QED BY <1>1, InvHolds, PTL

LEMMA AskedStep ==
  ASSUME IInv, [Next]_vars, NEW n \in Names,
         status'[n] = "DELETE_IN_PROGRESS", status[n] # "DELETE_IN_PROGRESS"
  PROVE  n \in names /\ consent
  <1> USE NumbersApart DEF IInv
  <1>1. CASE status' = status
    BY <1>1
  <1>2. ASSUME NEW m \in Names, DeleteStack(m) PROVE n \in names /\ consent
    BY <1>2 DEF DeleteStack, Listed, TypeOK
  <1>3. ASSUME NEW m \in Names, NEW state, state # "DELETE_IN_PROGRESS",
               status' = [status EXCEPT ![m] = state]
        PROVE  FALSE
    BY <1>3 DEF TypeOK
  <1>4. ASSUME NEW m \in Numbers, CreateStack(m) \/ UpdateStack(m) PROVE FALSE
    BY <1>3, <1>4 DEF CreateStack, UpdateStack
  <1>5. ASSUME NEW m \in Names, CreateCompletes(m) \/ UpdateCompletes(m) PROVE FALSE
    BY <1>3, <1>5 DEF CreateCompletes, UpdateCompletes, Becomes
  <1>6. ASSUME NEW m \in Names, CreateFails(m) \/ UpdateFails(m) PROVE FALSE
    BY <1>3, <1>6 DEF CreateFails, UpdateFails, Becomes
  <1>7. ASSUME NEW m \in Names, DeleteCompletes(m) \/ DeleteFails(m) PROVE FALSE
    BY <1>3, <1>7 DEF DeleteCompletes, DeleteFails, Becomes
  <1>8. ASSUME NEW b \in Bystanders, Bystander(b) PROVE FALSE
    BY <1>3, <1>8 DEF Bystander, Becomes, Names
  <1>9. ASSUME NEW m \in Names,
               MakeRoles(m) \/ DeleteRefused(m) \/ WaitGone(m) \/ WaitGoneFails(m)
        PROVE  status' = status
    BY <1>9 DEF MakeRoles, DeleteRefused, WaitGone, WaitGoneFails, stacks
  <1>10. ASSUME NEW m \in Numbers,
                NothingToUpdate(m) \/ StartFails(m) \/ WaitSucceeds(m) \/ WaitFails(m)
         PROVE  status' = status
    BY <1>10 DEF NothingToUpdate, StartFails, WaitSucceeds, WaitFails, Waited, stacks
  <1>11. CASE \/ UNCHANGED vars \/ OthersTakeRole \/ ShowStatus \/ Stop \/ BeginDelete
              \/ \E c \in 1..MaxClass : BeginDeploy(c)
    BY <1>1, <1>11
    DEF vars, OthersTakeRole, ShowStatus, Stop, BeginDelete, BeginDeploy, Begins, stacks
  <1>12. CASE CheckRoleHeadroom \/ ResolveParameters \/ Refused \/ StageTemplate \/ EndStarts
    BY <1>1, <1>12
    DEF CheckRoleHeadroom, ResolveParameters, Refused, StageTemplate, EndStarts, stacks
  <1>13. CASE Report \/ Confirm \/ EndDeletes \/ EndDelete
    BY <1>1, <1>13 DEF Report, Confirm, EndDeletes, EndDelete, stacks
  <1> QED
    BY <1>1, <1>2, <1>4, <1>5, <1>6, <1>7, <1>8, <1>9, <1>10, <1>11, <1>12, <1>13
    DEF Next, CommandStep, CloudFormation

\* delete_stacks only deletes what it listed, and several only after a yes.
THEOREM DeleteAlwaysAsked == Spec => DeleteAsked
  <1>1. IInv /\ [Next]_vars =>
          [\A n \in Names :
             status'[n] = "DELETE_IN_PROGRESS" /\ status[n] # "DELETE_IN_PROGRESS" =>
               n \in names /\ consent]_vars
    BY AskedStep
  <1>2. Spec => [][Next]_vars
    BY DEF Spec
  <1> QED BY <1>1, <1>2, InvHolds, PTL DEF DeleteAsked

(***************************************************************************)
(* Seats.  default_network sorts by zone and keeps EC2's order within one, *)
(* which may differ from call to call.  A default VPC has one default      *)
(* subnet in a zone, and then the rotation is the same at every deploy.    *)
(***************************************************************************)
ZonesApart == \A s, t \in Subnets : s # t => Zone[s] # Zone[t]

\* At the first place where two rotations differ, each would have the subnet of
\* the lower zone first.
LEMMA OneRotation ==
  ASSUME ZonesApart, NEW l \in DefaultRotation, NEW r \in DefaultRotation
  PROVE  l = r
  <1> DEFINE k == Cardinality(Subnets)
             differ == {i \in 1..k : l[i] # r[i]}
  <1>1. k \in Nat
    BY FS_CardinalityType, OwnAccountAssumption
  <1>2. Cardinality(1..k) = k
    BY <1>1, FS_Interval
  <1> DEFINE Sorted(x) == /\ x \in [1..k -> Subnets]
                          /\ \A i, j \in 1..k : i < j => x[i] # x[j] /\ Zone[x[i]] <= Zone[x[j]]
  <1>3. Sorted(l) /\ Sorted(r)
    BY DEF DefaultRotation
  <1> HIDE DEF k
  <1>4. ASSUME NEW x, Sorted(x) PROVE \A s \in Subnets : \E i \in 1..k : x[i] = s
    <2>1. \A i, j \in 1..k : i # j => i < j \/ j < i
      BY <1>1
    <2>2. x \in Injection(1..k, Subnets)
      BY <1>4, <2>1 DEF Injection, IsInjective
    <2>3. x \in Surjection(1..k, Subnets)
      BY <1>2, <2>2, FS_Injection, OwnAccountAssumption DEF k
    <2> QED BY <2>3 DEF Surjection
  <1>5. ASSUME NEW x, Sorted(x), NEW y, Sorted(y), NEW i \in 1..k, x[i] # y[i],
               \A j \in 1..k : j < i => x[j] = y[j]
        PROVE  Zone[x[i]] < Zone[y[i]]
    <2>1. PICK j \in 1..k : x[j] = y[i]
      BY <1>4, <1>5
    <2>2. j # i
      BY <1>5, <2>1
    <2>3. ~(j < i)
      BY <1>5, <2>1
    <2>4. i < j
      BY <1>1, <2>2, <2>3
    <2>5. Zone[x[i]] <= Zone[y[i]] /\ Zone[x[i]] # Zone[y[i]]
      BY <1>5, <2>1, <2>4 DEF ZonesApart
    <2>6. Zone[x[i]] \in Nat /\ Zone[y[i]] \in Nat
      BY <1>5, OwnAccountAssumption
    <2> QED BY <2>5, <2>6
  <1> HIDE DEF Sorted
  <1>6. differ = {}
    <2> SUFFICES ASSUME differ # {} PROVE FALSE
      OBVIOUS
    <2>1. differ \subseteq Nat
      BY <1>1
    <2>2. PICK i \in differ : \A j \in differ : <<j, i>> \notin OpToRel(<, Nat)
      BY <2>1, NatLessThanWellFounded, WFMin
    <2>3. i \in 1..k /\ l[i] # r[i] /\ \A j \in 1..k : j < i => l[j] = r[j]
      BY <1>1, <2>1, <2>2 DEF OpToRel
    <2>4. Zone[l[i]] < Zone[r[i]] /\ Zone[r[i]] < Zone[l[i]]
      BY <1>3, <1>5, <2>3
    <2>5. Zone[l[i]] \in Nat /\ Zone[r[i]] \in Nat
      BY <1>3, <2>3, OwnAccountAssumption DEF Sorted
    <2> QED BY <2>4, <2>5
  <1>7. l \in [1..k -> Subnets] /\ r \in [1..k -> Subnets]
    BY <1>3 DEF Sorted
  <1>8. \A i \in 1..k : l[i] = r[i]
    BY <1>6
  <1> HIDE DEF differ
  <1>9. l = [i \in 1..k |-> l[i]] /\ r = [i \in 1..k |-> r[i]]
    BY <1>7
  <1>10. [i \in 1..k |-> l[i]] = [i \in 1..k |-> r[i]]
    BY <1>8
  <1> QED BY <1>9, <1>10

SeatIn(l, n) == IF n = 0 THEN l[1] ELSE l[((n - 1) % Len(l)) + 1]
Seats(n) == {SeatIn(l, n) : l \in DefaultRotation}

\* A stack has, and is to have, a seat of some rotation.
Seated(n) ==
  /\ live[n] # NoConfig => live[n][2] \in Seats(n)
  /\ wanted[n] # NoConfig => wanted[n][2] \in Seats(n)
  /\ Updatable(n) \/ status[n] = "UPDATE_IN_PROGRESS" => live[n] # NoConfig
  /\ status[n] \in {"CREATE_IN_PROGRESS", "UPDATE_IN_PROGRESS"} => wanted[n] # NoConfig

SeatInv ==
  /\ IInv
  /\ phase \in {"stage", "start"} => subnets \in DefaultRotation
  /\ \A n \in Numbers : Seated(n)

LEMMA SeatInit == Init => SeatInv
  BY InvInit DEF Init, SeatInv, Seated, Updatable, COMPLETE, Numbers, Names

LEMMA RotatedStep ==
  ASSUME SeatInv, [Next]_vars
  PROVE  phase' \in {"stage", "start"} => subnets' \in DefaultRotation
  <1>1. CASE UNCHANGED <<phase, subnets>> \/ phase' \notin {"stage", "start"}
    BY <1>1 DEF SeatInv
  <1>2. CASE ResolveParameters
    BY <1>2 DEF ResolveParameters
  <1>3. CASE StageTemplate
    BY <1>3 DEF StageTemplate, SeatInv
  <1>4. CASE Outside
    BY <1>1, <1>4, OutsideKeeps DEF SeatInv, IInv, command
  <1> QED
    BY <1>1, <1>2, <1>3, <1>4
    DEF Next, BeginDeploy, ShowStatus, BeginDelete, CommandStep, Stop, Exits, Outside,
        OthersTakeRole, CheckRoleHeadroom, Refused, EndStarts, Report, Confirm, EndDeletes,
        EndDelete, CreateStack, UpdateStack, NothingToUpdate, StartFails, WaitSucceeds,
        WaitFails, DeleteStack, DeleteRefused, WaitGone, WaitGoneFails, Starts, Waited, vars,
        stacks, command

\* What a step does to a stack: nothing that counts here, a request at its seat,
\* its end well or badly, or its deletion.
LEMMA StackSteps ==
  ASSUME SeatInv, [Next]_vars, NEW n \in Numbers
  PROVE  \/ UNCHANGED <<status[n], live[n], wanted[n]>>
         \/ /\ status'[n] \in {"CREATE_IN_PROGRESS", "UPDATE_IN_PROGRESS"}
            /\ status'[n] = "UPDATE_IN_PROGRESS" => Updatable(n)
            /\ live'[n] = live[n] /\ wanted'[n] = Request(n)
            /\ phase = "start"
         \/ /\ status[n] \in {"CREATE_IN_PROGRESS", "UPDATE_IN_PROGRESS"}
            /\ status'[n] \in COMPLETE
            /\ live'[n] = wanted[n] /\ wanted'[n] = wanted[n]
         \/ /\ status[n] = "CREATE_IN_PROGRESS" /\ status'[n] = "CREATE_FAILED"
            /\ live'[n] = live[n] /\ wanted'[n] = NoConfig
         \/ /\ status[n] = "UPDATE_IN_PROGRESS"
            /\ status'[n] \in {"UPDATE_ROLLBACK_COMPLETE", "UPDATE_ROLLBACK_FAILED"}
            /\ live'[n] = live[n] /\ wanted'[n] = live[n]
         \/ /\ status'[n] \in {"none", "DELETE_IN_PROGRESS"}
            /\ live'[n] = NoConfig /\ wanted'[n] = NoConfig
         \/ /\ status'[n] \in {"none", "DELETE_FAILED"}
            /\ live'[n] = live[n] /\ wanted'[n] = wanted[n]
  <1> DEFINE Kept == UNCHANGED <<status[n], live[n], wanted[n]>>
  <1> USE NumbersApart DEF SeatInv, IInv, TypeOK
  <1>1. ASSUME UNCHANGED stacks PROVE Kept
    BY <1>1 DEF stacks
  <1>2. CASE \/ UNCHANGED vars \/ OthersTakeRole \/ ShowStatus \/ Stop \/ BeginDelete
             \/ \E c \in 1..MaxClass : BeginDeploy(c)
    BY <1>1, <1>2 DEF vars, OthersTakeRole, ShowStatus, Stop, BeginDelete, BeginDeploy, Begins
  <1>3. CASE \/ CheckRoleHeadroom \/ ResolveParameters \/ Refused \/ StageTemplate \/ EndStarts
             \/ Report \/ Confirm \/ EndDeletes \/ EndDelete
    BY <1>1, <1>3
    DEF CheckRoleHeadroom, ResolveParameters, Refused, StageTemplate, EndStarts, Report,
        Confirm, EndDeletes, EndDelete
  <1>4. CASE \E m \in Numbers :
               NothingToUpdate(m) \/ StartFails(m) \/ WaitSucceeds(m) \/ WaitFails(m)
    BY <1>1, <1>4 DEF NothingToUpdate, StartFails, WaitSucceeds, WaitFails, Waited
  <1>5. CASE \E m \in Names : DeleteRefused(m) \/ WaitGone(m) \/ WaitGoneFails(m)
    BY <1>1, <1>5 DEF DeleteRefused, WaitGone, WaitGoneFails
  <1>6. CASE \E m \in Numbers : CreateStack(m) \/ UpdateStack(m)
    BY <1>6 DEF CreateStack, UpdateStack, Starting
  <1>7. CASE \E m \in Names : DeleteStack(m)
    BY <1>7 DEF DeleteStack
  <1>8. CASE \E m \in Names : CreateCompletes(m) \/ UpdateCompletes(m)
    BY <1>8 DEF CreateCompletes, UpdateCompletes, Becomes, COMPLETE
  <1>9. CASE \E m \in Names : CreateFails(m) \/ UpdateFails(m)
    BY <1>9 DEF CreateFails, UpdateFails, Becomes
  <1>10. CASE \E m \in Names : DeleteCompletes(m) \/ DeleteFails(m)
    BY <1>10 DEF DeleteCompletes, DeleteFails, Becomes
  <1>11. CASE \E m \in Names : MakeRoles(m)
    BY <1>11 DEF MakeRoles
  <1>12. CASE \E b \in Bystanders : Bystander(b)
    BY <1>12 DEF Bystander, Becomes
  <1> QED
    BY <1>2, <1>3, <1>4, <1>5, <1>6, <1>7, <1>8, <1>9, <1>10, <1>11, <1>12
    DEF Next, CommandStep, CloudFormation

LEMMA SeatStep == SeatInv /\ [Next]_vars => SeatInv'
  <1> SUFFICES ASSUME SeatInv, [Next]_vars PROVE SeatInv'
    OBVIOUS
  <1>1. IInv' /\ (phase' \in {"stage", "start"} => subnets' \in DefaultRotation)
    BY InvStep, RotatedStep DEF SeatInv
  <1>2. ASSUME NEW n \in Numbers PROVE Seated(n)'
    <2>1. Seated(n)
      BY DEF SeatInv
    <2>2. phase = "start" => Request(n)[2] \in Seats(n) /\ Request(n) # NoConfig
      <3> SUFFICES ASSUME phase = "start"
                   PROVE  Request(n)[2] \in Seats(n) /\ Request(n) # NoConfig
        OBVIOUS
      <3>1. Request(n) \in Configs
        BY RequestTyped DEF SeatInv, IInv
      <3>2. subnets \in DefaultRotation /\ Request(n)[2] = SeatIn(subnets, n)
        BY DEF SeatInv, Request, SubnetOf, SeatIn
      <3> QED BY <3>1, <3>2, OwnAccountAssumption DEF Seats, Configs
    <2> QED
      BY <2>1, <2>2, StackSteps DEF Seated, Updatable, COMPLETE
  <1> QED BY <1>1, <1>2 DEF SeatInv

\* With one subnet to a zone, however often a class is deployed, by commands that
\* stop, fail or are followed by others, an update keeps a student's subnet.
THEOREM SeatAlwaysKept == ZonesApart => (Spec => SeatKept)
  <1> SUFFICES ASSUME ZonesApart PROVE Spec => SeatKept
    OBVIOUS
  <1>1. SeatInv /\ [Next]_vars =>
          [\A n \in Numbers :
             status'[n] = "UPDATE_IN_PROGRESS" => wanted'[n][2] = live[n][2]]_vars
    <2> SUFFICES ASSUME SeatInv, [Next]_vars, NEW n \in Numbers,
                        status'[n] = "UPDATE_IN_PROGRESS"
                 PROVE  wanted'[n][2] = live[n][2]
      OBVIOUS
    <2>1. Seated(n)'
      BY SeatStep DEF SeatInv
    <2>2. live'[n] = live[n]
      BY StackSteps DEF COMPLETE
    <2>3. wanted'[n][2] \in Seats(n) /\ live[n][2] \in Seats(n)
      BY <2>1, <2>2 DEF Seated
    <2> QED BY <2>3, OneRotation DEF Seats
  <1> QED BY <1>1, SeatInit, SeatStep, PTL DEF Spec, SeatKept
================================================================================
