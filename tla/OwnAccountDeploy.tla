---------------------------- MODULE OwnAccountDeploy ----------------------------
(***************************************************************************)
(* environment/own-account/deploy.py: one CloudFormation stack per student *)
(* in an organiser's account.  One command runs at a time, deploy, status  *)
(* or delete, and any of them may stop at any step (Ctrl-C, or an AWS      *)
(* error no loop catches); the stacks it started go on without it, and the *)
(* next command finds them as they then are.                               *)
(*                                                                         *)
(* External are CloudFormation, which accepts, finishes, rolls back and    *)
(* deletes, the template of the checkout, and other people in the account: *)
(* they take IAM roles and may own a stack whose name shares the prefix.   *)
(***************************************************************************)
EXTENDS Naturals, Sequences, FiniteSets

CONSTANTS
  MaxClass,      \* bound on --count
  Bystanders,    \* other people's stacks named <STACK_NAME>-<suffix>
  Subnets,       \* the default VPC's public subnets, or the one .env pins
  Zone,          \* the rank of each one's availability zone
  Editions,      \* editions of code-editor.yaml a checkout may hold
  RolesQuota,    \* IAM roles the account may have
  MaxOthers,     \* bound on the roles other people hold
  MaxCommands,   \* bound on the commands run
  NoConfig       \* of a stack that never stood

ROLES_PER_STACK == 3

\* 0 is the plain stack name, n the name with the suffix -0n.
Numbers == 0..MaxClass
Names == Numbers \union Bystanders

ASSUME OwnAccountAssumption ==
  /\ MaxClass \in Nat \ {0}
  /\ IsFiniteSet(Bystanders) /\ Bystanders \cap Nat = {}
  /\ IsFiniteSet(Subnets) /\ Subnets # {}
  /\ Zone \in [Subnets -> Nat]
  /\ RolesQuota \in Nat /\ MaxOthers \in Nat /\ MaxCommands \in Nat
  /\ NoConfig \notin Editions \X Subnets

VARIABLES
  status,     \* StackStatus, "none" for a stack that does not exist
  live,       \* the template edition and subnet a stack runs with
  wanted,     \* those of the request CloudFormation last accepted
  roles,      \* the stacks that hold their IAM roles
  others,     \* IAM roles of everybody else
  bucket,     \* edition of the staged template
  commands,   \* how many began
  phase,      \* where the command is
  count,      \* its --count
  subnets,    \* the rotation it resolved
  todo,       \* names its loop has still to take
  pending,    \* stacks it started and has to wait for
  failures,   \* names it reports as failed
  names,      \* what delete found
  outcome,    \* how the last command ended
  consent,    \* history: delete was given a yes, or asked for none
  fits        \* history: this class, and all that is being built, had room

stacks == <<status, live, wanted, roles>>
command == <<commands, phase, count, subnets, todo, pending, failures, names, outcome>>
history == <<consent, fits>>
vars == <<stacks, others, bucket, command, history>>

COMPLETE == {"CREATE_COMPLETE", "UPDATE_COMPLETE"}
IN_PROGRESS == {"CREATE_IN_PROGRESS", "UPDATE_IN_PROGRESS", "DELETE_IN_PROGRESS"}

UNUPDATABLE_STATES ==
  {"CREATE_FAILED", "ROLLBACK_COMPLETE", "ROLLBACK_FAILED", "DELETE_FAILED"}
TERMINAL_FAILURE_STATES ==
  UNUPDATABLE_STATES \union {"UPDATE_ROLLBACK_COMPLETE", "UPDATE_ROLLBACK_FAILED"}

\* Creates are made with DO_NOTHING, so that none of them rolls back.
Statuses == {"none"} \union COMPLETE \union IN_PROGRESS \union TERMINAL_FAILURE_STATES
Configs == Editions \X Subnets
Phases == {"idle", "roles", "network", "stage", "start", "wait", "report",
           "confirm", "delete", "gone"}
Outcomes == {"none", "deployed", "partly", "refused", "stopped", "shown", "deleted",
             "undeleted", "kept"}

AnyRotation ==
  {l \in [1..Cardinality(Subnets) -> Subnets] :
     \A i, j \in DOMAIN l : i < j => l[i] # l[j]}

\* default_network: sorted by zone; within a zone, as EC2 listed them.
DefaultRotation ==
  {l \in [1..Cardinality(Subnets) -> Subnets] :
     \A i, j \in DOMAIN l : i < j => l[i] # l[j] /\ Zone[l[i]] <= Zone[l[j]]}

Rotations == {<<>>} \union AnyRotation

TypeOK ==
  /\ status \in [Names -> Statuses]
  /\ live \in [Names -> Configs \union {NoConfig}]
  /\ wanted \in [Names -> Configs \union {NoConfig}]
  /\ roles \subseteq Names
  /\ others \in 0..MaxOthers
  /\ commands \in 0..MaxCommands
  /\ bucket \in Editions \union {"none"}
  /\ phase \in Phases
  /\ count \in 1..MaxClass
  /\ subnets \in Rotations
  /\ todo \subseteq Names
  /\ pending \subseteq Numbers
  /\ failures \subseteq Names
  /\ names \subseteq Names
  /\ outcome \in Outcomes
  /\ phase \in {"start", "delete", "gone"} \/ todo = {}
  /\ phase \in {"start", "wait"} \/ pending = {}
  /\ phase \in {"stage", "start", "wait"} => subnets \in AnyRotation
  /\ phase \in {"start", "wait"} => bucket \in Editions
  /\ consent \in BOOLEAN
  /\ fits \in BOOLEAN

Init ==
  /\ status = [n \in Names |-> "none"]
  /\ live = [n \in Names |-> NoConfig]
  /\ wanted = [n \in Names |-> NoConfig]
  /\ roles = {}
  /\ others = 0
  /\ commands = 0
  /\ bucket = "none"
  /\ phase = "idle" /\ count = 1 /\ subnets = <<>>
  /\ todo = {} /\ pending = {} /\ failures = {} /\ names = {}
  /\ outcome = "none"
  /\ consent = FALSE /\ fits = FALSE

(***************************************************************************)
(* Commands: how each begins, goes on and ends.                            *)
(***************************************************************************)
\* expand: a count of 1 keeps the plain name.
Class == IF count = 1 THEN {0} ELSE 1..count

\* Students take the subnets in turn.
SubnetOf(n) == IF n = 0 THEN subnets[1] ELSE subnets[((n - 1) % Len(subnets)) + 1]

Exits(how) ==
  /\ phase' = "idle"
  /\ outcome' = how
  /\ todo' = {} /\ pending' = {}

\* The command is interrupted, or raises an AWS error that only main catches.
Stop ==
  /\ phase # "idle"
  /\ Exits("stopped")
  /\ UNCHANGED <<commands, stacks, others, bucket, count, subnets, failures, names, history>>

Begins(c, found) ==
  /\ phase = "idle"
  /\ commands < MaxCommands
  /\ commands' = commands + 1
  /\ count' = c
  /\ names' = found
  /\ failures' = {} /\ subnets' = <<>>
  /\ consent' = FALSE /\ fits' = FALSE
  /\ UNCHANGED <<stacks, others, bucket, todo, pending>>

(***************************************************************************)
(* deploy                                                                  *)
(***************************************************************************)
BeginDeploy(c) ==
  /\ Begins(c, {})
  /\ phase' = "roles"
  /\ outcome' = "none"

UsedRoles == others + ROLES_PER_STACK * Cardinality(roles)

\* Stacks whose roles are still to be made.
Making == {n \in Names : status[n] = "CREATE_IN_PROGRESS" /\ n \notin roles}

HasHeadroomForOne == UsedRoles + ROLES_PER_STACK <= RolesQuota
HasHeadroom == UsedRoles + count * ROLES_PER_STACK <= RolesQuota

\* check_role_headroom; a quota that cannot be read does not stop the class.
CheckRoleHeadroom ==
  /\ phase = "roles"
  /\ \E readable \in BOOLEAN :
       IF count > 1 /\ readable /\ ~HasHeadroom
       THEN Exits("refused") /\ UNCHANGED fits
       ELSE /\ phase' = "network"
            /\ fits' = (count > 1 /\ readable /\ Making \subseteq Class)
            /\ UNCHANGED <<todo, pending, outcome>>
  /\ UNCHANGED <<commands, stacks, others, bucket, count, subnets, failures, names, consent>>

\* resolve_parameters
ResolveParameters ==
  /\ phase = "network"
  /\ subnets' \in DefaultRotation
  /\ phase' = "stage"
  /\ UNCHANGED <<commands, stacks, others, bucket, count, todo, pending, failures, names,
                 outcome, history>>

\* No default VPC, public subnet or prefix list, half a network in .env, or a
\* bucket that is not ours.
Refused ==
  /\ phase \in {"network", "stage"}
  /\ Exits("refused")
  /\ UNCHANGED <<commands, stacks, others, bucket, count, subnets, failures, names, history>>

\* ensure_bucket, stage_template: one upload for the whole class.
StageTemplate ==
  /\ phase = "stage"
  /\ bucket' \in Editions
  /\ phase' = "start"
  /\ todo' = Class
  /\ UNCHANGED <<commands, stacks, others, count, subnets, pending, failures, names,
                 outcome, history>>

Request(n) == <<bucket, SubnetOf(n)>>

\* start_stack leaves n in failures, or pending, or neither.
Starts(n, failed, started) ==
  /\ todo' = todo \ {n}
  /\ failures' = failures \union failed
  /\ pending' = pending \union started
  /\ UNCHANGED <<commands, others, bucket, phase, count, subnets, names, outcome, history>>

Starting(n) == phase = "start" /\ n \in todo /\ \A m \in todo : n <= m

CreateStack(n) ==
  /\ Starting(n)
  /\ status[n] = "none"
  /\ status' = [status EXCEPT ![n] = "CREATE_IN_PROGRESS"]
  /\ wanted' = [wanted EXCEPT ![n] = Request(n)]
  /\ Starts(n, {}, {n})
  /\ UNCHANGED <<live, roles>>

Updatable(n) == status[n] \in COMPLETE \union {"UPDATE_ROLLBACK_COMPLETE"}

UpdateStackUnwaited(n) ==
  /\ Starting(n)
  /\ Updatable(n) /\ Request(n) # live[n]
  /\ status' = [status EXCEPT ![n] = "UPDATE_IN_PROGRESS"]
  /\ wanted' = [wanted EXCEPT ![n] = Request(n)]
  /\ Starts(n, {}, {})
  /\ UNCHANGED <<live, roles>>

UpdateStack(n) ==
  /\ Starting(n)
  /\ Updatable(n) /\ Request(n) # live[n]
  /\ status' = [status EXCEPT ![n] = "UPDATE_IN_PROGRESS"]
  /\ wanted' = [wanted EXCEPT ![n] = Request(n)]
  /\ Starts(n, {}, {n})
  /\ UNCHANGED <<live, roles>>

\* No updates are to be performed.
NothingToUpdate(n) ==
  /\ Starting(n)
  /\ Updatable(n) /\ Request(n) = live[n]
  /\ Starts(n, {}, {})
  /\ UNCHANGED stacks

\* The stack cannot be updated as it is, or CloudFormation refuses the call.
StartFails(n) ==
  /\ Starting(n)
  /\ Starts(n, {n}, {})
  /\ UNCHANGED stacks

EndStartsOnFailure ==
  /\ phase = "start" /\ (todo = {} \/ failures # {})
  /\ phase' = "wait"
  /\ UNCHANGED <<commands, stacks, others, bucket, count, subnets, todo, pending, failures,
                 names, outcome, history>>

EndStarts ==
  /\ phase = "start" /\ todo = {}
  /\ phase' = "wait"
  /\ UNCHANGED <<commands, stacks, others, bucket, count, subnets, todo, pending, failures,
                 names, outcome, history>>

\* wait_for_stack, and its DeployError recorded by the loop that called it.
Waited(n, failed) ==
  /\ pending' = pending \ {n}
  /\ failures' = failures \union failed
  /\ UNCHANGED <<commands, stacks, others, bucket, phase, count, subnets, todo, names,
                 outcome, history>>

Waiting(n) == phase = "wait" /\ n \in pending /\ \A m \in pending : n <= m

WaitSucceeds(n) ==
  /\ Waiting(n)
  /\ status[n] \in COMPLETE
  /\ Waited(n, {})

\* A failure state, an error of the waiter's own reads, or its last attempt.
WaitFails(n) ==
  /\ Waiting(n)
  /\ Waited(n, {n})

\* The outputs or the roster are read and written, and the exit code says
\* whether there were failures.
Report ==
  /\ phase = "wait" /\ pending = {}
  /\ Exits(IF failures = {} THEN "deployed" ELSE "partly")
  /\ UNCHANGED <<commands, stacks, others, bucket, count, subnets, failures, names, history>>

(***************************************************************************)
(* status and delete                                                       *)
(***************************************************************************)
FindStacksOfClass == {n \in Class : status[n] # "none"}

\* find_stacks: the plain name or any with the prefix, whoever made it.
FindStacks == {n \in Names : status[n] # "none"}

\* show_status only reads; without a stack it is an error.
ShowStatus ==
  /\ phase = "idle"
  /\ outcome' = IF FindStacks = {} THEN "refused" ELSE "shown"
  /\ UNCHANGED <<commands, stacks, others, bucket, phase, count, subnets, todo, pending,
                 failures, names, history>>

\* delete takes no --count.
BeginDelete ==
  /\ Begins(1, FindStacks)
  /\ phase' = IF FindStacks = {} THEN "idle" ELSE "confirm"
  /\ outcome' = IF FindStacks = {} THEN "deleted" ELSE "none"

MayDeleteUnlessNo(answer) == answer # "no"

\* A single stack, --yes, or an answer that is yes.
MayDelete(answer) == Cardinality(names) = 1 \/ answer = "yes"

\* Any other answer keeps the stacks, and so does a closed standard input.
Confirm ==
  /\ phase = "confirm"
  /\ \E answer \in {"yes", "no", "none"} :
       IF MayDelete(answer)
       THEN /\ phase' = "delete" /\ todo' = names
            /\ consent' = (Cardinality(names) > 1 => answer = "yes")
            /\ UNCHANGED <<pending, outcome>>
       ELSE /\ Exits(IF answer = "no" THEN "kept" ELSE "refused")
            /\ UNCHANGED consent
  /\ UNCHANGED <<commands, stacks, others, bucket, count, subnets, failures, names, fits>>

\* Deleting a name that is gone succeeds.
DeleteStack(n) ==
  /\ phase = "delete" /\ n \in todo
  /\ todo' = todo \ {n}
  /\ status' = [status EXCEPT ![n] = IF @ = "none" THEN "none" ELSE "DELETE_IN_PROGRESS"]
  /\ live' = [live EXCEPT ![n] = NoConfig]
  /\ wanted' = [wanted EXCEPT ![n] = NoConfig]
  /\ UNCHANGED <<commands, roles, others, bucket, phase, count, subnets, pending, failures,
                 names, outcome, history>>

DeleteRefused(n) ==
  /\ phase = "delete" /\ n \in todo
  /\ todo' = todo \ {n}
  /\ failures' = failures \union {n}
  /\ UNCHANGED <<commands, stacks, others, bucket, phase, count, subnets, pending, names,
                 outcome, history>>

EndDeletes ==
  /\ phase = "delete" /\ todo = {}
  /\ phase' = "gone"
  /\ todo' = names \ failures
  /\ UNCHANGED <<commands, stacks, others, bucket, count, subnets, pending, failures,
                 names, outcome, history>>

WaitGone(n) ==
  /\ phase = "gone" /\ n \in todo
  /\ status[n] = "none"
  /\ todo' = todo \ {n}
  /\ UNCHANGED <<commands, stacks, others, bucket, phase, count, subnets, pending, failures,
                 names, outcome, history>>

WaitGoneFails(n) ==
  /\ phase = "gone" /\ n \in todo
  /\ todo' = todo \ {n}
  /\ failures' = failures \union {n}
  /\ UNCHANGED <<commands, stacks, others, bucket, phase, count, subnets, pending, names,
                 outcome, history>>

EndDelete ==
  /\ phase = "gone" /\ todo = {}
  /\ Exits(IF failures = {} THEN "deleted" ELSE "undeleted")
  /\ UNCHANGED <<commands, stacks, others, bucket, count, subnets, failures, names, history>>

(***************************************************************************)
(* CloudFormation, and the rest of the account.                            *)
(***************************************************************************)
Becomes(n, state) ==
  /\ status' = [status EXCEPT ![n] = state]
  /\ UNCHANGED <<others, bucket, command, history>>

HasRoom == UsedRoles + ROLES_PER_STACK <= RolesQuota

MakeRoles(n) ==
  /\ n \in Making
  /\ HasRoom
  /\ roles' = roles \union {n}
  /\ UNCHANGED <<status, live, wanted, others, bucket, command, history>>

CreateCompletes(n) ==
  /\ status[n] = "CREATE_IN_PROGRESS" /\ n \in roles
  /\ Becomes(n, "CREATE_COMPLETE")
  /\ live' = [live EXCEPT ![n] = wanted[n]]
  /\ UNCHANGED <<wanted, roles>>

\* For want of roles, or for any other reason.
CreateFails(n) ==
  /\ status[n] = "CREATE_IN_PROGRESS"
  /\ Becomes(n, "CREATE_FAILED")
  /\ wanted' = [wanted EXCEPT ![n] = NoConfig]
  /\ UNCHANGED <<live, roles>>

UpdateCompletes(n) ==
  /\ status[n] = "UPDATE_IN_PROGRESS"
  /\ Becomes(n, "UPDATE_COMPLETE")
  /\ live' = [live EXCEPT ![n] = wanted[n]]
  /\ UNCHANGED <<wanted, roles>>

UpdateFails(n) ==
  /\ status[n] = "UPDATE_IN_PROGRESS"
  /\ \E state \in {"UPDATE_ROLLBACK_COMPLETE", "UPDATE_ROLLBACK_FAILED"} :
       Becomes(n, state)
  /\ wanted' = [wanted EXCEPT ![n] = live[n]]
  /\ UNCHANGED <<live, roles>>

DeleteCompletes(n) ==
  /\ status[n] = "DELETE_IN_PROGRESS"
  /\ Becomes(n, "none")
  /\ roles' = roles \ {n}
  /\ UNCHANGED <<live, wanted>>

DeleteFails(n) ==
  /\ status[n] = "DELETE_IN_PROGRESS"
  /\ Becomes(n, "DELETE_FAILED")
  /\ UNCHANGED <<live, wanted, roles>>

OthersTakeRole ==
  /\ others < MaxOthers
  /\ others' = others + 1
  /\ fits' = FALSE
  /\ UNCHANGED <<stacks, bucket, command, consent>>

\* Somebody makes a stack that shares the prefix.
Bystander(b) ==
  /\ status[b] = "none"
  /\ Becomes(b, "CREATE_COMPLETE")
  /\ UNCHANGED <<live, wanted, roles>>

CommandStep ==
  \/ CheckRoleHeadroom \/ ResolveParameters \/ Refused \/ StageTemplate
  \/ EndStarts \/ Report \/ Confirm \/ EndDeletes \/ EndDelete
  \/ \E n \in Numbers :
       \/ CreateStack(n) \/ UpdateStack(n) \/ NothingToUpdate(n) \/ StartFails(n)
       \/ WaitSucceeds(n) \/ WaitFails(n)
  \/ \E n \in Names :
       \/ DeleteStack(n) \/ DeleteRefused(n) \/ WaitGone(n) \/ WaitGoneFails(n)

CloudFormation ==
  \E n \in Names :
    \/ MakeRoles(n) \/ CreateCompletes(n) \/ CreateFails(n) \/ UpdateCompletes(n)
    \/ UpdateFails(n) \/ DeleteCompletes(n) \/ DeleteFails(n)

Next ==
  \/ \E c \in 1..MaxClass : BeginDeploy(c)
  \/ ShowStatus \/ BeginDelete \/ CommandStep \/ Stop
  \/ CloudFormation
  \/ OthersTakeRole
  \/ \E b \in Bystanders : Bystander(b)

Spec == Init /\ [][Next]_vars

(***************************************************************************)
(* Properties.                                                             *)
(***************************************************************************)
\* Whatever became of earlier commands and of its classmates' stacks, a student
\* whom a finished deploy does not report as failed has a settled stack that runs
\* the template and the subnet of this deploy.
ReportTrue ==
  outcome \in {"deployed", "partly"} =>
    \A n \in Class \ failures : Updatable(n) /\ live[n] = Request(n)

\* A class the role check let pass, with a quota it could read and nothing else
\* being created, never wants for roles, unless other people took more since.
HeadroomHolds ==
  fits => \A n \in Making : HasRoom

\* Deploying a class again never moves a student's instance to another subnet,
\* which would replace it.
SeatKept ==
  [][\A n \in Numbers :
       status'[n] = "UPDATE_IN_PROGRESS" => wanted'[n][2] = live[n][2]]_vars

\* A delete that reports success left no stack of any class behind, also none of
\* a larger class or of a deploy that was stopped.
DeleteClears ==
  outcome = "deleted" => \A n \in Numbers : status[n] = "none"

\* Only stacks that were listed are deleted, and more than one only after a yes.
DeleteAsked ==
  [][\A n \in Names :
       status'[n] = "DELETE_IN_PROGRESS" /\ status[n] # "DELETE_IN_PROGRESS" =>
         n \in names /\ consent]_vars
================================================================================
