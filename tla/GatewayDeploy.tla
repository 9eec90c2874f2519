----------------------------- MODULE GatewayDeploy -----------------------------
(***************************************************************************)
(* notebooks/04-production-agent/4.1_agentcore_gateway.ipynb: the Neo4j    *)
(* secret, the Lambdas that read it, the AgentCore Gateway and its         *)
(* targets, as a participant runs the notebook again and again, with a     *)
(* stop at any step, and the warm Lambda containers of                     *)
(* workshop/hybrid_retrieval.py, which keep the connection they first      *)
(* read.                                                                   *)
(*                                                                         *)
(* External are AWS, which settles what it accepted some time later, and   *)
(* people, who rotate the password, clean up in part, and call the tools   *)
(* at any moment.                                                          *)
(***************************************************************************)
EXTENDS Naturals, StructuredRead

CONSTANTS
  Tools,        \* how many tools, in the order of the notebook's loops
  MaxNames,     \* candidate secret names, of the ten in the notebook
  LastPassword, \* bound on rotations
  MaxFaults     \* bound on stops, failed updates, cleanups and rotations

Functions == 1..Tools
Passwords == 1..LastPassword
SecretNames == 1..MaxNames
NoSecret == 0

ASSUME GatewayAssumption ==
  /\ Tools \in Nat \ {0}
  /\ MaxNames \in Nat \ {0}
  /\ LastPassword \in Nat \ {0}
  /\ MaxFaults \in Nat

VARIABLES
  secret,      \* of each name: absent, live, or in its recovery window
  content,     \* the password it carries
  mayRestore,  \* the lab role has RestoreSecret
  password,    \* of the database, and in .env
  policy,      \* the secret that the execution role may read
  function,    \* the state of each Lambda, with the update under way
  live,        \* the secret its containers are given
  wanted,      \* the secret of its last accepted configuration
  warm,        \* the passwords that its warm containers connected with
  gateway,     \* its state
  target,      \* the state of each tool's target
  step,        \* where the notebook is
  candidate,   \* the secret name it tries, then SECRET_NAME
  at,          \* the tool that its loop has come to
  faults,      \* how many so far
  clean,       \* history: nothing was changed under this run
  serving      \* history: this run began over tools that served

secrets == <<secret, content, mayRestore, password>>
lambdas == <<function, live, wanted, warm>>
gateways == <<gateway, target>>
notebook == <<step, candidate, at>>
history == <<faults, clean, serving>>
deployment == <<secrets, policy, lambdas, gateways, notebook, history>>
vars == <<deployment, readVars>>

Steps == {"idle", "secret", "put", "role", "deploy", "updated", "active", "check",
          "test", "guard", "gateway", "wait", "targets", "ready", "mcp", "done"}

\* A Lambda is busy while it is being created or updated.
Busy == {"pending", "code", "config"}
Resources == {"absent", "creating", "READY", "FAILED"}

TypeOK ==
  /\ secret \in [SecretNames -> {"absent", "live", "doomed"}]
  /\ content \in [SecretNames -> Passwords]
  /\ mayRestore \in BOOLEAN
  /\ password \in Passwords
  /\ policy \in SecretNames \union {NoSecret}
  /\ function \in [Functions -> Busy \union {"absent", "ready", "failed"}]
  /\ live \in [Functions -> SecretNames \union {NoSecret}]
  /\ wanted \in [Functions -> SecretNames \union {NoSecret}]
  /\ warm \in [Functions -> SUBSET Passwords]
  /\ gateway \in Resources
  /\ target \in [Functions -> Resources]
  /\ step \in Steps
  /\ candidate \in SecretNames
  /\ at \in Functions
  /\ faults \in 0..MaxFaults
  /\ clean \in BOOLEAN
  /\ serving \in BOOLEAN
  /\ ReadTypeOK
  /\ \A f \in Functions : function[f] \in {"absent", "pending"} => warm[f] = {}

Init ==
  /\ secret = [n \in SecretNames |-> "absent"]
  /\ password = 1
  /\ content = [n \in SecretNames |-> 1]
  /\ mayRestore \in BOOLEAN
  /\ policy = NoSecret
  /\ function = [f \in Functions |-> "absent"]
  /\ live = [f \in Functions |-> NoSecret]
  /\ wanted = [f \in Functions |-> NoSecret]
  /\ warm = [f \in Functions |-> {}]
  /\ gateway = "absent"
  /\ target = [f \in Functions |-> "absent"]
  /\ step = "idle" /\ candidate = 1 /\ at = 1
  /\ faults = 0 /\ clean = FALSE /\ serving = FALSE
  /\ ReadInit

\* The password a container of f with a cold cache can connect with now.
Reads(f) == policy = live[f] /\ policy # NoSecret /\ secret[policy] = "live"
Serves(f) == Reads(f) /\ content[policy] = password

(***************************************************************************)
(* The notebook.                                                           *)
(***************************************************************************)
AllServe == \A f \in Functions : function[f] = "ready" /\ Serves(f)

\* The names before the one in use cannot be had.
NoBetterName == \A n \in SecretNames : n < policy => secret[n] = "doomed" /\ ~mayRestore

BeginWithNextName ==
  /\ step \in {"idle", "done"}
  /\ step' = "secret" /\ at' = 1
  /\ candidate' = IF candidate < MaxNames THEN candidate + 1 ELSE 1
  /\ clean' = TRUE
  /\ serving' = (AllServe /\ NoBetterName)
  /\ UNCHANGED <<readVars, secrets, policy, lambdas, gateways, faults>>

Begin ==
  /\ step \in {"idle", "done"}
  /\ step' = "secret" /\ candidate' = 1 /\ at' = 1
  /\ clean' = TRUE
  /\ serving' = (AllServe /\ NoBetterName)
  /\ UNCHANGED <<readVars, secrets, policy, lambdas, gateways, faults>>

Goes(next) == step' = next /\ at' = 1 /\ UNCHANGED <<candidate, history>>

LoopsPast(again, next) ==
  /\ step' = IF at <= Tools THEN again ELSE next
  /\ at' = IF at <= Tools THEN at + 1 ELSE 1
  /\ UNCHANGED <<candidate, history>>

\* The loop over the tools goes on, or the notebook does.
Loops(again, next) ==
  /\ step' = IF at < Tools THEN again ELSE next
  /\ at' = IF at < Tools THEN at + 1 ELSE 1
  /\ UNCHANGED <<candidate, history>>

Within(next) == step' = next /\ UNCHANGED <<candidate, at, history>>

\* An assertion fails, or an error is raised that no cell catches.
Raises == Goes("idle")

\* upsert_secret of one candidate after the other
UpsertSecret ==
  /\ step = "secret"
  /\ secret[candidate] \in {"absent", "live"}
  /\ secret' = [secret EXCEPT ![candidate] = "live"]
  /\ content' = [content EXCEPT ![candidate] = password]
  /\ Goes("role")
  /\ UNCHANGED <<readVars, mayRestore, password, policy, lambdas, gateways>>

RestoreSecret ==
  /\ step = "secret"
  /\ secret[candidate] = "doomed" /\ mayRestore
  /\ secret' = [secret EXCEPT ![candidate] = "live"]
  /\ Goes("put")
  /\ UNCHANGED <<readVars, content, mayRestore, password, policy, lambdas, gateways>>

PutRestored ==
  /\ step = "put"
  /\ content' = [content EXCEPT ![candidate] = password]
  /\ Goes("role")
  /\ UNCHANGED <<readVars, secret, mayRestore, password, policy, lambdas, gateways>>

NextCandidate ==
  /\ step = "secret"
  /\ secret[candidate] = "doomed" /\ ~mayRestore
  /\ candidate < MaxNames
  /\ candidate' = candidate + 1
  /\ UNCHANGED <<readVars, secrets, policy, lambdas, gateways, step, at, history>>

NoCandidateLeft ==
  /\ step = "secret"
  /\ secret[candidate] = "doomed" /\ ~mayRestore
  /\ candidate = MaxNames
  /\ Raises
  /\ UNCHANGED <<readVars, secrets, policy, lambdas, gateways>>

GrantedOnCreation == IF policy = NoSecret THEN candidate ELSE policy

\* The one secret of the role's policy, also of a role that is reused.
Granted == candidate

EnsureExecutionRole ==
  /\ step = "role"
  /\ policy' = Granted
  /\ Goes("deploy")
  /\ UNCHANGED <<readVars, secrets, lambdas, gateways>>

\* deploy_function
CreateFunction ==
  /\ step = "deploy"
  /\ function[at] = "absent"
  /\ function' = [function EXCEPT ![at] = "pending"]
  /\ wanted' = [wanted EXCEPT ![at] = candidate]
  /\ Within("active")
  /\ UNCHANGED <<readVars, secrets, policy, live, warm, gateways>>

UpdateCode ==
  /\ step = "deploy"
  /\ function[at] \in {"ready", "failed"}
  /\ function' = [function EXCEPT ![at] = "code"]
  /\ Within("updated")
  /\ UNCHANGED <<readVars, secrets, policy, live, wanted, warm, gateways>>

\* What an earlier run left under way refuses the update, inside the handler.
UpdateConflicts ==
  /\ step = "deploy"
  /\ function[at] \in Busy
  /\ Raises
  /\ UNCHANGED <<readVars, secrets, policy, lambdas, gateways>>

UpdateConfiguration ==
  /\ step = "updated"
  /\ function[at] = "ready"
  /\ function' = [function EXCEPT ![at] = "config"]
  /\ wanted' = [wanted EXCEPT ![at] = candidate]
  /\ Within("active")
  /\ UNCHANGED <<readVars, secrets, policy, live, warm, gateways>>

CodeUpdateFailed ==
  /\ step = "updated"
  /\ function[at] = "failed"
  /\ Raises
  /\ UNCHANGED <<readVars, secrets, policy, lambdas, gateways>>

\* The last waiter asks for an active function, not for the end of its update.
FunctionActive ==
  /\ step = "active"
  /\ function[at] # "pending"
  /\ Loops("deploy", "check")
  /\ UNCHANGED <<readVars, secrets, policy, lambdas, gateways>>

\* The deployed configuration is the last accepted one.
CheckConfiguration ==
  /\ step = "check"
  /\ IF \A f \in Functions : wanted[f] = candidate THEN Goes("test") ELSE Raises
  /\ UNCHANGED <<readVars, secrets, policy, lambdas, gateways>>

\* A call answers from a container that has connected before, or from a cold one
\* that can.  handler, _get_retriever, _get_graph_query_retriever.
Answers(f) == live[f] # NoSecret /\ (password \in warm[f] \/ Serves(f))

\* A cold container keeps what it connected with.
Warms(f) ==
  warm' = [warm EXCEPT ![f] = @ \union IF Serves(f) THEN {password} ELSE {}]

\* search_hotel_knowledge, in a cold container or a warm one.
SearchHotelKnowledge(f) ==
  /\ Answers(f)
  /\ Warms(f) \/ UNCHANGED warm

\* The direct invocations, and those over MCP; the last tool reads structured.
InvokePassages(from, again, next) ==
  /\ step = from /\ at < Tools
  /\ SearchHotelKnowledge(at)
  /\ Loops(again, next)
  /\ UNCHANGED <<readVars, secrets, policy, function, live, wanted, gateways>>

InvokeRecords ==
  /\ step \in {"test", "mcp"} /\ at = Tools
  /\ Answers(at)
  /\ Warms(at) \/ UNCHANGED warm
  /\ BeginRead
  /\ UNCHANGED <<secrets, policy, function, live, wanted, gateways, notebook, history>>

RecordsReturn(from, again, next) ==
  /\ step = from
  /\ ReadReturns
  /\ Loops(again, next)
  /\ UNCHANGED <<secrets, policy, lambdas, gateways>>

\* query_failed is not the answer that the notebook expects.
RecordsTimeOut ==
  /\ TimesOut
  /\ Raises
  /\ UNCHANGED <<secrets, policy, lambdas, gateways>>

TestFunction ==
  InvokePassages("test", "test", "guard") \/ RecordsReturn("test", "test", "guard")
CallThroughGateway ==
  InvokePassages("mcp", "mcp", "done") \/ RecordsReturn("mcp", "mcp", "done")

\* A call meets a container that cannot connect.
CallFails ==
  /\ step \in {"test", "mcp"} /\ caller = "none"
  /\ \/ ~Serves(at)
     \/ warm[at] \ {password} # {}
  /\ Raises
  /\ UNCHANGED <<readVars, secrets, policy, lambdas, gateways>>

\* The read-only guard, tried from the notebook itself, refuses a generated write.
ConfirmReadOnly ==
  /\ step = "guard"
  /\ Goes("gateway")
  /\ UNCHANGED <<readVars, secrets, policy, lambdas, gateways>>

CreateGateway ==
  /\ step = "gateway"
  /\ gateway' = IF gateway = "absent" THEN "creating" ELSE gateway
  /\ Goes("wait")
  /\ UNCHANGED <<readVars, secrets, policy, lambdas, target>>

WaitForGateway ==
  /\ step = "wait"
  /\ gateway # "creating"
  /\ IF gateway = "READY" THEN Goes("targets") ELSE Raises
  /\ UNCHANGED <<readVars, secrets, policy, lambdas, gateways>>

\* An existing target is skipped without update.
CreateTarget ==
  /\ step = "targets"
  /\ target' = [target EXCEPT ![at] = IF @ = "absent" THEN "creating" ELSE @]
  /\ Loops("targets", "ready")
  /\ UNCHANGED <<readVars, secrets, policy, lambdas, gateway>>

WaitForTargets ==
  /\ step = "ready"
  /\ \A f \in Functions : target[f] = "READY"
  /\ Goes("mcp")
  /\ UNCHANGED <<readVars, secrets, policy, lambdas, gateways>>

TargetFailed ==
  /\ step = "ready"
  /\ \E f \in Functions : target[f] = "FAILED"
  /\ Raises
  /\ UNCHANGED <<readVars, secrets, policy, lambdas, gateways>>

(***************************************************************************)
(* AWS, and people.                                                        *)
(***************************************************************************)
Settle(f) ==
  /\ function[f] \in Busy
  /\ function' = [function EXCEPT ![f] = "ready"]
  /\ live' = [live EXCEPT ![f] = IF function[f] = "code" THEN @ ELSE wanted[f]]
  /\ warm' = [warm EXCEPT ![f] = {}]
  /\ UNCHANGED <<readVars, secrets, policy, wanted, gateways, notebook, history>>

SettleGateway ==
  /\ gateway = "creating"
  /\ gateway' = "READY"
  /\ UNCHANGED <<readVars, secrets, policy, lambdas, target, notebook, history>>

SettleTarget(f) ==
  /\ target[f] = "creating"
  /\ target' = [target EXCEPT ![f] = "READY"]
  /\ UNCHANGED <<readVars, secrets, policy, lambdas, gateway, notebook, history>>

\* The recovery window of a deleted secret ends.
Purge(n) ==
  /\ secret[n] = "doomed"
  /\ secret' = [secret EXCEPT ![n] = "absent"]
  /\ serving' = FALSE
  /\ UNCHANGED <<readVars, content, mayRestore, password, policy, lambdas, gateways, notebook,
                 faults, clean>>

\* A tool is called, by an agent or from another notebook.
UserCall(f) ==
  /\ live[f] # NoSecret
  /\ Warms(f)
  /\ UNCHANGED <<readVars, secrets, policy, function, live, wanted, gateways, notebook,
                 history>>

Fault == faults < MaxFaults /\ faults' = faults + 1

Stop ==
  /\ Fault
  /\ step \notin {"idle", "done"}
  /\ step' = "idle" /\ at' = 1
  /\ caller' = "none"
  /\ thread' = IF caller = "waiting" THEN "late" ELSE thread
  /\ UNCHANGED <<secrets, policy, lambdas, gateways, candidate, clean, serving>>

DatabaseIsSlow ==
  /\ Fault
  /\ ReadIsLate
  /\ UNCHANGED <<secrets, policy, lambdas, gateways, notebook, clean, serving>>

UpdateFails(f) ==
  /\ Fault
  /\ function[f] \in {"code", "config"}
  /\ function' = [function EXCEPT ![f] = "failed"]
  /\ UNCHANGED <<readVars, secrets, policy, live, wanted, warm, gateways, notebook, clean, serving>>

GatewayFails ==
  /\ Fault
  /\ \/ gateway = "creating" /\ gateway' = "FAILED" /\ UNCHANGED target
     \/ \E f \in Functions :
          /\ target[f] = "creating"
          /\ target' = [target EXCEPT ![f] = "FAILED"]
          /\ UNCHANGED gateway
  /\ UNCHANGED <<readVars, secrets, policy, lambdas, notebook, clean, serving>>

\* The password is changed in the database and in .env.
Rotate ==
  /\ Fault
  /\ password < LastPassword
  /\ password' = password + 1
  /\ clean' = FALSE /\ serving' = FALSE
  /\ UNCHANGED <<readVars, secret, content, mayRestore, policy, lambdas, gateways, notebook>>

\* Cleanup by hand, of a part; the targets go before their gateway.
Removes ==
  /\ Fault
  /\ step \in {"idle", "done"}
  /\ clean' = FALSE /\ serving' = FALSE
  /\ UNCHANGED <<content, mayRestore, password, policy, notebook>>

RemoveSecret ==
  /\ Removes
  /\ \E n \in SecretNames :
       /\ secret[n] = "live"
       /\ secret' = [secret EXCEPT ![n] = "doomed"]
  /\ UNCHANGED <<readVars, lambdas, gateways>>

RemoveFunctions ==
  /\ Removes
  /\ function' = [f \in Functions |-> "absent"]
  /\ live' = [f \in Functions |-> NoSecret]
  /\ wanted' = [f \in Functions |-> NoSecret]
  /\ warm' = [f \in Functions |-> {}]
  /\ UNCHANGED <<readVars, secret, gateways>>

RemoveGateway ==
  /\ step \in {"idle", "done"}
  /\ gateway = "FAILED" \/ \E f \in Functions : target[f] = "FAILED"
  /\ gateway' = "absent"
  /\ target' = [f \in Functions |-> "absent"]
  /\ clean' = FALSE
  /\ UNCHANGED <<readVars, secrets, policy, lambdas, notebook, faults, serving>>

NotebookStep ==
  \/ UpsertSecret \/ RestoreSecret \/ PutRestored \/ NextCandidate \/ NoCandidateLeft
  \/ EnsureExecutionRole \/ CreateFunction \/ UpdateCode \/ UpdateConflicts
  \/ UpdateConfiguration \/ CodeUpdateFailed \/ FunctionActive \/ CheckConfiguration
  \/ TestFunction \/ ConfirmReadOnly \/ CallThroughGateway \/ InvokeRecords
  \/ RecordsTimeOut \/ CallFails
  \/ CreateGateway \/ WaitForGateway \/ CreateTarget \/ WaitForTargets \/ TargetFailed

GatewaySettles == SettleGateway \/ \E f \in Functions : SettleTarget(f)

Purges == \E n \in SecretNames : Purge(n)

Faults ==
  \/ Stop \/ DatabaseIsSlow \/ GatewayFails \/ Rotate \/ RemoveSecret \/ RemoveFunctions
  \/ \E f \in Functions : UpdateFails(f)

Next ==
  \/ Begin \/ NotebookStep
  \/ GatewaySettles \/ Purges \/ Faults \/ RemoveGateway
  \/ \E f \in Functions : Settle(f) \/ UserCall(f)
  \/ ThreadEnds /\ UNCHANGED deployment

\* The participant runs the notebook again until it ends, and deletes a Gateway or a
\* target that failed; AWS settles what it accepted.  Nothing says that the server
\* ever answers a late read.
Fairness ==
  /\ WF_vars(Begin \/ NotebookStep)
  /\ SF_vars(RemoveGateway)
  /\ \A f \in Functions : WF_vars(Settle(f))
  /\ WF_vars(GatewaySettles)
  /\ WF_vars(Purges)

Spec == Init /\ [][Next]_vars /\ Fairness

(***************************************************************************)
(* Properties.                                                             *)
(***************************************************************************)
\* When the notebook ends, over whatever earlier runs and partial cleanups left,
\* a tool whose update has settled reads the secret that the role may read and
\* that carries the password, and no warm container keeps an older connection.
ToolsServe ==
  step = "done" /\ clean =>
    \A f \in Functions :
      function[f] = "ready" =>
        Serves(f) /\ warm[f] \subseteq {password}

\* Running the notebook again over tools that serve never takes them away for a
\* moment, unless a secret name that it prefers to theirs has come free again.
RerunKeepsServing ==
  serving => \A f \in Functions : Serves(f)

\* From whatever stops, failed updates, cleanups and rotations left, running the
\* notebook again comes to its end.
RerunFinishes == []<>(step = "done")
================================================================================
