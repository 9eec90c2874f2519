--------------------------- MODULE GatewayDeployProofs ---------------------------
(***************************************************************************)
(* Proofs about the gateway notebook for any number of tools, secret names *)
(* and rotations, and any number of stops, failed updates and cleanups.    *)
(***************************************************************************)
EXTENDS GatewayDeploy, TLAPS

(***************************************************************************)
(* The parts of the inductive invariant.                                   *)
(***************************************************************************)
\* A function that has not been active yet has no configuration in force.
NotBorn == \A f \in Functions : function[f] \in {"absent", "pending"} => live[f] = NoSecret

BeforeRole == {"idle", "secret", "put", "role"}
Deploying == {"deploy", "updated", "active"}

\* A run whose secret is written has it, as long as nobody changes it by hand, and
\* from Step 3 on the role may read it.
SecretHeld ==
  clean =>
    /\ step \in Steps \ {"idle", "secret", "put"} =>
         secret[candidate] = "live" /\ content[candidate] = password
    /\ step = "put" => secret[candidate] = "live"
    /\ step \in Steps \ BeforeRole => policy = candidate

\* The functions that the run has updated.
Updated(f) ==
  \/ step \in Steps \ (BeforeRole \union Deploying)
  \/ step \in Deploying /\ f < at
  \/ step = "active" /\ f = at

\* Whatever becomes of their updates, they will run with its secret, and their
\* containers are of its time.
Configured ==
  clean =>
    \A f \in Functions :
      Updated(f) =>
        /\ wanted[f] = candidate
        /\ function[f] \notin {"absent", "code"}
        /\ function[f] = "ready" => live[f] = candidate /\ warm[f] \subseteq {password}

\* A run over tools that serve passes the names that it cannot have and comes to
\* the one in use.
InUse ==
  /\ policy \in SecretNames /\ secret[policy] = "live" /\ content[policy] = password
  /\ \A f \in Functions :
       /\ live[f] = policy
       /\ function[f] \in {"pending", "config"} => wanted[f] = policy
       /\ function[f] # "absent"
  /\ step # "put"
  /\ step = "secret" => candidate <= policy /\ NoBetterName
  /\ step \in Steps \ {"idle", "secret", "put"} /\ step # "done" => candidate = policy

Kept == serving => InUse

IInv == TypeOK /\ NotBorn /\ SecretHeld /\ Configured /\ Kept

LEMMA InvInit == Init => IInv
  <1> SUFFICES ASSUME Init PROVE IInv
    OBVIOUS
  <1>1. /\ secret \in [SecretNames -> {"absent", "live", "doomed"}]
        /\ content \in [SecretNames -> Passwords] /\ password \in Passwords
    BY GatewayAssumption DEF Init, SecretNames, Passwords
  <1>2. at \in Functions /\ candidate \in SecretNames /\ faults \in 0..MaxFaults
    BY GatewayAssumption DEF Init, Functions, SecretNames
  <1>3. /\ function \in [Functions -> Busy \union {"absent", "ready", "failed"}]
        /\ live \in [Functions -> SecretNames \union {NoSecret}]
        /\ wanted \in [Functions -> SecretNames \union {NoSecret}]
        /\ warm \in [Functions -> SUBSET Passwords]
        /\ \A f \in Functions : warm[f] = {} /\ live[f] = NoSecret
    BY DEF Init
  <1>4. gateway \in Resources /\ target \in [Functions -> Resources] /\ step \in Steps
    BY DEF Init, Resources, Steps
  <1>5. ReadTypeOK
    BY DEF Init, ReadInit, ReadTypeOK
  <1>6. /\ mayRestore \in BOOLEAN /\ policy \in SecretNames \union {NoSecret}
        /\ clean = FALSE /\ serving = FALSE
    BY DEF Init
  <1>7. TypeOK
    BY <1>1, <1>2, <1>3, <1>4, <1>5, <1>6 DEF TypeOK
  <1> QED
    BY <1>3, <1>6, <1>7 DEF IInv, NotBorn, SecretHeld, Configured, Kept

(***************************************************************************)
(* Types.                                                                  *)
(***************************************************************************)
LEMMA LoopsGo ==
  ASSUME at \in Functions, NEW a, NEW b, Loops(a, b)
  PROVE  /\ step' \in {a, b} /\ at' \in Functions
         /\ UNCHANGED <<candidate, faults, clean, serving>>
  BY GatewayAssumption DEF Loops, Functions, history

LEMMA GoesOn ==
  ASSUME NEW a, Goes(a) \/ Raises
  PROVE  /\ step' \in {a, "idle"} /\ at' \in Functions
         /\ UNCHANGED <<candidate, faults, clean, serving>>
  BY GatewayAssumption DEF Goes, Raises, Functions, history

LEMMA WarmsType ==
  ASSUME TypeOK, NotBorn, NEW f \in Functions, live[f] # NoSecret,
         Warms(f) \/ UNCHANGED warm, UNCHANGED function
  PROVE  /\ warm' \in [Functions -> SUBSET Passwords]
         /\ \A g \in Functions : function'[g] \in {"absent", "pending"} => warm'[g] = {}
  BY DEF TypeOK, NotBorn, Warms

LEMMA SecretType ==
  ASSUME TypeOK, NotBorn,
         UpsertSecret \/ RestoreSecret \/ PutRestored \/ NextCandidate \/ NoCandidateLeft
           \/ EnsureExecutionRole
  PROVE  TypeOK' /\ NotBorn'
  <1>1. CASE UpsertSecret
    BY <1>1, GoesOn DEF UpsertSecret, TypeOK, NotBorn, Steps, readVars, ReadTypeOK, lambdas,
       gateways
  <1>2. CASE RestoreSecret
    BY <1>2, GoesOn DEF RestoreSecret, TypeOK, NotBorn, Steps, readVars, ReadTypeOK, lambdas,
       gateways
  <1>3. CASE PutRestored
    BY <1>3, GoesOn DEF PutRestored, TypeOK, NotBorn, Steps, readVars, ReadTypeOK, lambdas,
       gateways
  <1>4. CASE NextCandidate
    <2>1. candidate' \in SecretNames
      BY <1>4, GatewayAssumption DEF NextCandidate, TypeOK, SecretNames
    <2> QED
      BY <1>4, <2>1 DEF NextCandidate, TypeOK, NotBorn, readVars, ReadTypeOK, secrets, lambdas,
         gateways, history
  <1>5. CASE NoCandidateLeft
    BY <1>5, GoesOn DEF NoCandidateLeft, TypeOK, NotBorn, Steps, readVars, ReadTypeOK, secrets,
       lambdas, gateways
  <1>6. CASE EnsureExecutionRole
    BY <1>6, GoesOn DEF EnsureExecutionRole, Granted, TypeOK, NotBorn, Steps, readVars,
       ReadTypeOK, secrets, lambdas, gateways
  <1> QED BY <1>1, <1>2, <1>3, <1>4, <1>5, <1>6

LEMMA DeployType ==
  ASSUME TypeOK, NotBorn,
         CreateFunction \/ UpdateCode \/ UpdateConflicts \/ UpdateConfiguration
           \/ CodeUpdateFailed \/ FunctionActive \/ CheckConfiguration
  PROVE  TypeOK' /\ NotBorn'
  <1>1. CASE CreateFunction
    BY <1>1 DEF CreateFunction, Within, TypeOK, NotBorn, Steps, Busy, readVars, ReadTypeOK,
       secrets, gateways, history
  <1>2. CASE UpdateCode
    BY <1>2 DEF UpdateCode, Within, TypeOK, NotBorn, Steps, Busy, readVars, ReadTypeOK,
       secrets, gateways, history
  <1>3. CASE UpdateConflicts
    BY <1>3, GoesOn DEF UpdateConflicts, TypeOK, NotBorn, Steps, readVars, ReadTypeOK,
       secrets, lambdas, gateways
  <1>4. CASE UpdateConfiguration
    BY <1>4 DEF UpdateConfiguration, Within, TypeOK, NotBorn, Steps, Busy, readVars,
       ReadTypeOK, secrets, gateways, history
  <1>5. CASE CodeUpdateFailed
    BY <1>5, GoesOn DEF CodeUpdateFailed, TypeOK, NotBorn, Steps, readVars, ReadTypeOK,
       secrets, lambdas, gateways
  <1>6. CASE FunctionActive
    BY <1>6, LoopsGo DEF FunctionActive, TypeOK, NotBorn, Steps, readVars, ReadTypeOK,
       secrets, lambdas, gateways
  <1>7. CASE CheckConfiguration
    BY <1>7, GoesOn DEF CheckConfiguration, TypeOK, NotBorn, Steps, readVars, ReadTypeOK,
       secrets, lambdas, gateways
  <1> QED BY <1>1, <1>2, <1>3, <1>4, <1>5, <1>6, <1>7

LEMMA CallType ==
  ASSUME TypeOK, NotBorn,
         TestFunction \/ CallThroughGateway \/ InvokeRecords \/ RecordsTimeOut \/ CallFails
  PROVE  TypeOK' /\ NotBorn'
  <1>1. ASSUME NEW from, NEW again \in Steps, NEW next \in Steps,
               InvokePassages(from, again, next)
        PROVE  TypeOK' /\ NotBorn'
    <2>1. warm' \in [Functions -> SUBSET Passwords]
          /\ \A g \in Functions : function'[g] \in {"absent", "pending"} => warm'[g] = {}
      BY <1>1, WarmsType DEF InvokePassages, SearchHotelKnowledge, Answers, TypeOK
    <2>2. step' \in Steps /\ at' \in Functions /\ UNCHANGED <<candidate, faults, clean, serving>>
      BY <1>1, LoopsGo DEF InvokePassages, TypeOK
    <2> QED
      BY <1>1, <2>1, <2>2 DEF InvokePassages, TypeOK, NotBorn, readVars, ReadTypeOK, secrets,
         gateways
  <1>2. ASSUME NEW from, NEW again \in Steps, NEW next \in Steps,
               RecordsReturn(from, again, next)
        PROVE  TypeOK' /\ NotBorn'
    BY <1>2, LoopsGo DEF RecordsReturn, ReadReturns, TypeOK, NotBorn, ReadTypeOK, secrets,
       lambdas, gateways
  <1>3. CASE InvokeRecords
    <2>1. warm' \in [Functions -> SUBSET Passwords]
          /\ \A g \in Functions : function'[g] \in {"absent", "pending"} => warm'[g] = {}
      BY <1>3, WarmsType DEF InvokeRecords, Answers, TypeOK
    <2> QED
      BY <1>3, <2>1 DEF InvokeRecords, BeginRead, TypeOK, NotBorn, ReadTypeOK, secrets,
         gateways, notebook, history
  <1>4. CASE RecordsTimeOut
    BY <1>4, GoesOn DEF RecordsTimeOut, TimesOut, TypeOK, NotBorn, Steps, ReadTypeOK, secrets,
       lambdas, gateways
  <1>5. CASE CallFails
    BY <1>5, GoesOn DEF CallFails, TypeOK, NotBorn, Steps, readVars, ReadTypeOK, secrets,
       lambdas, gateways
  <1> QED
    BY <1>1, <1>2, <1>3, <1>4, <1>5 DEF TestFunction, CallThroughGateway, Steps

LEMMA GatewayType ==
  ASSUME TypeOK, NotBorn,
         ConfirmReadOnly \/ CreateGateway \/ WaitForGateway \/ CreateTarget \/ WaitForTargets
           \/ TargetFailed \/ Begin
  PROVE  TypeOK' /\ NotBorn'
  <1>1. CASE ConfirmReadOnly
    BY <1>1, GoesOn DEF ConfirmReadOnly, TypeOK, NotBorn, Steps, readVars, ReadTypeOK, secrets,
       lambdas, gateways
  <1>2. CASE CreateGateway
    BY <1>2, GoesOn DEF CreateGateway, TypeOK, NotBorn, Steps, Resources, readVars, ReadTypeOK,
       secrets, lambdas
  <1>3. CASE WaitForGateway
    BY <1>3, GoesOn DEF WaitForGateway, TypeOK, NotBorn, Steps, readVars, ReadTypeOK, secrets,
       lambdas, gateways
  <1>4. CASE CreateTarget
    BY <1>4, LoopsGo DEF CreateTarget, TypeOK, NotBorn, Steps, Resources, readVars, ReadTypeOK,
       secrets, lambdas
  <1>5. CASE WaitForTargets
    BY <1>5, GoesOn DEF WaitForTargets, TypeOK, NotBorn, Steps, readVars, ReadTypeOK, secrets,
       lambdas, gateways
  <1>6. CASE TargetFailed
    BY <1>6, GoesOn DEF TargetFailed, TypeOK, NotBorn, Steps, readVars, ReadTypeOK, secrets,
       lambdas, gateways
  <1>7. CASE Begin
    <2>1. candidate' \in SecretNames /\ at' \in Functions /\ serving' \in BOOLEAN
      BY <1>7, GatewayAssumption DEF Begin, SecretNames, Functions
    <2> QED
      BY <1>7, <2>1 DEF Begin, TypeOK, NotBorn, Steps, readVars, ReadTypeOK, secrets, lambdas,
         gateways
  <1> QED BY <1>1, <1>2, <1>3, <1>4, <1>5, <1>6, <1>7

LEMMA SettlesType ==
  ASSUME TypeOK, NotBorn,
         \/ GatewaySettles \/ Purges
         \/ \E f \in Functions : Settle(f) \/ UserCall(f)
         \/ ThreadEnds /\ UNCHANGED deployment
  PROVE  TypeOK' /\ NotBorn'
  <1>1. ASSUME NEW f \in Functions, Settle(f)
        PROVE  TypeOK' /\ NotBorn'
    BY <1>1 DEF Settle, Busy, TypeOK, NotBorn, readVars, ReadTypeOK, secrets, gateways,
       notebook, history
  <1>2. ASSUME NEW f \in Functions, UserCall(f)
        PROVE  TypeOK' /\ NotBorn'
    <2>1. warm' \in [Functions -> SUBSET Passwords]
          /\ \A g \in Functions : function'[g] \in {"absent", "pending"} => warm'[g] = {}
      BY <1>2, WarmsType DEF UserCall
    <2> QED
      BY <1>2, <2>1 DEF UserCall, TypeOK, NotBorn, readVars, ReadTypeOK, secrets, gateways,
         notebook, history
  <1>3. CASE GatewaySettles
    BY <1>3 DEF GatewaySettles, SettleGateway, SettleTarget, Resources, TypeOK, NotBorn,
       readVars, ReadTypeOK, secrets, lambdas, notebook, history
  <1>4. CASE Purges
    BY <1>4 DEF Purges, Purge, TypeOK, NotBorn, readVars, ReadTypeOK, lambdas, gateways, notebook
  <1>5. CASE ThreadEnds /\ UNCHANGED deployment
    BY <1>5 DEF ThreadEnds, deployment, TypeOK, NotBorn, ReadTypeOK, secrets, lambdas, gateways,
       notebook, history
  <1> QED BY <1>1, <1>2, <1>3, <1>4, <1>5

LEMMA FaultsType ==
  ASSUME TypeOK, NotBorn, Faults \/ RemoveGateway
  PROVE  TypeOK' /\ NotBorn'
  <1> faults \in 0..MaxFaults /\ (Fault => faults' \in 0..MaxFaults)
    BY GatewayAssumption DEF TypeOK, Fault
  <1>1. CASE Stop
    <2>1. at' \in Functions
      BY <1>1, GatewayAssumption DEF Stop, Functions
    <2>2. ReadTypeOK'
      BY <1>1 DEF Stop, TypeOK, ReadTypeOK
    <2> QED
      BY <1>1, <2>1, <2>2 DEF Stop, TypeOK, NotBorn, Steps, secrets, lambdas, gateways
  <1>2. CASE DatabaseIsSlow
    BY <1>2 DEF DatabaseIsSlow, ReadIsLate, TypeOK, NotBorn, ReadTypeOK, secrets, lambdas,
       gateways, notebook
  <1>3. CASE GatewayFails
    BY <1>3 DEF GatewayFails, Resources, TypeOK, NotBorn, readVars, ReadTypeOK, secrets,
       lambdas, notebook
  <1>4. CASE Rotate
    <2>1. password' \in Passwords
      BY <1>4, GatewayAssumption DEF Rotate, TypeOK, Passwords
    <2> QED
      BY <1>4, <2>1 DEF Rotate, TypeOK, NotBorn, readVars, ReadTypeOK, lambdas, gateways,
         notebook
  <1>5. CASE RemoveSecret
    BY <1>5 DEF RemoveSecret, Removes, TypeOK, NotBorn, readVars, ReadTypeOK, lambdas, gateways,
       notebook
  <1>6. CASE RemoveFunctions
    BY <1>6 DEF RemoveFunctions, Removes, TypeOK, NotBorn, readVars, ReadTypeOK, gateways,
       notebook
  <1>7. ASSUME NEW f \in Functions, UpdateFails(f)
        PROVE  TypeOK' /\ NotBorn'
    BY <1>7 DEF UpdateFails, TypeOK, NotBorn, readVars, ReadTypeOK, secrets, gateways, notebook
  <1>8. CASE RemoveGateway
    BY <1>8 DEF RemoveGateway, Resources, TypeOK, NotBorn, readVars, ReadTypeOK, secrets,
       lambdas, notebook
  <1> QED BY <1>1, <1>2, <1>3, <1>4, <1>5, <1>6, <1>7, <1>8 DEF Faults

LEMMA TypeStep ==
  ASSUME TypeOK, NotBorn, [Next]_vars
  PROVE  TypeOK' /\ NotBorn'
  <1>1. CASE NotebookStep
    BY <1>1, SecretType, DeployType, CallType, GatewayType DEF NotebookStep
  <1>2. CASE UNCHANGED vars
    BY <1>2 DEF vars, deployment, TypeOK, NotBorn, readVars, ReadTypeOK, secrets, lambdas,
       gateways, notebook, history
  <1> QED
    BY <1>1, <1>2, GatewayType, SettlesType, FaultsType DEF Next

(***************************************************************************)
(* What a run has, and what a run over tools that serve keeps.             *)
(***************************************************************************)
After == Steps \ (BeforeRole \union Deploying)

\* A step that leaves secrets, role and configurations alone, and goes on only after
\* the functions are deployed, disturbs nothing.
LEMMA Steady ==
  ASSUME IInv,
         UNCHANGED <<secrets, policy, function, live, wanted, candidate>>,
         clean' => clean, serving' => serving,
         warm' = warm \/ \E f \in Functions : Warms(f),
         \/ step' = "idle"
         \/ step \in After \ {"done"} /\ step' \in After
         \/ step' = step /\ at' = at
  PROVE  SecretHeld' /\ Configured' /\ Kept'
  <1>1. SecretHeld'
    BY DEF IInv, SecretHeld, secrets, After, BeforeRole, Deploying, Steps
  <1>2. Configured'
    <2> SUFFICES ASSUME clean', NEW f \in Functions, Updated(f)'
                 PROVE  /\ wanted'[f] = candidate'
                        /\ function'[f] \notin {"absent", "code"}
                        /\ function'[f] = "ready" =>
                             live'[f] = candidate' /\ warm'[f] \subseteq {password'}
      BY DEF Configured
    <2>1. Updated(f)
      BY DEF Updated, After, BeforeRole, Deploying, Steps
    <2>2. /\ wanted[f] = candidate
          /\ function[f] \notin {"absent", "code"}
          /\ function[f] = "ready" => live[f] = candidate /\ warm[f] \subseteq {password}
      BY <2>1 DEF IInv, Configured
    <2>3. warm'[f] \subseteq warm[f] \union {password}
      BY DEF Warms, IInv, TypeOK
    <2> QED
      BY <2>2, <2>3 DEF secrets
  <1>3. Kept'
    BY DEF IInv, Kept, InUse, NoBetterName, secrets, After, BeforeRole, Deploying, Steps
  <1> QED BY <1>1, <1>2, <1>3

LEMMA CallsSteady ==
  ASSUME IInv,
         TestFunction \/ CallThroughGateway \/ InvokeRecords \/ RecordsTimeOut \/ CallFails
  PROVE  SecretHeld' /\ Configured' /\ Kept'
  <1> at \in Functions
    BY DEF IInv, TypeOK
  <1>1. ASSUME NEW from \in After \ {"done"}, NEW again \in After, NEW next \in After,
               InvokePassages(from, again, next) \/ RecordsReturn(from, again, next)
        PROVE  SecretHeld' /\ Configured' /\ Kept'
    <2>1. step \in After \ {"done"} /\ step' \in After
          /\ UNCHANGED <<candidate, clean, serving>>
      BY <1>1, LoopsGo DEF InvokePassages, RecordsReturn
    <2>2. warm' = warm \/ Warms(at)
      BY <1>1 DEF InvokePassages, RecordsReturn, SearchHotelKnowledge, lambdas
    <2>3. UNCHANGED <<secrets, policy, function, live, wanted>>
      BY <1>1 DEF InvokePassages, RecordsReturn, lambdas
    <2> QED BY <2>1, <2>2, <2>3, Steady
  <1>2. CASE InvokeRecords
    BY <1>2, Steady DEF InvokeRecords, notebook, history
  <1>3. CASE RecordsTimeOut \/ CallFails
    <2>1. step' = "idle" /\ UNCHANGED <<secrets, policy, lambdas, candidate, clean, serving>>
      BY <1>3 DEF RecordsTimeOut, CallFails, Raises, Goes, history
    <2> QED BY <2>1, Steady DEF lambdas
  <1> QED
    BY <1>1, <1>2, <1>3
    DEF TestFunction, CallThroughGateway, After, Steps, BeforeRole, Deploying

LEMMA GatewaySteady ==
  ASSUME IInv,
         ConfirmReadOnly \/ CreateGateway \/ WaitForGateway \/ CreateTarget \/ WaitForTargets
           \/ TargetFailed \/ CheckConfiguration
  PROVE  SecretHeld' /\ Configured' /\ Kept'
  <1>1. step \in After \ {"done"}
    BY DEF ConfirmReadOnly, CreateGateway, WaitForGateway, CreateTarget, WaitForTargets,
           TargetFailed, CheckConfiguration, After, Steps, BeforeRole, Deploying
  <1>2. step' \in After \union {"idle"} /\ UNCHANGED <<candidate, clean, serving>>
    <2> at \in Functions
      BY DEF IInv, TypeOK
    <2>1. CASE CreateTarget
      BY <2>1, LoopsGo DEF CreateTarget, After, Steps, BeforeRole, Deploying
    <2>2. CASE ~CreateTarget
      BY <2>2 DEF ConfirmReadOnly, CreateGateway, WaitForGateway, WaitForTargets,
         TargetFailed, CheckConfiguration, Goes, Raises, history, After, Steps, BeforeRole,
         Deploying
    <2> QED BY <2>1, <2>2
  <1>3. UNCHANGED <<secrets, policy, lambdas>>
    BY DEF ConfirmReadOnly, CreateGateway, WaitForGateway, CreateTarget, WaitForTargets,
           TargetFailed, CheckConfiguration
  <1> QED BY <1>1, <1>2, <1>3, Steady DEF lambdas

LEMMA OutsideSteady ==
  ASSUME IInv,
         \/ NoCandidateLeft \/ UpdateConflicts \/ CodeUpdateFailed
         \/ GatewaySettles \/ Stop \/ DatabaseIsSlow \/ GatewayFails \/ RemoveGateway
         \/ \E f \in Functions : UserCall(f)
         \/ ThreadEnds /\ UNCHANGED deployment
         \/ UNCHANGED vars
  PROVE  SecretHeld' /\ Configured' /\ Kept'
  <1>1. UNCHANGED <<secrets, policy, function, live, wanted, candidate>>
        /\ (clean' => clean) /\ (serving' => serving)
    BY DEF NoCandidateLeft, UpdateConflicts, CodeUpdateFailed, Raises, Goes, GatewaySettles,
           SettleGateway, SettleTarget, Stop, DatabaseIsSlow, GatewayFails, RemoveGateway,
           UserCall, vars, deployment, lambdas, notebook, history
  <1>2. warm' = warm \/ \E f \in Functions : Warms(f)
    BY DEF NoCandidateLeft, UpdateConflicts, CodeUpdateFailed, GatewaySettles,
           SettleGateway, SettleTarget, Stop, DatabaseIsSlow, GatewayFails, RemoveGateway,
           UserCall, vars, deployment, lambdas
  <1>3. step' = "idle" \/ (step' = step /\ at' = at)
    BY DEF NoCandidateLeft, UpdateConflicts, CodeUpdateFailed, Raises, Goes, GatewaySettles,
           SettleGateway, SettleTarget, Stop, DatabaseIsSlow, GatewayFails, RemoveGateway,
           UserCall, vars, deployment, notebook
  <1> QED BY <1>1, <1>2, <1>3, Steady

LEMMA SecretStep ==
  ASSUME IInv,
         UpsertSecret \/ RestoreSecret \/ PutRestored \/ NextCandidate \/ EnsureExecutionRole
  PROVE  SecretHeld' /\ Configured' /\ Kept'
  <1> USE DEF IInv
  <1>1. step' \in {"secret", "put", "role", "deploy"} /\ (step' = "deploy" => at' = 1)
        /\ UNCHANGED <<lambdas, password, mayRestore, clean, serving>>
    BY DEF UpsertSecret, RestoreSecret, PutRestored, NextCandidate, EnsureExecutionRole, Goes,
           history, secrets
  <1>2. Configured'
    <2> SUFFICES ASSUME NEW f \in Functions PROVE  ~Updated(f)'
      BY DEF Configured
    <2> QED
      BY <1>1 DEF Updated, BeforeRole, Deploying, Functions
  <1>3. SecretHeld'
    BY <1>1 DEF SecretHeld, UpsertSecret, RestoreSecret, PutRestored, NextCandidate,
       EnsureExecutionRole, Granted, Goes, history, secrets, TypeOK, BeforeRole, Steps
  <1>4. Kept'
    <2> SUFFICES ASSUME serving' PROVE InUse'
      BY DEF Kept
    <2>1. InUse /\ policy \in Nat /\ candidate \in Nat
      BY <1>1 DEF Kept, InUse, SecretNames, TypeOK
    <2>2. step = "secret" => (candidate = policy \/ (secret[candidate] = "doomed" /\ ~mayRestore))
      BY <2>1 DEF InUse, NoBetterName, TypeOK
    <2>3. CASE UpsertSecret
      BY <1>1, <2>1, <2>2, <2>3 DEF UpsertSecret, Goes, InUse, TypeOK, lambdas, secrets
    <2>4. CASE RestoreSecret \/ PutRestored
      BY <1>1, <2>1, <2>2, <2>4 DEF RestoreSecret, PutRestored, InUse
    <2>5. CASE NextCandidate
      BY <1>1, <2>1, <2>2, <2>5 DEF NextCandidate, InUse, NoBetterName, lambdas, secrets
    <2>6. CASE EnsureExecutionRole
      BY <1>1, <2>1, <2>6 DEF EnsureExecutionRole, Granted, Goes, InUse, lambdas, secrets, Steps
    <2> QED BY <2>3, <2>4, <2>5, <2>6
  <1> QED BY <1>2, <1>3, <1>4

LEMMA DeployStep ==
  ASSUME IInv,
         CreateFunction \/ UpdateCode \/ UpdateConfiguration \/ FunctionActive
  PROVE  SecretHeld' /\ Configured' /\ Kept'
  <1> USE DEF IInv
  <1> at \in Functions /\ Functions \subseteq Nat
    BY DEF TypeOK, Functions
  <1>1. step \in Deploying /\ UNCHANGED <<secrets, policy, candidate, clean, serving>>
    BY LoopsGo DEF CreateFunction, UpdateCode, UpdateConfiguration, FunctionActive, Within, history,
       Deploying
  <1>2. step' \in Deploying \union {"check"}
    BY LoopsGo DEF CreateFunction, UpdateCode, UpdateConfiguration, FunctionActive, Within,
       Deploying
  <1>3. SecretHeld'
    BY <1>1, <1>2 DEF SecretHeld, secrets, Deploying, BeforeRole, Steps
  <1>4. Configured'
    <2> SUFFICES ASSUME clean, NEW f \in Functions, Updated(f)'
                 PROVE  /\ wanted'[f] = candidate
                        /\ function'[f] \notin {"absent", "code"}
                        /\ function'[f] = "ready" =>
                             live'[f] = candidate /\ warm'[f] \subseteq {password}
      BY <1>1 DEF Configured, secrets
    <2>1. CASE FunctionActive
      <3>1. \/ at' = at + 1 /\ step' = "deploy"
            \/ at = Tools /\ step' = "check"
        BY <2>1, GatewayAssumption DEF FunctionActive, Loops, Functions
      <3>2. f < at \/ f = at
        BY <3>1, GatewayAssumption DEF Updated, Functions, Deploying, BeforeRole
      <3>3. Updated(f)
        BY <2>1, <3>2 DEF FunctionActive, Updated, Deploying
      <3> QED
        BY <2>1, <3>3 DEF FunctionActive, Configured, lambdas
    <2>2. CASE CreateFunction \/ UpdateConfiguration
      <3>1. f = at \/ Updated(f)
        BY <2>2 DEF CreateFunction, UpdateConfiguration, Within, Updated, Deploying, BeforeRole,
           Steps
      <3>2. wanted' = [wanted EXCEPT ![at] = candidate] /\ UNCHANGED <<live, warm>>
            /\ function'[at] \in {"pending", "config"}
            /\ \A g \in Functions : g # at => function'[g] = function[g]
        BY <2>2 DEF CreateFunction, UpdateConfiguration, TypeOK
      <3>3. CASE f = at
        BY <3>2, <3>3 DEF TypeOK
      <3>4. CASE f # at
        BY <3>1, <3>2, <3>4 DEF TypeOK, Configured
      <3> QED BY <3>3, <3>4
    <2>3. CASE UpdateCode
      <3>1. f # at /\ Updated(f)
        BY <2>3 DEF UpdateCode, Within, Updated, Deploying, BeforeRole, Steps, Functions
      <3> QED
        BY <2>3, <3>1 DEF UpdateCode, Configured, TypeOK
    <2> QED BY <2>1, <2>2, <2>3
  <1>5. Kept'
    <2> SUFFICES ASSUME serving' PROVE InUse'
      BY DEF Kept
    <2>1. InUse /\ candidate = policy /\ step' # "put" /\ step' # "secret"
      BY <1>1, <1>2 DEF Kept, InUse, Deploying, Steps
    <2>2. ~CreateFunction
      BY <2>1 DEF CreateFunction, InUse
    <2>3. \A f \in Functions :
            /\ live'[f] = policy
            /\ function'[f] \in {"pending", "config"} => wanted'[f] = policy
            /\ function'[f] # "absent"
      BY <2>1, <2>2
      DEF InUse, UpdateCode, UpdateConfiguration, FunctionActive, TypeOK, lambdas
    <2> QED BY <1>1, <2>1, <2>3 DEF InUse, secrets
  <1> QED BY <1>3, <1>4, <1>5

LEMMA SettleStep ==
  ASSUME IInv, NEW f \in Functions, Settle(f) \/ UpdateFails(f)
  PROVE  SecretHeld' /\ Configured' /\ Kept'
  <1> USE DEF IInv
  <1>1. UNCHANGED <<secrets, policy, wanted, notebook, clean, serving>>
    BY DEF Settle, UpdateFails, history
  <1>2. \A g \in Functions : g # f => function'[g] = function[g] /\ live'[g] = live[g]
                                      /\ warm'[g] = warm[g]
    BY DEF Settle, UpdateFails, TypeOK
  <1>3. \/ /\ function'[f] = "ready" /\ function[f] = "code" /\ live'[f] = live[f]
        \/ /\ function'[f] = "ready" /\ function[f] \in {"pending", "config"}
           /\ live'[f] = wanted[f] /\ warm'[f] = {}
        \/ /\ function'[f] = "failed" /\ function[f] \in {"code", "config"}
           /\ live'[f] = live[f]
    BY DEF Settle, UpdateFails, TypeOK, Busy
  <1>4. SecretHeld'
    BY <1>1 DEF SecretHeld, secrets, notebook
  <1>5. Configured'
    <2>1. \A g \in Functions : Updated(g)' <=> Updated(g)
      BY <1>1 DEF Updated, notebook
    <2> QED
      BY <1>1, <1>2, <1>3, <2>1 DEF Configured, secrets, notebook
  <1>6. Kept'
    BY <1>1, <1>2, <1>3 DEF Kept, InUse, NoBetterName, secrets, notebook
  <1> QED BY <1>4, <1>5, <1>6

LEMMA BeginStep ==
  ASSUME IInv, Begin
  PROVE  SecretHeld' /\ Configured' /\ Kept'
  <1> USE DEF IInv
  <1>1. SecretHeld' /\ Configured'
    BY DEF Begin, SecretHeld, Configured, Updated, BeforeRole, Deploying
  <1>2. Kept'
    <2> SUFFICES ASSUME serving' PROVE InUse'
      BY DEF Kept
    <2>1. AllServe /\ NoBetterName
      BY DEF Begin
    <2>2. policy \in SecretNames /\ secret[policy] = "live" /\ content[policy] = password
      BY <2>1, GatewayAssumption DEF AllServe, Serves, Reads, TypeOK, Functions
    <2>3. \A f \in Functions : live[f] = policy /\ function[f] = "ready"
      BY <2>1 DEF AllServe, Serves, Reads
    <2>4. 1 <= policy
      BY <2>2 DEF SecretNames
    <2> QED
      BY <2>1, <2>2, <2>3, <2>4 DEF Begin, InUse, NoBetterName, secrets, lambdas
  <1> QED BY <1>1, <1>2

LEMMA ChangesStep ==
  ASSUME IInv, Purges \/ Rotate \/ RemoveSecret \/ RemoveFunctions
  PROVE  SecretHeld' /\ Configured' /\ Kept'
  <1> USE DEF IInv
  <1>1. Kept'
    BY DEF Purges, Purge, Rotate, RemoveSecret, RemoveFunctions, Removes, Kept
  <1>2. CASE ~Purges
    BY <1>1, <1>2 DEF Rotate, RemoveSecret, RemoveFunctions, Removes, SecretHeld, Configured
  <1>3. CASE Purges
    <2>1. SecretHeld'
      BY <1>3 DEF Purges, Purge, SecretHeld, notebook, TypeOK
    <2>2. Configured'
      BY <1>3 DEF Purges, Purge, Configured, Updated, notebook, lambdas
    <2> QED BY <1>1, <2>1, <2>2
  <1> QED BY <1>2, <1>3

LEMMA InvStep == IInv /\ [Next]_vars => IInv'
  <1> SUFFICES ASSUME IInv, [Next]_vars PROVE IInv'
    OBVIOUS
  <1>1. TypeOK' /\ NotBorn'
    BY TypeStep DEF IInv
  <1>2. SecretHeld' /\ Configured' /\ Kept'
    BY CallsSteady, GatewaySteady, OutsideSteady, SecretStep, DeployStep, SettleStep, BeginStep,
       ChangesStep
    DEF Next, NotebookStep, Faults
  <1> QED BY <1>1, <1>2 DEF IInv

LEMMA InvHolds == Spec => []IInv
  BY InvInit, InvStep, PTL DEF Spec

(***************************************************************************)
(* The theorems.                                                           *)
(***************************************************************************)
\* The notebook, AWS and the warm containers stay in their types; the loop over the
\* tools never goes past the last.
THEOREM TypeCorrect == Spec => []TypeOK
  <1>1. IInv => TypeOK
    BY DEF IInv
  <1> QED BY <1>1, InvHolds, PTL

\* Whatever earlier runs, cleanups and rotations left, when 4.1_agentcore_gateway.ipynb
\* ends, each settled tool reads the secret in force and has no older connection.
THEOREM ToolsAlwaysServe == Spec => []ToolsServe
  <1>1. IInv => ToolsServe
    <2> SUFFICES ASSUME IInv, step = "done", clean, NEW f \in Functions, function[f] = "ready"
                 PROVE  Serves(f) /\ warm[f] \subseteq {password}
      BY DEF ToolsServe
    <2>1. /\ secret[candidate] = "live" /\ content[candidate] = password
          /\ policy = candidate /\ policy \in SecretNames
      BY DEF IInv, SecretHeld, Steps, BeforeRole, TypeOK
    <2>2. live[f] = candidate /\ warm[f] \subseteq {password}
      BY DEF IInv, Configured, Updated, Steps, BeforeRole, Deploying
    <2>3. policy # NoSecret
      BY <2>1 DEF SecretNames, NoSecret
    <2> QED BY <2>1, <2>2, <2>3 DEF Serves, Reads
  <1> QED BY <1>1, InvHolds, PTL

\* A run of the notebook over tools that serve leaves them serving at every moment.
THEOREM RerunAlwaysKeepsServing == Spec => []RerunKeepsServing
  <1>1. IInv => RerunKeepsServing
    BY DEF IInv, Kept, InUse, RerunKeepsServing, Serves, Reads, SecretNames, NoSecret
  <1> QED BY <1>1, InvHolds, PTL
================================================================================
