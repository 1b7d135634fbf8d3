---------------------------- MODULE AgentRunProofs ----------------------------
(***************************************************************************)
(* The safety properties of a diagnosis run and of the operators' desk,    *)
(* for every cap, cost, answer size and number of operators and actions.   *)
(***************************************************************************)
EXTENDS AgentRun, TLAPS

(***************************************************************************)
(* TypeOK is inductive.                                                    *)
(***************************************************************************)
LEMMA TypeInit ==
    ASSUME Init
    PROVE  TypeOK
<1>1. Absent \in Diagnosis
  BY DEF Absent, Diagnosis
<1>2. /\ status \in [Actions -> {"absent", "pending", "approved", "rejected"}]
      /\ executed \in [Actions -> Nat]
      /\ op \in [Operators -> [pc : {"idle", "commit"}, action : Actions \cup {None},
                               verdict : {"approved", "rejected"}]]
  BY DEF Init, Nobody
<1>3. verified \in BOOLEAN
  BY Zenon DEF Init
<1>4. /\ calls \in Nat /\ todo \in 0..MaxBlocks /\ attempt \in 0..RETRY_MAX
      /\ cost \in Nat /\ ~(todo > 0)
  BY RunAssumption DEF Init
<1>5. /\ node \in Nodes /\ contended \subseteq Actions
      /\ result \in Diagnosis /\ diagnosis \in Diagnosis
  BY <1>1 DEF Init, Nodes
<1> QED
  BY <1>2, <1>3, <1>4, <1>5 DEF TypeOK

\* A step of the run or of an operator keeps the types.
LEMMA TypeStep ==
    ASSUME TypeOK, [Next]_vars
    PROVE  TypeOK'
<1> USE RunAssumption DEF TypeOK, desk, run, CallingNodes, LoopNodes, Nodes
<1>1. ASSUME PersistStub \/ BuildClient \/ RateLimited \/ PersistResult \/ Fail
      PROVE  TypeOK'
  BY <1>1 DEF PersistStub, BuildClient, RateLimited, PersistResult, Fail, Stub, Diagnosis
<1>2. ASSUME NEW k \in 0..MaxCallCost,
             triage_node(k) \/ LoopWrapUp(k) \/ hypothesize_node(k)
      PROVE  TypeOK'
  BY <1>2 DEF triage_node, LoopWrapUp, hypothesize_node, CallModel, LeaveLoop
<1>3. ASSUME NEW k \in 0..MaxCallCost, NEW n \in 0..MaxBlocks, LoopAsk(k, n)
      PROVE  TypeOK'
  BY <1>3 DEF LoopAsk, CallModel, LeaveLoop
<1>4. ASSUME NEW k \in 0..MaxCallCost, NEW submitted \in BOOLEAN,
             NEW confidence \in {"low", "high"}, report_node(k, submitted, confidence)
      PROVE  TypeOK'
  BY <1>4 DEF report_node, CallModel, Downgraded, Stub, Diagnosis
<1>5. ASSUME NEW live \in BOOLEAN, Dispatch(live)
      PROVE  TypeOK'
  BY <1>5 DEF Dispatch
<1>6. ASSUME NEW a \in Actions, RequestMutation(a)
      PROVE  TypeOK'
  BY <1>6 DEF RequestMutation
<1>7. ASSUME NEW o \in Operators, NEW a \in Actions,
             NEW verdict \in {"approved", "rejected"}, Fetch(o, a, verdict)
      PROVE  TypeOK'
  BY <1>7 DEF Fetch
<1>8. ASSUME NEW o \in Operators, Commit(o)
      PROVE  TypeOK'
  <2>1. UNCHANGED run /\ UNCHANGED contended
    BY <1>8 DEF Commit
  <2>2. /\ status' \in [Actions -> {"absent", "pending", "approved", "rejected"}]
        /\ executed' \in [Actions -> Nat]
    <3>1. op[o].verdict \in {"approved", "rejected"}
      OBVIOUS
    <3>2. CASE op[o].action \in Actions
      BY <1>8, <3>1, <3>2 DEF Commit
    <3>3. CASE op[o].action \notin Actions
      <4>1. status' = status
        BY <1>8, <3>3 DEF Commit
      <4>2. executed' = executed
        BY <1>8, <3>3 DEF Commit
      <4> QED  BY <4>1, <4>2
    <3> QED  BY <3>2, <3>3
  <2>3. op' \in [Operators -> [pc : {"idle", "commit"}, action : Actions \cup {None},
                               verdict : {"approved", "rejected"}]]
    BY <1>8 DEF Commit, Nobody
  <2> QED
    BY <2>1, <2>2, <2>3
<1>9. CASE UNCHANGED vars
  BY <1>9 DEF vars
<1> QED
  BY <1>1, <1>2, <1>3, <1>4, <1>5, <1>6, <1>7, <1>8, <1>9 DEF Next, Proceed

(***************************************************************************)
(* TypeCorrect: the run keeps its types, and a failed or finished node     *)
(* never leaves tool uses behind for the next one.                         *)
(***************************************************************************)
THEOREM TypeCorrect == Spec => []TypeOK
<1>1. Init => TypeOK
  BY TypeInit
<1>2. TypeOK /\ [Next]_vars => TypeOK'
  BY TypeStep
<1> QED
  BY <1>1, <1>2, PTL DEF Spec

-----------------------------------------------------------------------------
(***************************************************************************)
(* How many calls a node may have made since the budget was exceeded.      *)
(***************************************************************************)
LateCalls ==
    CASE node \in {"idle", "client", "triage"} -> 0
      [] node = "investigate" -> 1
      [] node = "hypothesize" -> 2
      [] node = "verify" -> 3
      [] node = "report" -> 4
      [] OTHER -> 5

CostInv == cost < MAX_COST_USD_PER_RUN + LateCalls * MaxCallCost

\* Multiples of the cost of a call, which the provers do not order themselves.
LEMMA Multiples ==
    ASSUME NEW K \in Nat
    PROVE  /\ 0 * K = 0 /\ 1 * K = K /\ 2 * K = K + K /\ 3 * K = K + K + K
           /\ 4 * K = K + K + K + K /\ 5 * K = K + K + K + K + K
  OBVIOUS

\* LateCalls, node by node.
LEMMA LateCallsOf ==
    ASSUME TypeOK
    PROVE  /\ node \in {"idle", "client", "triage"} => LateCalls = 0
           /\ node = "investigate" => LateCalls = 1
           /\ node = "hypothesize" => LateCalls = 2
           /\ node = "verify" => LateCalls = 3
           /\ node = "report" => LateCalls = 4
           /\ node \in {"persist", "done", "failed"} => LateCalls = 5
  BY DEF LateCalls

\* A call is made within the budget, or is one of the late ones.
LEMMA CostStep ==
    ASSUME TypeOK, CostInv, [Next]_vars
    PROVE  CostInv'
<1> DEFINE M == MAX_COST_USD_PER_RUN
           K == MaxCallCost
<1>0. /\ TypeOK' /\ M \in Nat /\ K \in Nat /\ cost \in Nat /\ cost' \in Nat
  BY TypeStep, RunAssumption DEF TypeOK
<1> HIDE DEF M, K
<1>1. /\ node \in {"idle", "client", "triage"} => (CostInv <=> cost < M)
      /\ node = "investigate" => (CostInv <=> cost < M + K)
      /\ node = "hypothesize" => (CostInv <=> cost < M + K + K)
      /\ node = "verify" => (CostInv <=> cost < M + K + K + K)
      /\ node = "report" => (CostInv <=> cost < M + K + K + K + K)
      /\ node \in {"persist", "done", "failed"} => (CostInv <=> cost < M + K + K + K + K + K)
  BY <1>0, Multiples DEF CostInv, LateCalls, M, K
<1>2. /\ node' \in {"idle", "client", "triage"} => (CostInv' <=> cost' < M + 0)
      /\ node' = "investigate" => (CostInv' <=> cost' < M + K)
      /\ node' = "hypothesize" => (CostInv' <=> cost' < M + K + K)
      /\ node' = "verify" => (CostInv' <=> cost' < M + K + K + K)
      /\ node' = "report" => (CostInv' <=> cost' < M + K + K + K + K)
      /\ node' \in {"persist", "done", "failed"} => (CostInv' <=> cost' < M + K + K + K + K + K)
  BY <1>0, Multiples DEF CostInv, LateCalls, M, K
<1>3. ASSUME PersistStub \/ BuildClient \/ RateLimited \/ PersistResult \/ Fail
      PROVE  CostInv'
  BY <1>0, <1>1, <1>2, <1>3
  DEF PersistStub, BuildClient, RateLimited, PersistResult, Fail, TypeOK, Nodes, CallingNodes
<1>4. ASSUME NEW k \in 0..MaxCallCost,
             triage_node(k) \/ LoopWrapUp(k) \/ hypothesize_node(k)
      PROVE  CostInv'
  <2>1. k \in Nat /\ k <= K
    BY <1>0, <1>4 DEF K
  <2>2. cost' = cost + k
    BY <1>4 DEF triage_node, LoopWrapUp, hypothesize_node, CallModel
  <2> QED
    BY <1>0, <1>1, <1>2, <1>4, <2>1, <2>2
    DEF triage_node, LoopWrapUp, hypothesize_node, LeaveLoop, LoopNodes
<1>5. ASSUME NEW k \in 0..MaxCallCost, NEW n \in 0..MaxBlocks, LoopAsk(k, n)
      PROVE  CostInv'
  <2>1. k \in Nat /\ k <= K /\ cost' = cost + k
    BY <1>0, <1>5 DEF K, LoopAsk, CallModel
  <2>2. cost < M
    BY <1>0, <1>5 DEF LoopAsk, LoopGoesOn, over_budget, M, TypeOK
  <2> QED
    BY <1>0, <1>2, <1>5, <2>1, <2>2 DEF LoopAsk, LeaveLoop, LoopNodes
<1>6. ASSUME NEW k \in 0..MaxCallCost, NEW submitted \in BOOLEAN,
             NEW confidence \in {"low", "high"}, report_node(k, submitted, confidence)
      PROVE  CostInv'
  <2>1. k \in Nat /\ k <= K /\ cost' = cost + k
    BY <1>0, <1>6 DEF K, report_node, CallModel
  <2> QED
    BY <1>0, <1>1, <1>2, <1>6, <2>1 DEF report_node
<1>7. ASSUME \/ \E live \in BOOLEAN : Dispatch(live)
             \/ \E a \in Actions : RequestMutation(a)
             \/ \E o \in Operators, a \in Actions, verdict \in {"approved", "rejected"} :
                    Fetch(o, a, verdict)
             \/ \E o \in Operators : Commit(o)
             \/ UNCHANGED vars
      PROVE  CostInv'
  <2>1. node' = node /\ cost' = cost
    BY <1>7 DEF Dispatch, RequestMutation, Fetch, Commit, vars, run
  <2> QED
    BY <2>1 DEF CostInv, LateCalls
<1> QED
  BY <1>3, <1>4, <1>5, <1>6, <1>7 DEF Next, Proceed

(***************************************************************************)
(* CostBoundedCorrect: MAX_COST_USD_PER_RUN is exceeded by less than five  *)
(* calls of the model, whatever it answers and wherever the run fails.     *)
(***************************************************************************)
THEOREM CostBoundedCorrect == Spec => []CostBounded
<1>1. Init => TypeOK /\ CostInv
  <2> SUFFICES ASSUME Init PROVE CostInv
    BY TypeInit
  <2>1. LateCalls = 0 /\ cost = 0
    BY DEF Init, LateCalls
  <2> QED
    BY <2>1, RunAssumption DEF CostInv
<1>2. TypeOK /\ CostInv /\ [Next]_vars => TypeOK' /\ CostInv'
  BY TypeStep, CostStep
<1>3. TypeOK /\ CostInv => CostBounded
  <2> SUFFICES ASSUME TypeOK, CostInv PROVE CostBounded
    OBVIOUS
  <2>1. PICK c \in {0, 1, 2, 3, 4, 5} : LateCalls = c
    BY DEF LateCalls
  <2>2. c * MaxCallCost <= 5 * MaxCallCost /\ c * MaxCallCost \in Nat
    BY <2>1, Multiples, RunAssumption
  <2> QED
    BY <2>1, <2>2, RunAssumption DEF CostInv, CostBounded, TypeOK
<1> QED
  BY <1>1, <1>2, <1>3, PTL DEF Spec

-----------------------------------------------------------------------------
(***************************************************************************)
(* The row is the stub from its insert until the run has reached its end.  *)
(***************************************************************************)
RecordInv ==
    /\ HonestRecord
    /\ node = "idle" => diagnosis = Absent

\* No step claims a diagnosis before the end.
LEMMA RecordStep ==
    ASSUME TypeOK, RecordInv, [Next]_vars
    PROVE  RecordInv'
<1> USE DEF RecordInv, HonestRecord
<1>1. ASSUME PersistStub \/ BuildClient \/ RateLimited \/ PersistResult \/ Fail
      PROVE  RecordInv'
  BY <1>1 DEF PersistStub, BuildClient, RateLimited, PersistResult, Fail, Stub, Absent,
              CallingNodes
<1>2. ASSUME NEW k \in 0..MaxCallCost,
             \/ triage_node(k) \/ LoopWrapUp(k) \/ hypothesize_node(k)
             \/ \E n \in 0..MaxBlocks : LoopAsk(k, n)
      PROVE  RecordInv'
  BY <1>2 DEF triage_node, LoopWrapUp, hypothesize_node, LoopAsk, LeaveLoop, LoopNodes
<1>3. ASSUME NEW k \in 0..MaxCallCost, NEW submitted \in BOOLEAN,
             NEW confidence \in {"low", "high"}, report_node(k, submitted, confidence)
      PROVE  RecordInv'
  BY <1>3 DEF report_node, Downgraded, Stub
<1>4. ASSUME \/ \E live \in BOOLEAN : Dispatch(live)
             \/ \E a \in Actions : RequestMutation(a)
      PROVE  RecordInv'
  BY <1>4 DEF Dispatch, RequestMutation
<1>5. ASSUME \/ \E o \in Operators, a \in Actions, verdict \in {"approved", "rejected"} :
                    Fetch(o, a, verdict)
             \/ \E o \in Operators : Commit(o)
             \/ UNCHANGED vars
      PROVE  RecordInv'
  BY <1>5 DEF Fetch, Commit, run, vars
<1> QED
  BY <1>1, <1>2, <1>3, <1>4, <1>5 DEF Next, Proceed

LEMMA RecordAlways == Spec => [](TypeOK /\ RecordInv)
<1>1. Init => TypeOK /\ RecordInv
  <2> SUFFICES ASSUME Init PROVE RecordInv
    BY TypeInit
  <2>1. node = "idle" /\ diagnosis = Absent /\ result = Absent
    BY DEF Init
  <2>2. Absent.confidence = "low"
    BY DEF Absent
  <2> QED
    BY <2>1, <2>2 DEF RecordInv, HonestRecord
<1>2. TypeOK /\ RecordInv /\ [Next]_vars => TypeOK' /\ RecordInv'
  BY TypeStep, RecordStep
<1> QED
  BY <1>1, <1>2, PTL DEF Spec

(***************************************************************************)
(* RecordCorrect: wherever a run fails or is killed its row says           *)
(* agent_error with low confidence (run_diagnosis).                        *)
(***************************************************************************)
THEOREM RecordCorrect == Spec => []HonestRecord
<1>1. RecordInv => HonestRecord
  BY DEF RecordInv
<1> QED  BY <1>1, RecordAlways, PTL

-----------------------------------------------------------------------------
(***************************************************************************)
(* The inductive form of DecidedOnce: an operator between its check and    *)
(* its commit is the only one on that action, and the action is still      *)
(* pending, unless the check was contended.                                *)
(***************************************************************************)
DeskInv ==
    /\ DecidedOnce
    /\ \A o \in Operators : op[o].pc = "commit" => op[o].action \in Actions
    /\ \A o \in Operators : op[o].pc = "idle" => op[o].action = None
    /\ \A o \in Operators : op[o].action \in Actions \ contended =>
          /\ status[op[o].action] = "pending"
          /\ \A p \in Operators : op[p].action = op[o].action => p = o

\* An operator takes an action nobody else has, or contends for it.
LEMMA DeskStep ==
    ASSUME TypeOK, DeskInv, [Next]_vars
    PROVE  DeskInv'
<1> USE RunAssumption DEF TypeOK, DeskInv, DecidedOnce
<1>1. ASSUME UNCHANGED desk
      PROVE  DeskInv'
  BY <1>1 DEF desk
<1>2. ASSUME NEW a \in Actions, RequestMutation(a)
      PROVE  DeskInv'
  <2>1. /\ status[a] = "absent" /\ status' = [status EXCEPT ![a] = "pending"]
        /\ UNCHANGED <<op, executed, contended>>
    BY <1>2 DEF RequestMutation
  <2> QED  BY <2>1
<1>3. ASSUME NEW o \in Operators, NEW a \in Actions,
             NEW verdict \in {"approved", "rejected"}, Fetch(o, a, verdict)
      PROVE  DeskInv'
  <2>1. /\ status[a] = "pending" /\ UNCHANGED <<status, executed>>
        /\ op' = [op EXCEPT ![o] = [pc |-> "commit", action |-> a, verdict |-> verdict]]
        /\ contended \subseteq contended' /\ contended' \subseteq contended \cup {a}
    BY <1>3 DEF Fetch
  <2>2. a \notin contended' => \A p \in Operators \ {o} : op[p].action # a
    BY <1>3 DEF Fetch
  <2> QED  BY <2>1, <2>2
<1>4. ASSUME NEW o \in Operators, Commit(o)
      PROVE  DeskInv'
  <2> DEFINE a == op[o].action
  <2>1. /\ op[o].pc = "commit" /\ a \in Actions
        /\ status' = [status EXCEPT ![a] = op[o].verdict]
        /\ op' = [op EXCEPT ![o] = Nobody]
        /\ UNCHANGED contended
        /\ executed' = IF op[o].verdict = "approved"
                       THEN [executed EXCEPT ![a] = @ + 1] ELSE executed
    BY <1>4 DEF Commit
  <2>2. a \notin contended => status[a] = "pending" /\ executed[a] = 0
    BY <2>1
  <2>3. DecidedOnce'
    <3> SUFFICES ASSUME NEW b \in Actions \ contended
                 PROVE  executed'[b] = IF status'[b] = "approved" THEN 1 ELSE 0
      BY <2>1
    <3>1. CASE b = a
      BY <2>1, <2>2, <3>1
    <3>2. CASE b # a
      BY <2>1, <3>2
    <3> QED  BY <3>1, <3>2
  <2>4. \A p \in Operators \ {o} : op'[p] = op[p]
    BY <2>1
  <2>5. op'[o].pc = "idle" /\ op'[o].action = None
    BY <2>1 DEF Nobody
  <2>6. \A p \in Operators : op'[p].action \in Actions \ contended' =>
          /\ status'[op'[p].action] = "pending"
          /\ \A q \in Operators : op'[q].action = op'[p].action => q = p
    BY <2>1, <2>4, <2>5
  <2> QED  BY <2>3, <2>4, <2>5, <2>6
<1> QED
  <2>1. PersistStub \/ BuildClient \/ RateLimited \/ PersistResult \/ Fail => UNCHANGED desk
    BY DEF PersistStub, BuildClient, RateLimited, PersistResult, Fail
  <2>2. ASSUME NEW k \in 0..MaxCallCost,
               \/ triage_node(k) \/ LoopWrapUp(k) \/ hypothesize_node(k)
               \/ \E n \in 0..MaxBlocks : LoopAsk(k, n)
               \/ \E submitted \in BOOLEAN, confidence \in {"low", "high"} :
                      report_node(k, submitted, confidence)
        PROVE  UNCHANGED desk
    BY <2>2 DEF triage_node, LoopWrapUp, hypothesize_node, LoopAsk, report_node
  <2>3. (\E live \in BOOLEAN : Dispatch(live)) \/ UNCHANGED vars => UNCHANGED desk
    BY DEF Dispatch, vars, desk
  <2> QED
    BY <1>1, <1>2, <1>3, <1>4, <2>1, <2>2, <2>3 DEF Next, Proceed

(***************************************************************************)
(* DecidedOnceCorrect: an approved action takes effect exactly once and a  *)
(* rejected one never, for any number of operators, unless two of them had *)
(* read it as pending before either committed.                             *)
(***************************************************************************)
THEOREM DecidedOnceCorrect == Spec => []DecidedOnce
<1>1. Init => TypeOK /\ DeskInv
  <2> SUFFICES ASSUME Init PROVE DeskInv
    BY TypeInit
  <2> QED
    BY RunAssumption DEF Init, DeskInv, DecidedOnce, Nobody
<1>2. TypeOK /\ DeskInv /\ [Next]_vars => TypeOK' /\ DeskInv'
  BY TypeStep, DeskStep
<1>3. DeskInv => DecidedOnce
  BY DEF DeskInv
<1> QED
  BY <1>1, <1>2, <1>3, PTL DEF Spec
=============================================================================
