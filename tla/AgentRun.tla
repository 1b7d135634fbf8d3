------------------------------- MODULE AgentRun -------------------------------
(***************************************************************************)
(* One diagnosis run of the agent (agent/graph.py: triage, investigate,    *)
(* hypothesize, verify, report), its calls of the model through the        *)
(* adapter (agent/llm.py), the mutations it asks for (agent/tools.py) and  *)
(* the operators that decide on them (api/routes/diagnoses.py).  What the  *)
(* model answers, what its calls cost and which tools it names are open;   *)
(* so is where the run fails.                                              *)
(***************************************************************************)
EXTENDS Integers

CONSTANTS
    Operators,                  \* approve or reject requests served at a time
    Actions,                    \* agent_actions rows the run may create
    MaxCallCost,                \* the most one model call costs
    MaxBlocks,                  \* bound: tool uses in one answer of the model
    MAX_COST_USD_PER_RUN,
    MAX_INVESTIGATE_TOOL_CALLS,
    MAX_VERIFY_TOOL_CALLS,      \* max_calls=2 in verify_node
    RETRY_MAX,                  \* retries of a rate-limited model call
    None

ASSUME RunAssumption ==
    /\ MaxCallCost \in Nat
    /\ MaxBlocks \in Nat
    /\ MAX_COST_USD_PER_RUN \in Nat \ {0}
    /\ MAX_INVESTIGATE_TOOL_CALLS \in Nat \ {0}
    /\ MAX_VERIFY_TOOL_CALLS \in Nat \ {0}
    /\ RETRY_MAX \in Nat
    /\ None \notin Actions

VARIABLES
    node,       \* where the run is
    calls,      \* tool calls of the current loop
    todo,       \* tool uses of the last answer not dispatched yet
    attempt,    \* rate-limited attempts of the model call under way
    cost,
    verified,
    result,     \* confidence report_node arrived at
    diagnosis,  \* the diagnoses row: root cause known or not, and confidence
    status,     \* agent_actions.status
    op,         \* the operators' requests
    \* History, read only by the properties
    executed,   \* how often each action took effect
    contended   \* actions two requests had read as pending at the same time

run  == <<node, calls, todo, attempt, cost, verified, result, diagnosis>>
desk == <<status, op, executed, contended>>
vars == <<node, calls, todo, attempt, cost, verified, result, diagnosis,
          status, op, executed, contended>>

Absent  == [cause |-> "absent", confidence |-> "low"]
Stub    == [cause |-> "agent_error", confidence |-> "low"]
Nobody  == [pc |-> "idle", action |-> None, verdict |-> "approved"]

Init ==
    /\ node = "idle"
    /\ calls = 0
    /\ todo = 0
    /\ attempt = 0
    /\ cost = 0
    /\ verified = FALSE
    /\ result = Absent
    /\ diagnosis = Absent
    /\ status = [a \in Actions |-> "absent"]
    /\ op = [o \in Operators |-> Nobody]
    /\ executed = [a \in Actions |-> 0]
    /\ contended = {}

-----------------------------------------------------------------------------
CallingNodes == {"triage", "investigate", "hypothesize", "verify", "report"}

over_budget == cost >= MAX_COST_USD_PER_RUN

\* _call_model and _Messages.create, when the provider answers: its tokens are
\* paid for.
CallModel(k) == cost' = cost + k /\ attempt' = 0

\* _Messages.create, when the provider does not: a rate limit is retried after
\* a delay up to RETRY_MAX times; beyond that, or on any other error, it
\* raises (Fail).
RateLimited ==
    /\ node \in CallingNodes /\ todo = 0
    /\ attempt < RETRY_MAX
    /\ attempt' = attempt + 1
    /\ UNCHANGED <<node, calls, todo, cost, verified, result, diagnosis, desk>>

\* Mutant of PersistStub: the row is left to the end of the run.
PersistNothing ==
    /\ node = "idle"
    /\ node' = "client"
    /\ UNCHANGED <<calls, todo, attempt, cost, verified, result, diagnosis, desk>>

\* run_diagnosis commits the stub before anything that can fail.
PersistStub ==
    /\ node = "idle"
    /\ diagnosis' = Stub
    /\ node' = "client"
    /\ UNCHANGED <<calls, todo, attempt, cost, verified, result, desk>>

\* get_llm; a missing provider or key raises (Fail).
BuildClient ==
    /\ node = "client"
    /\ node' = "triage"
    /\ UNCHANGED <<calls, todo, attempt, cost, verified, result, diagnosis, desk>>

triage_node(k) ==
    /\ node = "triage"
    /\ CallModel(k)
    /\ node' = "investigate"
    /\ UNCHANGED <<calls, todo, verified, result, diagnosis, desk>>

\* The two nodes that run _run_tool_loop, their caps and what follows them.
LoopNodes == {"investigate", "verify"}
MaxCalls == IF node = "investigate" THEN MAX_INVESTIGATE_TOOL_CALLS
                                    ELSE MAX_VERIFY_TOOL_CALLS
LeaveLoop == /\ node' = IF node = "investigate" THEN "hypothesize" ELSE "report"
             /\ calls' = 0

\* Mutant of LoopGoesOn: the loop does not look at the budget.
LoopIgnoresBudget == calls < MaxCalls
LoopGoesOn == calls < MaxCalls /\ ~over_budget

\* _run_tool_loop: one more answer, with n tool uses; none ends the loop.
LoopAsk(k, n) ==
    /\ node \in LoopNodes
    /\ todo = 0
    /\ LoopGoesOn
    /\ CallModel(k)
    /\ todo' = n
    /\ IF n = 0 THEN LeaveLoop ELSE UNCHANGED <<node, calls>>
    /\ UNCHANGED <<verified, result, diagnosis, desk>>

\* Mutant of Dispatch: the call is not counted.
DispatchUncounted(live) ==
    /\ node \in LoopNodes /\ todo > 0
    /\ todo' = todo - 1
    /\ verified' = (verified \/ live)
    /\ UNCHANGED <<node, calls, attempt, cost, result, diagnosis, desk>>

(***************************************************************************)
(* tools.dispatch of one tool use.  The name is the model's: it need not   *)
(* be one of the tools the node offered.  An error becomes a result, and   *)
(* the verified flag only looks at the name: live says that it is one of   *)
(* VERIFICATION_TOOLS, in whichever node and whatever it returned.         *)
(***************************************************************************)
Dispatch(live) ==
    /\ node \in LoopNodes /\ todo > 0
    /\ todo' = todo - 1
    /\ calls' = calls + 1
    /\ verified' = (verified \/ live)
    /\ UNCHANGED <<node, attempt, cost, result, diagnosis, desk>>

\* request_mutation: dispatch of a mutating tool records a pending action.
RequestMutation(a) ==
    /\ node \in LoopNodes /\ todo > 0
    /\ status[a] = "absent"
    /\ status' = [status EXCEPT ![a] = "pending"]
    /\ todo' = todo - 1
    /\ calls' = calls + 1
    /\ UNCHANGED <<node, attempt, cost, verified, result, diagnosis, op,
                   executed, contended>>

\* Mutant of LoopWrapUp: the rest of the answer's tool uses is skipped.
LoopWrapUpEarly(k) ==
    /\ node \in LoopNodes
    /\ ~LoopGoesOn
    /\ CallModel(k)
    /\ LeaveLoop
    /\ UNCHANGED <<todo, verified, result, diagnosis, desk>>

\* The wrap-up call when the budget or the cap ended the loop.
LoopWrapUp(k) ==
    /\ node \in LoopNodes
    /\ todo = 0
    /\ ~LoopGoesOn
    /\ CallModel(k)
    /\ LeaveLoop
    /\ UNCHANGED <<todo, verified, result, diagnosis, desk>>

hypothesize_node(k) ==
    /\ node = "hypothesize"
    /\ CallModel(k)
    /\ node' = "verify"
    /\ UNCHANGED <<calls, todo, verified, result, diagnosis, desk>>

\* report_node: unverified means low, whatever the model asserted.
Downgraded(confidence) == IF verified THEN confidence ELSE "low"

\* report_node: a submission, or none.
report_node(k, submitted, confidence) ==
    /\ node = "report"
    /\ CallModel(k)
    /\ result' = IF submitted
                 THEN [cause |-> "found", confidence |-> Downgraded(confidence)]
                 ELSE Stub
    /\ node' = "persist"
    /\ UNCHANGED <<calls, todo, verified, diagnosis, desk>>

\* _persist_result.
PersistResult ==
    /\ node = "persist"
    /\ diagnosis' = result
    /\ node' = "done"
    /\ UNCHANGED <<calls, todo, attempt, cost, verified, result, desk>>

\* An exception anywhere in the run, or the death of the agent process.
Fail ==
    /\ node \notin {"idle", "done", "failed"}
    /\ node' = "failed"
    /\ UNCHANGED <<calls, todo, attempt, cost, verified, result, diagnosis, desk>>

-----------------------------------------------------------------------------
\* Mutant of Fetch: the status is not looked at.
FetchAny(o, a, verdict) ==
    /\ op[o].pc = "idle"
    /\ status[a] # "absent"
    /\ op' = [op EXCEPT ![o] = [pc |-> "commit", action |-> a, verdict |-> verdict]]
    /\ contended' = IF \E p \in Operators \ {o} : op[p].action = a
                    THEN contended \cup {a} ELSE contended
    /\ UNCHANGED <<run, status, executed>>

\* approve_action and reject_action up to their check; 409 changes nothing.
Fetch(o, a, verdict) ==
    /\ op[o].pc = "idle"
    /\ status[a] = "pending"
    /\ op' = [op EXCEPT ![o] = [pc |-> "commit", action |-> a, verdict |-> verdict]]
    /\ contended' = IF \E p \in Operators \ {o} : op[p].action = a
                    THEN contended \cup {a} ELSE contended
    /\ UNCHANGED <<run, status, executed>>

\* Their commit, which writes by primary key; approving executes the action.
Commit(o) ==
    LET a == op[o].action
    IN  /\ op[o].pc = "commit"
        /\ status' = [status EXCEPT ![a] = op[o].verdict]
        /\ executed' = IF op[o].verdict = "approved"
                       THEN [executed EXCEPT ![a] = @ + 1] ELSE executed
        /\ op' = [op EXCEPT ![o] = Nobody]
        /\ UNCHANGED <<run, contended>>

\* A step of the agent process.
Proceed ==
    \/ PersistStub
    \/ BuildClient
    \/ RateLimited
    \/ \E k \in 0..MaxCallCost :
          \/ triage_node(k)
          \/ \E n \in 0..MaxBlocks : LoopAsk(k, n)
          \/ LoopWrapUp(k)
          \/ hypothesize_node(k)
          \/ \E submitted \in BOOLEAN, confidence \in {"low", "high"} :
                report_node(k, submitted, confidence)
    \/ \E live \in BOOLEAN : Dispatch(live)
    \/ \E a \in Actions : RequestMutation(a)
    \/ PersistResult

Next ==
    \/ Proceed
    \/ Fail
    \/ \E o \in Operators, a \in Actions, verdict \in {"approved", "rejected"} :
          Fetch(o, a, verdict)
    \/ \E o \in Operators : Commit(o)

Spec == Init /\ [][Next]_vars

\* The agent process keeps running, and a model call ends, in an answer or an error.
FairSpec == Spec /\ WF_vars(Proceed)

-----------------------------------------------------------------------------
Diagnosis == [cause : {"absent", "agent_error", "found"},
              confidence : {"low", "high"}]
Nodes == {"idle", "client", "triage", "investigate", "hypothesize", "verify", "report",
          "persist", "done", "failed"}

(***************************************************************************)
(* TypeOK: types; tool uses are only left to dispatch inside a tool loop,  *)
(* or where the run failed in one.                                         *)
(***************************************************************************)
TypeOK ==
    /\ node \in Nodes
    /\ calls \in Nat
    /\ todo \in 0..MaxBlocks
    /\ todo > 0 => node \in LoopNodes \cup {"failed"}
    /\ attempt \in 0..RETRY_MAX
    /\ cost \in Nat
    /\ verified \in BOOLEAN
    /\ result \in Diagnosis /\ diagnosis \in Diagnosis
    /\ status \in [Actions -> {"absent", "pending", "approved", "rejected"}]
    /\ op \in [Operators -> [pc : {"idle", "commit"}, action : Actions \cup {None},
                             verdict : {"approved", "rejected"}]]
    /\ executed \in [Actions -> Nat]
    /\ contended \subseteq Actions

(***************************************************************************)
(* CostBounded: the cap is overshot by less than five calls: the one that  *)
(* crosses it, the two wrap-ups, the hypothesis and the report, whatever   *)
(* the model answers (graph.py, the cap "stops a runaway loop").           *)
(***************************************************************************)
CostBounded == cost < MAX_COST_USD_PER_RUN + 5 * MaxCallCost

(***************************************************************************)
(* HonestRecord: from the stub on, the diagnoses row says agent_error and  *)
(* low unless the run reached its end, wherever it fails or is killed      *)
(* (run_diagnosis, "any failure from here on leaves an honest record").    *)
(***************************************************************************)
HonestRecord == node \notin {"idle", "done"} => diagnosis = Stub

(***************************************************************************)
(* DecidedOnce: an action takes effect once if it is approved and never if *)
(* it is rejected (diagnoses.py, 409 "already_decided"), unless two        *)
(* requests read it as pending before either committed: the check and the  *)
(* commit are not one step.                                                *)
(***************************************************************************)
DecidedOnce ==
    \A a \in Actions \ contended :
        executed[a] = IF status[a] = "approved" THEN 1 ELSE 0

(***************************************************************************)
(* RunEnds: every run ends, also on a free tier where the budget never     *)
(* binds, with a model that never stops calling tools and a provider that  *)
(* never stops limiting the rate (llm.py, "retry a couple of times before  *)
(* giving up").                                                            *)
(***************************************************************************)
RunEnds == (node = "client") ~> (node \in {"done", "failed"})
=============================================================================
