----------------------------- MODULE GraphContract -----------------------------
(***************************************************************************)
(* What the contract of the WholeFieldPlannerGraph promises of a run: the  *)
(* run walks from node to node along the edges of DEFAULT_EDGE_CONTRACTS   *)
(* (runtime/graph_contracts.py), by the verdict of each node, keeps the    *)
(* first verdict that is not success, and ends in the terminal node.       *)
(*                                                                         *)
(* The runner never consults the edge map; RuntimeGraph shows that it      *)
(* follows it.                                                             *)
(***************************************************************************)

GraphNodeIds == {"packet_intake", "readiness_guard", "coordination_guard",
                 "operator_contract_select", "operator_invocation", "trace_recording",
                 "completion_gate", "sop_first_interrupt", "terminal_outcome"}

TerminalOutcomes == {"terminal_success", "terminal_blocked", "terminal_stale",
                     "terminal_fault", "terminal_interrupt"}
Refusals == TerminalOutcomes \ {"terminal_success"}

\* The node that follows when a node succeeds.
SuccessEdges ==
    {<<"packet_intake", "readiness_guard">>,
     <<"readiness_guard", "coordination_guard">>,
     <<"coordination_guard", "operator_contract_select">>,
     <<"operator_contract_select", "operator_invocation">>,
     <<"operator_invocation", "trace_recording">>,
     <<"trace_recording", "completion_gate">>,
     <<"completion_gate", "terminal_outcome">>}   \* labelled open_next_slice

\* The node that follows when it does not: the operator's verdict, which is
\* never stale, goes through trace recording.
RefusalEdges ==
    ({"packet_intake", "readiness_guard", "coordination_guard", "operator_contract_select",
      "trace_recording", "completion_gate"} \X Refusals \X {"terminal_outcome"})
    \cup ({"operator_invocation"} \X (Refusals \ {"terminal_stale"}) \X {"trace_recording"})

VARIABLES node,      \* the node the run is at, or "start"
          verdict    \* the verdict so far

vars == <<node, verdict>>

Init == node = "start" /\ verdict = "terminal_success"

Enter == /\ node = "start"
         /\ node' = "packet_intake"
         /\ verdict' \in TerminalOutcomes

\* The checkpoint, which is checked after the packet, is refused.
Reject == /\ node = "packet_intake"
          /\ verdict = "terminal_success"
          /\ verdict' \in Refusals
          /\ UNCHANGED node

FollowSuccess == /\ verdict = "terminal_success"
                 /\ <<node, node'>> \in SuccessEdges
                 /\ node' \in GraphNodeIds
                 /\ IF node' = "terminal_outcome" THEN UNCHANGED verdict
                    ELSE verdict' \in TerminalOutcomes

FollowRefusal == /\ node' \in GraphNodeIds
                 /\ <<node, verdict, node'>> \in RefusalEdges
                 /\ UNCHANGED verdict

Next == Enter \/ Reject \/ FollowSuccess \/ FollowRefusal

Spec == Init /\ [][Next]_vars
=============================================================================
