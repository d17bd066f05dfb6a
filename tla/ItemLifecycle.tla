--------------------------- MODULE ItemLifecycle ---------------------------
(***************************************************************************)
(* What the live plan promises about one item at a time: the contract of   *)
(* is_valid_item_transition in item_result.hpp, with the two things the    *)
(* contract leaves to its comments.  A pending item may be edited out of   *)
(* the plan, and a Parked item whose copy is complete (it only waits for   *)
(* its source to be removed) never becomes transfer work again.            *)
(***************************************************************************)
CONSTANT Item

VARIABLE state

\* A parked item is "Parked" while its transfer may be retried and "Copied"
\* once only the removal of its source is left.
Terminal == {"Succeeded", "Skipped", "Failed", "CopiedSourceRetained"}
ItemState == {"Absent", "Pending", "Active", "Parked", "Copied", "Removed"} \cup Terminal

\* is_valid_item_transition, the plan edit and the entry into the plan.
Successors(s) ==
    CASE s = "Absent"  -> {"Pending", "Copied"}
      [] s = "Pending" -> {"Active", "Removed"} \cup Terminal
      [] s = "Active"  -> {"Pending", "Parked", "Copied"} \cup Terminal
      [] s = "Parked"  -> {"Pending"} \cup Terminal
      [] s = "Copied"  -> Terminal
      [] OTHER         -> {}

Init == state \in [Item -> {"Absent", "Pending"}]

\* One call may move several items (an append, an edit, a failed directory).
Step ==
    /\ state' \in [Item -> ItemState]
    /\ \A i \in Item : state'[i] # state[i] => state'[i] \in Successors(state[i])

Spec == Init /\ [][Step]_state
=============================================================================
