----------------------------- MODULE MCGroupAct -----------------------------
(* The controller of ManagedClusterGroupAct with specs that have actions or *)
(* views: the two share nothing but the passes, the list and the flags.     *)
EXTENDS GroupAct

CONSTANTS a1, a2

Actions(actions) == [actions |-> actions, views |-> [v \in View |-> 0]]
ViewAt(version) == [actions |-> {}, views |-> [v \in View |-> version]]

ActionsOrViews == {Actions({}), Actions({a1}), ViewAt(1)}

\* An action is added, to none or to another, or leaves; the view is added,
\* changes or leaves.
OneChange ==
    {<<Actions({}), Actions({a1})>>, <<Actions({a1}), Actions({a1, a2})>>,
     <<Actions({a1}), Actions({})>>,
     <<Actions({}), ViewAt(1)>>, <<ViewAt(1), ViewAt(2)>>, <<ViewAt(1), ViewAt(0)>>}

=============================================================================
