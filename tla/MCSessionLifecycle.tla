------------------------ MODULE MCSessionLifecycle ------------------------
\* Small sets of overlapping calls on one server id.
EXTENDS SessionLifecycle, ReconnectPlan

\* Calls that share the gate beside an ungated restart; connects that have none.
GatedAndMixed == {Alleycat \cup Disconnects \cup Restarts,
                  Slingshot \cup Ssh \cup Guided,
                  Plain \cup Bridges \cup Disconnects}

\* No port, one, two out of order, and a zero that counts for none.
SmallPortLists == {<<>>, <<1>>, <<2, 1>>, <<0>>}

\* The plans of all records over these ports, before the calls begin.
ASSUME PlansAssumption == PlanIsTheUsers
=============================================================================
