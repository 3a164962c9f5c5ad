----------------------------- MODULE MCApprovals -----------------------------
\* The instance of Approvals that is checked: two requests of server A and one of
\* server B.  All ids differ; B counts like A; or the second request of A has the id
\* of the first, after a restart.
EXTENDS Approvals

MCServerOf == [q1 |-> "A", q2 |-> "A", q3 |-> "B"]
Distinct == [q1 |-> 1, q2 |-> 2, q3 |-> 3]
Clash == [q1 |-> 1, q2 |-> 2, q3 |-> 1]
Again == [q1 |-> 1, q2 |-> 1, q3 |-> 3]
Overlap == [ids |-> Distinct, asked |-> {"q1", "q2"}, calls |-> {"c1", "c2"}, restarts |-> {}]
Restarted == [ids |-> Distinct, asked |-> {"q1", "q3"}, calls |-> {"c1"}, restarts |-> {"A"}]
SameIds == [ids |-> Clash, asked |-> {"q1", "q2", "q3"}, calls |-> {"c1"}, restarts |-> {}]
Recounted == [ids |-> Again, asked |-> {"q1", "q2", "q3"}, calls |-> {"c1"}, restarts |-> {"A"}]
MCScenarios == {Overlap, Restarted, SameIds, Recounted}
=============================================================================
