--------------------------- MODULE MCFollowUpQueue ---------------------------
\* The instance of FollowUpQueue that is checked: two messages with text and one
\* without, two taps and a deletion, in the combinations that meet; a turn for
\* every message of a combination and one that was there.
EXTENDS FollowUpQueue

CONSTANTS m1, m2, b1, k1, k2

Met ==
  {[cast |-> {m1, b1, k1, k2}, failing |-> FALSE],
   [cast |-> {m1, m2, k1}, failing |-> FALSE],
   [cast |-> {m1, b1}, failing |-> TRUE],
   [cast |-> {m1, m2, Deleter}, failing |-> FALSE],
   [cast |-> {m1, k1, k2, Deleter}, failing |-> TRUE]}

ASSUME TurnsSuffice == \A s \in Met : MaxTurns > Cardinality(s.cast \cap Messages)
=============================================================================
