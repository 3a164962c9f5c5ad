--------------------------- MODULE MCThreadListSync ---------------------------
\* The instance of ThreadListSync that is checked: a session with two runtimes, one
\* with two threads and one with one; the poll of a session that is lost, the poll of
\* one that reconnects, a drain of all pages of some runtimes, the tool while the turns of
\* two threads change, the tool and a limited list while those of one do, and the
\* tool while a thread is made.
EXTENDS ThreadListSync

MCRuntimeOf == [t \in 1..N |-> IF t < 3 THEN "codex" ELSE "pi"]

Faulty ==
  [first |-> {1, 2}, threads |-> 1..3, passes |-> {"poll"},
   losses |-> {"disconnected"}, feed |-> 0, fails |-> 0, flaps |-> 1]
Reconnecting ==
  [first |-> {1}, threads |-> 1..2, passes |-> {"poll"},
   losses |-> {"connecting"}, feed |-> 0, fails |-> 1, flaps |-> 2]
Asked ==
  [first |-> {1}, threads |-> 1..2, passes |-> {"drain"},
   losses |-> {}, feed |-> 0, fails |-> 1, flaps |-> 0]
InTurns ==
  [first |-> {1, 2}, threads |-> 1..2, passes |-> {"tool"},
   losses |-> {}, feed |-> 1, fails |-> 0, flaps |-> 0]
Both ==
  [first |-> {1}, threads |-> {1}, passes |-> {"tool", "page"},
   losses |-> {}, feed |-> 2, fails |-> 0, flaps |-> 0]
Anew == [Both EXCEPT !.first = {}, !.passes = {"tool"}]
AllScenarios == {Faulty, Reconnecting, Asked, InTurns, Both, Anew}
=============================================================================
