------------------------- MODULE MCThreadListeners -------------------------
\* The instance of ThreadListeners that is checked: visits with a leave and an
\* abandon or with a new session, and fewer of them with a second loss.
EXTENDS ThreadListeners

CONSTANTS o1, o2, lv, ab, cn

FewAndMany ==
  { [cast |-> {o1, o2, lv, ab}, breaks |-> 1], [cast |-> {o1, o2, cn}, breaks |-> 1],
    [cast |-> {o1, lv}, breaks |-> 2], [cast |-> {o1, ab}, breaks |-> 2] }
=============================================================================
