-------------------------- MODULE MCHealthDisplay --------------------------
EXTENDS HealthDisplay

CONSTANTS r1

Only(c, n, s, l, m) == [cast |-> c, sessions |-> n, ssh |-> s, losses |-> l, lags |-> m]

OneAtATime ==
  { Only({}, 1, BOOLEAN, 1, 1), Only({}, 2, BOOLEAN, 0, 0), Only({r1}, 1, {FALSE}, 1, 0),
    Only({r1}, 2, {FALSE}, 0, 0), Only({"disconnect"}, 2, {FALSE}, 0, 0),
    Only({"restart"}, 1, {TRUE}, 1, 0), Only({"restart"}, 2, {FALSE}, 0, 0) }
=============================================================================
