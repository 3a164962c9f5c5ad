--------------------------- MODULE MCIpcReconnect ---------------------------
\* The instance of IpcReconnect that is checked.  The loop by itself, with a policy that
\* has a limit and one that has none: a connection each for the client at the start, a
\* recycling and a handshake that failed; a handler that is set across a recycling; a
\* call whose connection is lost, stalled or cut; and one beside a peer that asks.
EXTENDS IpcReconnect

Case(limit, cast, opens, faults) ==
  [max_attempts |-> limit, cast |-> cast, opens |-> opens, faults |-> faults]

Cases ==
  { Case(0, {}, 3, {"gone"}),
    Case(2, {}, 3, {"gone"}),
    Case(0, Setters, 2, {"gone"}),
    Case(0, Requests, 2, {"gone", "stalled", "cut"}),
    Case(0, Requests \cup {Finder}, 1, {"gone", "stalled", "cut"}) }
=============================================================================
