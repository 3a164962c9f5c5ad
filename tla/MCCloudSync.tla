----------------------------- MODULE MCCloudSync -----------------------------
\* The instance of CloudSync that is checked: two edits with nothing that goes
\* wrong, one with late uploads and a restart, and one with clocks that differ.
EXTENDS CloudSync

FaultlessAndFaults ==
  {[offline |-> FALSE, skewed |-> FALSE, edits |-> 2, restarts |-> 0, clock |-> 8],
   [offline |-> TRUE,  skewed |-> FALSE, edits |-> 1, restarts |-> 1, clock |-> 4],
   [offline |-> FALSE, skewed |-> TRUE,  edits |-> 1, restarts |-> 0, clock |-> 2]}
=============================================================================
