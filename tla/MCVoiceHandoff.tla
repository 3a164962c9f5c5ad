--------------------------- MODULE MCVoiceHandoff ---------------------------
\* The instance of VoiceHandoff that is checked: an orderly session, one whose requests
\* overlap while the snapshot lags and items come late, and one whose snapshot loses a
\* thread.
EXTENDS VoiceHandoff

InOrder == [overlap |-> FALSE, lags |-> FALSE, late |-> FALSE, hides |-> FALSE]
Overlapping == [InOrder EXCEPT !.overlap = TRUE, !.lags = TRUE, !.late = TRUE]
Losing == [InOrder EXCEPT !.hides = TRUE]
AllWorlds == {InOrder, Overlapping, Losing}
=============================================================================
