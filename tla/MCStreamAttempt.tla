-------------------------- MODULE MCStreamAttempt --------------------------
\* StreamAttempt with small sets, for stream.cfg.
EXTENDS StreamAttempt
=============================================================================
