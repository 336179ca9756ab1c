---------------------------- MODULE MCRecurrence ----------------------------
\* Instances of Recurrence for TLC.
EXTENDS Recurrence, TLC

ScanOnly == {"scan"}
OneOrder == {1}

=============================================================================
