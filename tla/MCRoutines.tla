----------------------------- MODULE MCRoutines -----------------------------
\* Instances of Routines for TLC.
EXTENDS Routines

Daily    == [kind |-> "calendar", every |-> 3]
Often    == [kind |-> "interval", every |-> 2]
SomeSchedules == {Daily, Often}

=============================================================================
