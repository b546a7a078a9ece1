---------------------------- MODULE MCSelfUpdate ----------------------------
\* Instances of SelfUpdate for TLC.
EXTENDS SelfUpdate

\* Every branch needs something new at its revision 1; both need the old at 0.
TwoNeeds == [b \in Branches |-> [n \in Revs |-> IF n % 2 = 0 THEN "old" ELSE "new"]]

=============================================================================
