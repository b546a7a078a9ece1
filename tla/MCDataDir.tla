----------------------------- MODULE MCDataDir -----------------------------
\* Instances of DataDir for TLC.
EXTENDS DataDir

Retentions == {1, 2}

=============================================================================
