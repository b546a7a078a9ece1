----------------------------- MODULE MCCompaction -----------------------------
\* Instances of Compaction for TLC.
EXTENDS Compaction

SomeBatches == {<<"big", "view">>, <<"view", "other">>, <<"card", "other">>}
OneCard     == {<<"card">>}

=============================================================================
