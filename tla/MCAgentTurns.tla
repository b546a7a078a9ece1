---------------------------- MODULE MCAgentTurns ----------------------------
\* Instances of AgentTurns for TLC.
EXTENDS AgentTurns

\* Every kind alone, and the pairs in which one call decides what becomes of the next.
SomeBatches ==
  {<<k>> : k \in Kinds} \cup {<<"risky", "free">>, <<"ask", "risky">>, <<"hand", "risky">>, <<"risky", "risky">>}

=============================================================================
