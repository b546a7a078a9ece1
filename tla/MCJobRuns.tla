----------------------------- MODULE MCJobRuns -----------------------------
\* Instances of JobRuns for TLC.
EXTENDS JobRuns, TLC

\* Formulate and Execute, with and without a prepared Research phase.
ShortPlan    == <<"formulate", "execute">>
ResearchPlan == <<"research", "formulate", "execute">>
BothPlans    == {ShortPlan, ResearchPlan}

Symmetry == Permutations(Workers)

=============================================================================
