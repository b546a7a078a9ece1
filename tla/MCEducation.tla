----------------------------- MODULE MCEducation -----------------------------
\* Instances of Education for TLC.
EXTENDS Education

\* A course with one step of each sort.
SomeSteps == <<"priming", "construction", "analysis">>
TwoRungs  == <<1, 3>>

=============================================================================
