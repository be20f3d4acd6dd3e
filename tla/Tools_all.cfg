SPECIFICATION Spec
INVARIANTS   CoverageIsTrue  
\* Every tool ends at the end of its input.
CHECK_DEADLOCK FALSE
