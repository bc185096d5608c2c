SPECIFICATION Spec
INVARIANTS LookupsAreRight HitsAreRight CopiesAreRight GraphsAreRight
\* A behaviour judges one input and stops.
CHECK_DEADLOCK FALSE
