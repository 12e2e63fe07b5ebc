\* Every transaction over value, gas, data, input and common, in every
\* number format: formatTransaction against its reference, and reformatting.
CONSTANTS
    Fields = {"value", "gas", "data", "input", "common"}
    Formats = {"hex", "number", "bigint"}
SPECIFICATION Spec
INVARIANT TypeOK
INVARIANT Retargetable
INVARIANT MatchesReference
\* One call of a pure function: the model stops once it has returned.
CHECK_DEADLOCK FALSE
