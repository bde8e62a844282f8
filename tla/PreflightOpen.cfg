SPECIFICATION Spec
CONSTANTS
    Readers = {r1}
    MaxMoves = 0
\* One of these at a time; each is refuted.
INVARIANT EndedShowsNone
\* INVARIANT AllSixMeasured
\* INVARIANT BadgesAgree
\* INVARIANT NoAddressAtRest
\* INVARIANT DoctorMeasures
CHECK_DEADLOCK FALSE
