\* Both streams, either side running inside calls of the other.
CONSTANTS
    LENGTH = 4
    StreamLength = 9
    Preempts <- Either
SPECIFICATION Spec
\* The writer stops after StreamLength bytes.
CHECK_DEADLOCK FALSE
INVARIANTS
    TypeOK
    CopiesDisjoint
    FrontInFreeSpace
PROPERTIES ImplementsByteStream
