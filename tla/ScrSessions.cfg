\* Three sessions: one may write, one read and one wait for both; one component.
SPECIFICATION Spec
CONSTANTS
    s1 = s1
    s2 = s2
    s3 = s3
    c1 = c1
    Sessions = {s1, s2, s3}
    Components = {c1}
    NoSession = NoSession
SYMMETRY SessionSymmetry
CONSTRAINT WholeSoFar
INVARIANTS
    WholeOnDisk
    OnlyOwnerWrites
PROPERTIES
    TransactionHides
    OrphanNeverLands
