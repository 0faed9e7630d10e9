CONSTANTS
    Penders = {p1}
    InitValue = 0
    MaxValue = 128
    Modulus = 1024
SPECIFICATION FairSpec
INVARIANT NoMissedPost
PROPERTY IsCountingSemaphore
PROPERTY TakesOnlyWhatIsThere
