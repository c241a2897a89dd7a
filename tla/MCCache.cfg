SPECIFICATION CacheSpec
CONSTANTS
    Browser = {b1, b2}
    MaxChanges = 2
    CacheCap = 1
INVARIANTS TimerOrGeneration NotModifiedIsTrue
PROPERTIES EventuallyFresh
