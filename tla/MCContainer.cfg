SPECIFICATION ConSpec
CONSTANTS
    Coordinator = {c1, c2}
    Channel = {stable, nightly}
    Slot = {1, 2}
    Limit = 2
INVARIANTS LiveContainersAccounted
PROPERTIES ContainersEnd CallsReturn
