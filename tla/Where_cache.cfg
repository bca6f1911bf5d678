SPECIFICATION Spec
CONSTANTS
 Null = Null
 Capacity = 1
INVARIANT CacheSelectsOwnRows
