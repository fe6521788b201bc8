\* The process may be restarted at any time.
CONSTANTS
    CounterSpace = 3
    Dates = {1, 2, 3, 5}
    MaxIds = 3
SPECIFICATION Spec
INVARIANT NeverReissued
