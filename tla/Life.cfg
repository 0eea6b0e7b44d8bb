\* Two starts of up to two loops, two event pools, all habits.
CONSTANTS
    MaxWorkers = 2
    EpfdSlots = 32
    MaxStarts = 2
    Pools <- TwoPools
    Habits <- AllHabits
SPECIFICATION LifeSpec
INVARIANTS StoppedMeansEnded LoopHasEpfd PoolWalkSafe
PROPERTIES StopEnds
CHECK_DEADLOCK FALSE
