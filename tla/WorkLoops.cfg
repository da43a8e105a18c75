\* Three slices, three attempts each, a host that may die at any point.
SPECIFICATION HostSpec
CONSTANTS
    early = early
    waiting = waiting
    late = late
    Slice = {early, waiting, late}
    Place <- Places
    DependsOn <- Dependencies
    Outcomes <- SomeOutcomes
    MaxAttempts = 3
    Idle = Idle
CHECK_DEADLOCK FALSE
INVARIANTS
    DoneLoopHasDoneSlices
    DependenciesComeFirst
    OneSliceRuns
    DoneLoopPassesTheGate
    DoneIsReviewed
    ActiveLoopCanGoOn
PROPERTIES
    OnlyTheRunInFlightRevives
