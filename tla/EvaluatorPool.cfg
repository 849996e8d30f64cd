SPECIFICATION Spec
CONSTANTS
    Workers = {w1, w2}
    Main = main
    Panels = {candidate, baseline}
    Finalized = {baseline}
    Cases <- MCCases
    Capacity = 2
    Interval = 2
    MaxRestarts = 1
    MaxFaults = 1
    MaxTelemetryFaults = 1
    NoPanel = NoPanel
INVARIANTS TypeOK QuietOnceResolved OutcomeIsDurable
PROPERTIES EveryPanelResolves
CHECK_DEADLOCK FALSE
