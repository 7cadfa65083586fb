SPECIFICATION MCSpec
CONSTANTS
    N = 4
    PilotMinimum = 2
    MaxFaults = 1
INVARIANTS TypeOK GateHeld CancelledUntouched CompletedIsOver
PROPERTIES HaltIsFinal TasksEnd
