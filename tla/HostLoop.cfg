SPECIFICATION Spec
CONSTANTS
    Pictures = {"A", "B"}
    ColorOf <- MCColorOf
    Charge <- MCPart
    Discharge <- MCPart
    InnerInterval = 2
    Bytes06 = {0, 56}
    Bytes0B = {0, 1}
    Bytes0C = {0, 1}
    Clocks = {0, 7}
    Backlog = 3
    JumpAbove = 30
    IdleAbove = 6
    Nap = 2
    MaxPass = 4
    Jumps <- MCJumps
INVARIANTS RegistersObeyed BurstBounded ResumeSyncs
PROPERTIES ScreenFollows
