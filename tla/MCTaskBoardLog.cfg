SPECIFICATION Spec
CONSTANTS
    first = first
    second = second
    gpt = gpt
    coder = coder
    BeyondRace = FALSE
    Tasks = {first, second}
    DependsOn <- AfterFirst
    Cards = {gpt}
    Agents = {coder}
    Human = Human
    Qualified <- AnyCard
    MaxAttempts = 2
    Limits = {1}
    AgentLimit = 2
    Processes = {c1}
    Chats = {c1}
    Slots = {1, 2}
    Asked = {first}
    Earlier <- Sessions
    MaxLog = 4
    MaxCrashes = 0
    MaxTorn = 0
    NoOne = NoOne
    NoChat = NoChat
    Idle = Idle
INVARIANTS
    AcknowledgedIsReplayed
CHECK_DEADLOCK FALSE
