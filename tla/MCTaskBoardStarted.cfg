SPECIFICATION FairSpec
CONSTANTS
    first = first
    second = second
    gpt = gpt
    coder = coder
    BeyondRace = FALSE
    Tasks = {first, second}
    DependsOn <- AfterFirst
    Cards = {gpt}
    Agents = {coder}
    Human = Human
    Qualified <- AnyCard
    MaxAttempts = 2
    Limits = {1}
    AgentLimit = 2
    Processes = {c1, c2}
    Chats = {c1, c2}
    Slots = {1}
    Asked = {first}
    Earlier <- Sessions
    MaxLog = 3
    MaxCrashes = 1
    MaxTorn = 0
    NoOne = NoOne
    NoChat = NoChat
    Idle = Idle
PROPERTIES
    StartedAttemptsEnd
CHECK_DEADLOCK FALSE
