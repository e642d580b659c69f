SPECIFICATION FairSpec
CONSTANTS
    first = first
    second = second
    gpt = gpt
    coder = coder
    BeyondRace = FALSE
    Tasks = {first, second}
    DependsOn <- AfterFirst
    Cards = {gpt}
    Agents = {coder}
    Human = Human
    Qualified <- AnyCard
    MaxAttempts = 2
    Limits = {1}
    AgentLimit = 2
    Processes = {c1, c2}
    Chats = {c1, c2}
    Slots = {1}
    Asked = {first}
    Earlier <- Sessions
    MaxLog = 7
    MaxCrashes = 1
    MaxTorn = 0
    NoOne = NoOne
    NoChat = NoChat
    Idle = Idle
INVARIANTS
    LoadMatchesStatus
    WorkIsEarned
    OneWriterOnFile
PROPERTIES
    HistoryIsFinal
    AttemptsEnd
CHECK_DEADLOCK FALSE
