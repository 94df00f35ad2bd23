CONSTANTS
    Exercised = {"health", "session", "status", "jobs", "engine"}
    Nothing = Nothing
    Threshold = 2
    Recovery = 2
    StaleAfter = 2
    MaxTickFailures = 4
    Checks = {1, 2}
    Needed = 2
    MaxStreak = 4
    Callers = {"a", "b"}
    LoginCooldown = 1
    Refresh = 1
    Retries = 1
    Agents = {trading_supervisor, sys_admin}
    Orchestrated = {trading_supervisor}
    Gated = {trading_supervisor}
    Unschedulable = {}
    SysAdmin = sys_admin
    Operators = {operator}
    Cadence = 1
    Limit = 2
    FullHealth = 1
    MaxFailures = 2
    MaxFaults = 1
    MaxChanges = 0
    Forms = {f1, f2}
    SelfEnding = {f2}
    MaxJobs = 2
    ProfileIds = {p1, p2}
    Params = {"tight", "wide"}
    Defaults = "defaults"
    Requests = {r1, r2}
    Retention = 2
    MaxRows = 2
    MaxBackups = 4
    MaxDamages = 2
    Positions = {p1, p2}
    Plans <- Registered
    Ltps = {3, 16}
    Floors = {12}
    Tiers = {"CRITICAL"}
    MaxGuardFaults = 1
    ExitPrices <- Touched
    ExitStops <- Bottoms
    ExitTargets <- Ladder
    Origin <- Level
    Trigger = 2
    ExitTrails = {1}
    MaxHold = 2
    DayEnd = 3
    ArchiveDays = 3
    CandlesPerDay = 2
    ReplayCandles <- Bars
    ReplayStop <- LowStop
    ReplayTargets <- Rungs
    ReplayHold = 3
    ReplayCooldown = 2
    LogDays = 2
    CyclesPerDay = 4
    Night = 2
    ChainHold = 2
    Cap = 4
    ChainCooldown = 2
    Persistence = 2
    Hypotheses = {"h1", "h2"}
    ResearchSymbols = {"s1"}
    Sides <- Bets
    Remembered = 1
    PerSymbol = 1
    InAll = 1
    Penalties = {0, 40}
    MaxResearch = 2
    ResearchFaults = 1
    Evaluators = {"a", "b"}
    ShadowSignals <- Premiums
    ShadowSpot = 20
    ShadowLevels <- Spots
    Validity = 1
    PassLimit = 2
    MaxShadowTime = 2
    MaxPredictions = 2
    MaxTrades = 1
    Proposals = {p1}
    Humans = {h1, h2}
    NoProposal = Nothing
    Reports <- Verdicts
    MaxCommits = 2
    MaxCrashes = 1
SPECIFICATION FairSpec
PROPERTIES ItEnds
CHECK_DEADLOCK FALSE
