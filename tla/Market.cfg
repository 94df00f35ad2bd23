CONSTANTS
    Exercised = {"recorder", "symbol", "breaks", "ladder", "alert", "trailing"}
    TickPrices = {1, 2}
    Ticks = 2
    Remembered = 2
    MaxTicks = 6
    WriteFaults = 1
    RecorderDeaths = 1
    Nothing = Nothing
    Premiums = {88, 101, 109, 113, 122, 131, 140}
    Floors = {0, 20}
    Entry = 100
    FirstStop = 90
    Target = 130
    MaxResets = 1
SPECIFICATION AllSpec
INVARIANTS CandlesAreKept
PROPERTIES AlertsAreEarned TrailingProtects
CHECK_DEADLOCK FALSE
