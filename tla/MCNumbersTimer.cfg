CONSTANTS
    Half = 10
    Delay = 2
    MaxHold = 5
    MaxAge = 9
    debounce_ms = 4
    long_press_ms = 9
    Bounce = 1
    Gap = 2
    MaxClosed = 12
    Clocks <- DividedClocks
    Configs <- AllConfigs
    RegCounts <- SomeCounts
    Addresses <- SomeAddresses
    Counts <- EdgeCounts
    ByteCounts <- EdgeBytes
    Lengths <- EdgeLengths
    Messages <- TwoMessages
    Burst = 7
SPECIFICATION MCSpec
INVARIANT OneTickIsOneUs
