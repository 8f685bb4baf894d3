SPECIFICATION GovernorFairSpec
CONSTANTS
    g1 = g1
    g2 = g2
    j1 = j1
    Loops = {g1, g2}
    Jobs = {j1}
    Setups <- MCSetups
PROPERTIES
    UnloadRespectsActive
    NoUpgradeUnderPressure
    PressureSheds
    CalmRestores
    DeviceSignalsArrive
