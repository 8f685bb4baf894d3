SPECIFICATION Spec
CONSTANTS
    Cpu = {740, 750}
    Battery <- MCBattery
    Thermal = {749, 750, 849, 850}
    cpu_high_percent = 750
    battery_low_percent = 200
    battery_critical_percent = 100
    thermal_high_celsius = 750
    thermal_critical_celsius = 850
    thermal_recovery_cycles = 3
CHECK_DEADLOCK FALSE
INVARIANTS
    DowngradeIsHeld
    SubscribersKnowSleep
