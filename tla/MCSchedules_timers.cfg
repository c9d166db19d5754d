SPECIFICATION FairSpec
CONSTANTS
    t1 = t1
    t2 = t2
    t3 = t3
    heater = heater
    filter = filter
    lamp = lamp
    bubbles = bubbles
    Timers = {t1, t2}
    Switches = {heater, filter, lamp, bubbles}
    TimedActions = {heater, filter, bubbles}
    Supported = {heater, filter, lamp}
    Hours = {1, 2, 6}
    MaxHours = 4
    TickLength = 3
    SubmitMax = 2
    MaxTracked = 1
INVARIANTS
    TypeOK
    OneArmedPerSwitch
    FiredAtMostOnce
PROPERTIES
    ArmedNeverForgotten
    FiresInTime
    ArmedSettles
