SPECIFICATION Spec
CONSTANTS
    t1 = t1
    t2 = t2
    t3 = t3
    heater = heater
    filter = filter
    lamp = lamp
    bubbles = bubbles
    Timers = {t1, t2, t3}
    Switches = {heater, filter}
    TimedActions = {heater, filter}
    Supported = {heater, filter}
    Hours = {2}
    MaxHours = 4
    TickLength = 2
    SubmitMax = 1
    MaxTracked = 3
PROPERTY SettledNeverFires
