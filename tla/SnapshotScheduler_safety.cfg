CONSTANTS
    Debounce = 1
    MaxWait = 3
    MinInterval = 2
    MaxTime = 9
    MaxTasks = 2
SPECIFICATION SchedulerSpec
INVARIANTS NoForgottenChange FreshWithinMaxWait
PROPERTY FiresApart
CHECK_DEADLOCK FALSE
