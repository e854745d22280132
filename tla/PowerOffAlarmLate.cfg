SPECIFICATION Spec
CONSTANTS
    Sec = 2
    MaxTime = 20
    Alarms = {6, 8}
    Lead = 4
    MinPre = 1
    ErrSecs = 2
    Slack = 2
CHECK_DEADLOCK FALSE
PROPERTIES
    AlarmIsHeeded
