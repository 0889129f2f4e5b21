SPECIFICATION Spec
CONSTANTS
    DayLength = 6
    HourLength = 2
    MonthLength = 4
    YearLength = 2
    WeekLength = 3
    Month <- MCMonth
    DayOfMonth <- MCDayOfMonth
    DayOfWeek <- MCDayOfWeek
    Offset <- MCOffset
    DefaultZone = "local"
    MinInterval = 2
    Horizon = 79
    MaxNow = 30
    MaxSearchDays = 7
    Requests <- MCRequests
PROPERTIES ArmedForFirstMatch LocalTimeMovesOn 
CHECK_DEADLOCK FALSE
