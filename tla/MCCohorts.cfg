SPECIFICATION Spec
CONSTANTS
    LastDay = 4
    Age = 1
    Lookback = 2
    MaxRuns = 2
    MaxEdits = 1
    Earning = {1}
    MinDays = 1
    MinSpend = 1
    MinInstalls = 1
    HalfDays = 1
    BaselineDays = 2
    MinBaseline = 1
    MinMove = 1
    Reports <- MCReports
    Bodies <- MCBodies
    AppCurrency = "USD"
    MaxWindow = 2
    Circumstances <- MCCircumstances

    
    
PROPERTIES
    StoredStays
CHECK_DEADLOCK FALSE
