SPECIFICATION EnvelopeSpec
CONSTANTS
    Ticks = {t1}
    Plans = {"pro"}
    Allotment <- MCAllotment
    TrialPlan = "pro"
    MaxPeriod = 1  MaxDebits = 1  MaxGrants = 1  MaxFaults = 2
CHECK_DEADLOCK FALSE
INVARIANTS LedgerIsBalance TierNeverAccumulates
PROPERTIES EnvelopeWasHeld ResetLands
