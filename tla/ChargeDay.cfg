\* Three key actions, or two and a deletion, on one product: racing, refused,
\* failing and refunded around a midnight that also turns the month.
SPECIFICATION Spec
CONSTANTS
    Calls <- ThreeCalls
    Product <- OneProduct
    Limit = 2
    Days <- TwoDays
    Month <- MonthOf
    Envs <- AllEnvs
    Faults = FALSE
    Crashes = TRUE
    None = None
CHECK_DEADLOCK FALSE
INVARIANTS LimitIsCeiling OneDebitPerDay RefusalLeavesNoTrace
