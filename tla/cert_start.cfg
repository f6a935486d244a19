SPECIFICATION CertSpec
CONSTANT MaxVersion = 1
INVARIANT ReloadedOnChange
CHECK_DEADLOCK FALSE
