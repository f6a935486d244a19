SPECIFICATION CertLiveSpec
CONSTANT MaxVersion = 2
INVARIANTS
    ServesKeyPair
    CurrentAtRest
PROPERTIES
    NeverOlder
    RotationServed
CHECK_DEADLOCK FALSE
