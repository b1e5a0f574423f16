CONSTANTS
    Buckets = {b1, b2, b3}
    NoName = NoName
    InfraName = InfraName
    OtherInfra = OtherInfra
SPECIFICATION Spec
INVARIANTS LoopComputesClosedForm
CHECK_DEADLOCK FALSE
