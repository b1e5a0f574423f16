CONSTANTS
    b1 = b1
    b2 = b2
    b3 = b3
    b4 = b4
    Buckets = {b1, b2, b3}
    NoName = NoName
    Absent = Absent
    InfraName = InfraName
    OtherInfra = OtherInfra
    TheirBuckets = {}
    MaxFaults = 2
SPECIFICATION FairSpec
PROPERTIES Converges
