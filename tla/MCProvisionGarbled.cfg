CONSTANTS
    Buckets = {b1}
    NoName = NoName
    Absent = Absent
    Platform = "AWS"
    Kinds = {"bsl", "creds", "service", "monitor"}
    MaxFaults = 1
SPECIFICATION FairSpec
PROPERTIES ChangesPutBack
