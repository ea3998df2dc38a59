CONSTANTS
    Uploads = {up1}
    MaxVideos = 2
    Requests = {r1, r2}
    Calls = {c1}
    Faults = {"db", "precreate", "kafka", "crash"}
SPECIFICATION Spec
INVARIANTS TypeOK
PROPERTIES ReleaseSpec
