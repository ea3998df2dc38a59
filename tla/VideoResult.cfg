CONSTANTS
    Uploads = {up1}
    MaxVideos = 2
    Requests = {r1}
    Calls = {c1}
    Faults = {}
SPECIFICATION Spec
PROPERTIES TranscodeResultKept
