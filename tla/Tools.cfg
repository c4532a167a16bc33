SPECIFICATION Spec
CONSTANTS a1 = a1 a2 = a2 b1 = b1 b2 = b2 nobody = nobody
    Starts = {a1, a2} Stops = {"stop"} Invokes = {"call"}
    Jobs = {a1, a2} Principals = {b1, b2} Kills = {"kill"} Buffer = 1 MaxBytes = 1
    Followed = {a1} FollowedBuffer = 2 FollowedBytes = 5
    Runs = {a1, a2} Boxes = {1, 2, 3} Backend = "docker"
    BrowserTypes = {"chromium", "firefox"} Gets = {a1, a2, b1, b2}
    MaxBrowsers = 2 MaxLaunches = 4 MaxCloses = 2
    Searches = {a1, a2} MaxRequests = 1 SearchPlaces = 1 Interval = 2 MaxClock = 3
    CheckQuality = TRUE
    Pages = {a1, a2} PagePlaces = 1 MaxRedirects = 1
SYMMETRY Symmetry
INVARIANTS HostSafe ShellSafe CodeSafe SearchesSafe ConnectionsSafe
PROPERTY SearchesFinal
CHECK_DEADLOCK FALSE
