SPECIFICATION Spec
CONSTANTS
    Devices = {"zv1", "zv2"}
    Stays = {"zv2"}
    MaxUsers = 2
    MaxPid = 2
    MaxCrashes = 0
PROPERTY GcSparesServing
