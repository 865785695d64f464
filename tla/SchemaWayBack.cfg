SPECIFICATION Spec
CONSTANTS Builds = {11, 29} MaxFaults = 1 MaxBoots = 3
INVARIANTS WayBack
CHECK_DEADLOCK FALSE
