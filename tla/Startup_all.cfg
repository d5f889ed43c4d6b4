SPECIFICATION Spec
CONSTANTS
    earlier = earlier
    None = None
    Nodes = {app, daemon, again}
    App = {app}
    Before = {"nothing", "file", "ring", "unmarked"}
    Crowd = 2
    Faults = {"marker"}
INVARIANT Drivable
 
 
PROPERTY NoFalseAlarm
CHECK_DEADLOCK FALSE
