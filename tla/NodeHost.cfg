SPECIFICATION Spec
CONSTANTS
    c1 = c1
    c2 = c2
    k1 = k1
    k2 = k2
    k3 = k3
    k4 = k4
    Commands <- MCCommands
    Daemons <- MCDaemons
    oldNode = oldNode
    wrapper = wrapper
    foreign = foreign
    lookalike = lookalike
    shell = shell
    Starts = 2
    MaxFaults = 1
    None = None
CHECK_DEADLOCK FALSE
INVARIANT PortAsReported
INVARIANT SoleOwner
PROPERTY OthersSurvive
PROPERTY CommandsEnd
