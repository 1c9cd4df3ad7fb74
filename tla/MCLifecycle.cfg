SPECIFICATION LifeSpec
CONSTANTS
    d1 = d1
    d2 = d2
    s1 = s1
    s2 = s2
    r1 = r1
    Nobody = Nobody
    Daemons = {d1, d2}
    Stops = {s1, s2}
    Readers = {r1}
    MaxPolls = 2
INVARIANTS LifeTypeOK OneMaster StoppedIsDead PidFileKept
PROPERTIES StopEnds
