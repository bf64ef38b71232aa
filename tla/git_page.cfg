SPECIFICATION PagesSpec
CONSTANTS
    Projects = {k1, k2}
    Nobody = Nobody
    MaxVerbs = 1
    MaxShifts = 0
    MaxReads = 2
INVARIANT GitIsOurs
