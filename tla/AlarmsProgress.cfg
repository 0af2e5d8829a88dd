SPECIFICATION FairSpec
CONSTANTS
    n1 = n1 s1 = s1
    technician = technician operator = operator
    a1 = a1 a2 = a2 o1 = o1 r1 = r1 r2 = r2
    None = None
    Nodes = {n1}
    Series = {s1}
    SeriesNode <- OneSeriesNode
    AlarmIds = {a1, a2}
    OrderIds = {}
    Users = {operator}
    Role <- OperatorOnly
    Requests = {r1}
    Faults = {}
INVARIANTS
    OneOpenAlarmPerSubject
    NoStepGoesUnheard
PROPERTY
    StandingDeviationIsRaised
