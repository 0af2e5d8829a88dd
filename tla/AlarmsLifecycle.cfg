SPECIFICATION Spec
CONSTANTS
    n1 = n1 s1 = s1
    technician = technician operator = operator
    a1 = a1 a2 = a2 o1 = o1 r1 = r1 r2 = r2
    None = None
    Nodes = {n1}
    Series = {}
    SeriesNode <- NoSeriesNode
    AlarmIds = {a1}
    OrderIds = {o1}
    Users = {technician, operator}
    Role <- MCRole
    Requests = {r1, r2}
    Faults = {"db", "disconnect", "crash"}
SYMMETRY Rows
INVARIANTS
    TypeOK
    AuditTrail
    ReadsStayTrue
    VisitsCloseTheirAlarm
    HeardAfterCommitted
    TechniciansStayOnTheirNodes
PROPERTY ContractSpec
