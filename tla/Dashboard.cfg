\* Two administrators and two tokens are enough for two requests to cross; two
\* nodes, a receiver of two and two changes of each for a receiver to fall behind.
\* Deadlock is allowed: with every account deactivated nobody can log in again.
CONSTANTS
    Users = {u1, u2}
    Tokens = {t1, t2}
    Requests = {r1, r2}
    Sockets = {k1}
    Roles = {"administrator", "reader"}
    Changes <- MCChanges
    Faults = {"db"}
    None = None
    Nodes = {n1, n2}
    Alarms = {a1}
    Views <- MCViews
    Capacity = 2
    MaxChanges = 2
SPECIFICATION MCSpec
PROPERTIES LastAdministratorFallsToARace DismissedSocketsClose DashboardsCatchUp
CHECK_DEADLOCK FALSE
