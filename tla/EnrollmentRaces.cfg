\* Two nodes, two boxes, a spare credential, everything that administrators do and that fails.
CONSTANTS
    Nodes = {n1, n2}
    Boxes = {b1, b2}
    Tokens = {t1, t2, t3}
    Identities = {i1, i2, i3, i4}
    Rotations = {r1, r2}
    Admin = {"suspend", "wipe"}
    Faults = {"network", "crash", "disk", "repeat"}
    None = None
SPECIFICATION Spec
SYMMETRY Symmetry
INVARIANTS TypeOK OneBoxPerNode OneLiveCredential FilesAgreeWithServer
