--------------------------- MODULE AlarmContract ---------------------------
(***************************************************************************)
(* What the alarms and work orders promise whoever reads them, without     *)
(* requests, locks, transactions or detection passes: each alarm walks     *)
(* from open to closed and never back, a subject has one open alarm at a   *)
(* time, a work order is given out on an alarm that is not closed, and a   *)
(* completed one closes its alarm in the same step.                        *)
(***************************************************************************)
CONSTANTS Subjects, AlarmIds, OrderIds, Users, None

VARIABLES
    subject,   \* what each alarm is about
    state,     \* where each alarm is on its way
    order      \* the work orders

vars == <<subject, state, order>>

Absent == [alarm |-> None, technician |-> None, status |-> "absent"]

Init ==
    /\ subject = [a \in AlarmIds |-> None]
    /\ state = [a \in AlarmIds |-> "unraised"]
    /\ order = [o \in OrderIds |-> Absent]

Active(a) == state[a] \in {"open", "acknowledged", "under_verification"}

Raise(a, k) ==
    /\ state[a] = "unraised"
    /\ \A b \in AlarmIds : Active(b) => subject[b] # k
    /\ subject' = [subject EXCEPT ![a] = k]
    /\ state' = [state EXCEPT ![a] = "open"]
    /\ UNCHANGED order

Acknowledge(a) ==
    /\ state[a] = "open"
    /\ state' = [state EXCEPT ![a] = "acknowledged"]
    /\ UNCHANGED <<subject, order>>

Verify(a) ==
    /\ state[a] = "acknowledged"
    /\ state' = [state EXCEPT ![a] = "under_verification"]
    /\ UNCHANGED <<subject, order>>

Close(a) ==
    /\ Active(a)
    /\ state' = [state EXCEPT ![a] = "closed"]
    /\ UNCHANGED <<subject, order>>

Dispatch(o, a, u) ==
    /\ Active(a)
    /\ order[o] = Absent
    /\ order' = [order EXCEPT ![o] = [alarm |-> a, technician |-> u, status |-> "assigned"]]
    /\ state' = [state EXCEPT ![a] = "under_verification"]
    /\ UNCHANGED subject

Complete(o) ==
    /\ order[o].status = "assigned"
    /\ order' = [order EXCEPT ![o].status = "completed"]
    /\ state' = [state EXCEPT ![order[o].alarm] = "closed"]
    /\ UNCHANGED subject

Next ==
    \/ \E a \in AlarmIds :
          \/ \E k \in Subjects : Raise(a, k)
          \/ Acknowledge(a) \/ Verify(a) \/ Close(a)
          \/ \E o \in OrderIds, u \in Users : Dispatch(o, a, u)
    \/ \E o \in OrderIds : Complete(o)

Spec == Init /\ [][Next]_vars

=============================================================================
