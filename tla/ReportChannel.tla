---------------------------- MODULE ReportChannel ----------------------------
(***************************************************************************)
(* What the journal and the ingest handler promise between them, without a *)
(* journal, a call or a crash: reports are made in order, and each of them *)
(* is stored once and in that order, unless it is gone: it could not be    *)
(* read back from the disk, or was the oldest when room had to be made.    *)
(***************************************************************************)
EXTENDS Naturals

CONSTANT MaxReports   \* bound

VARIABLE fate   \* of each report: "unmade", "waiting", "stored" or "gone"

ChannelInit == fate = [w \in 1 .. MaxReports |-> "unmade"]

Waiting == {w \in DOMAIN fate : fate[w] = "waiting"}

\* A report is made; it may be unreadable from the start, and it may push out the oldest.
Make(w, dropped) ==
    /\ fate[w] = "unmade" /\ \A v \in 1 .. w - 1 : fate[v] # "unmade"
    /\ \A v \in Waiting \ dropped : \A d \in dropped : d < v
    /\ \E now \in {"waiting", "gone"} :
           fate' = [v \in DOMAIN fate |-> IF v = w THEN now ELSE IF v \in dropped THEN "gone" ELSE fate[v]]

\* The oldest that waits is stored, or one that is dropped while it is written.
Take(w) ==
    /\ fate[w] \in {"waiting", "gone"}
    /\ \A v \in Waiting : v >= w
    /\ fate' = [fate EXCEPT ![w] = "stored"]

ChannelNext ==
    \E w \in DOMAIN fate : Take(w) \/ \E dropped \in SUBSET Waiting : Make(w, dropped)

ChannelSpec == ChannelInit /\ [][ChannelNext]_fate

=============================================================================
