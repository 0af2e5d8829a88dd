----------------------------- MODULE MCDashboard -----------------------------
(* Accounts and Feed share no state: a behaviour is one of either.          *)
EXTENDS Accounts, Feed

VARIABLE part

MCChanges ==
    {[role |-> "reader", deactivated |-> None], [role |-> "administrator", deactivated |-> FALSE],
     [role |-> None, deactivated |-> TRUE]}

MCViews == {Nodes \cup Alarms, CHOOSE seen \in SUBSET Nodes : Cardinality(seen) = 1}

MCInit == part \in {"accounts", "feed"} /\ AccountsInit /\ FeedInit

MCNext ==
    /\ UNCHANGED part
    /\ \/ part = "accounts" /\ AccountsNext /\ UNCHANGED feedVars
       \/ part = "feed" /\ FeedNext /\ UNCHANGED accountsVars

MCSpec ==
    /\ MCInit /\ [][MCNext]_<<part, accountsVars, feedVars>>
    /\ AccountsFairness /\ FeedFairness
=============================================================================
