----------------------------- MODULE EventStore ------------------------------
(***************************************************************************)
(* What the Reporting API promises of the access events it is offered, on  *)
(* any of its channels and however often: each is saved once at most, no   *)
(* saved event is lost, and a channel is told that it may forget an event  *)
(* only when the event is saved, need not be, or is out of the window that *)
(* the channel keeps.                                                      *)
(***************************************************************************)
EXTENDS Naturals, Sequences, Functions

CONSTANTS
    Channels,     \* where events come from
    Events,
    Unsavable     \* events that are acknowledged without being saved

VARIABLES
    offered,      \* per channel: the events offered
    expired,      \* per channel: those of them it keeps no more
    settled,      \* per channel: those of them the reader has acknowledged
    saved         \* the events saved, in order

vars == <<offered, expired, settled, saved>>

Init ==
    /\ offered = [c \in Channels |-> {}]
    /\ expired = [c \in Channels |-> {}]
    /\ settled = [c \in Channels |-> {}]
    /\ saved = <<>>

Offer(c, e, old) ==
    /\ offered' = [offered EXCEPT ![c] = @ \union {e}]
    /\ old \subseteq offered'[c]
    /\ expired' = [expired EXCEPT ![c] = @ \union old]
    /\ UNCHANGED <<settled, saved>>

Save(e) ==
    /\ \E c \in Channels : e \in offered[c]
    /\ e \notin Range(saved) \union Unsavable
    /\ saved' = Append(saved, e)
    /\ UNCHANGED <<offered, expired, settled>>

Settle(c, es) ==
    /\ es \subseteq offered[c]
    /\ es \subseteq Range(saved) \union Unsavable \union expired[c]
    /\ settled' = [settled EXCEPT ![c] = @ \union es]
    /\ UNCHANGED <<offered, expired, saved>>

Next == \/ \E c \in Channels, e \in Events :
              \E old \in SUBSET (offered[c] \union {e}) : Offer(c, e, old)
        \/ \E e \in Events : Save(e)
        \/ \E c \in Channels : \E es \in SUBSET offered[c] : Settle(c, es)

Spec == Init /\ [][Next]_vars
=============================================================================
