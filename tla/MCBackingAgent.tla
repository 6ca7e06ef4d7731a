--------------------------- MODULE MCBackingAgent ---------------------------
(***************************************************************************)
(* Two connections that together send at most MaxRequests requests.         *)
(***************************************************************************)
EXTENDS BackingAgent, TLC

CONSTANT MaxRequests

MCRequest == {[type |-> "sign"], [type |-> "identities"]}
Bounded == requests < MaxRequests

\* Requests stop at the bound; everything else runs on.
MCNext == AgentStep \/ \E c \in Conn : \/ Dial(c) \/ Receive(c) \/ HangUp(c)
                                       \/ \E r \in Request : Bounded /\ Send(c, r)
MCSpec == AInit /\ [][MCNext]_avars /\ AFairness
=============================================================================
