--------------------------- MODULE GroupRoster ---------------------------
(***************************************************************************)
(* What a private group promises, without messages, rows or permissions:   *)
(* who may come to stand on whose list of active members.                  *)
(*                                                                         *)
(* The owner asks somebody, the one asked consents, and only then may the  *)
(* owner admit it.  Everybody else's list is free to be late or stale, but *)
(* shows nobody but itself and peers the owner has admitted at some time.  *)
(***************************************************************************)
EXTENDS FiniteSets

CONSTANTS Peers, Owner

VARIABLES
    invited,    \* peers the owner has asked
    accepted,   \* peers that have consented
    admitted,   \* peers the owner has ever put on its list
    lists       \* lists[p]: the peers that stand on p's list

vars == <<invited, accepted, admitted, lists>>

Init ==
    /\ invited = {} /\ accepted = {} /\ admitted = {}
    /\ lists = [p \in Peers |-> {}]

Open ==
    /\ admitted = {}
    /\ lists' = [lists EXCEPT ![Owner] = {Owner}]
    /\ UNCHANGED <<invited, accepted, admitted>>

Ask(q) ==
    /\ Owner \in lists[Owner] /\ q \notin lists[Owner]
    /\ invited' = invited \cup {q}
    /\ UNCHANGED <<accepted, admitted, lists>>

Consent(q) ==
    /\ q \in invited
    /\ accepted' = accepted \cup {q}
    /\ lists' = [lists EXCEPT ![q] = @ \cup {q}]
    /\ UNCHANGED <<invited, admitted>>

Admit(q) ==
    /\ q \in accepted
    /\ admitted' = admitted \cup {q}
    /\ lists' = [lists EXCEPT ![Owner] = @ \cup {q}]
    /\ UNCHANGED <<invited, accepted>>

\* The owner strikes out a member that left or is removed, or leaves itself.
Strike(q) ==
    /\ lists' = [lists EXCEPT ![Owner] = @ \ {q}]
    /\ UNCHANGED <<invited, accepted, admitted>>

\* A peer strikes out itself: it leaves, or has a new invitation to answer.
StepBack(p) ==
    /\ lists' = [lists EXCEPT ![p] = @ \ {p}]
    /\ UNCHANGED <<invited, accepted, admitted>>

\* What a peer hears from the owner may be old news, in part or in whole.
Learn(p) ==
    /\ p # Owner
    /\ \E new \in SUBSET ({Owner} \cup admitted \cup (lists[p] \cap {p})) :
          lists' = [lists EXCEPT ![p] = new]
    /\ UNCHANGED <<invited, accepted, admitted>>

Next ==
    \/ Open
    \/ \E p \in Peers :
          Ask(p) \/ Consent(p) \/ Admit(p) \/ Strike(p) \/ StepBack(p) \/ Learn(p)

Spec == Init /\ [][Next]_vars

===========================================================================
