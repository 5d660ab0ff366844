------------------------------- MODULE DraftMail -------------------------------
(***************************************************************************)
(* What reccado promises about a draft's mail, with every mechanism left   *)
(* out: an attempt to mail a draft is handed to the provider only while no *)
(* other attempt for that draft is outstanding and none was ever accepted. *)
(* An attempt whose outcome never becomes known stays outstanding for      *)
(* ever, and the draft is then never mailed again.                         *)
(***************************************************************************)
CONSTANTS
  Drafts,     \* the drafts of one mailbox
  Attempts    \* every attempt anybody makes to send a draft

VARIABLES
  outstanding,  \* draft -> attempts handed to the provider, outcome open
  mailed        \* draft -> attempts the provider accepted

vars == <<outstanding, mailed>>

TypeOK ==
  /\ outstanding \in [Drafts -> SUBSET Attempts]
  /\ mailed \in [Drafts -> SUBSET Attempts]

Init ==
  /\ outstanding = [d \in Drafts |-> {}]
  /\ mailed = [d \in Drafts |-> {}]

Hand(d, a) ==
  /\ outstanding[d] = {}
  /\ mailed[d] = {}
  /\ outstanding' = [outstanding EXCEPT ![d] = {a}]
  /\ UNCHANGED mailed

Accept(d, a) ==
  /\ a \in outstanding[d]
  /\ outstanding' = [outstanding EXCEPT ![d] = @ \ {a}]
  /\ mailed' = [mailed EXCEPT ![d] = @ \cup {a}]

Refuse(d, a) ==
  /\ a \in outstanding[d]
  /\ outstanding' = [outstanding EXCEPT ![d] = @ \ {a}]
  /\ UNCHANGED mailed

Next == \E d \in Drafts, a \in Attempts :
          Hand(d, a) \/ Accept(d, a) \/ Refuse(d, a)

Spec == Init /\ [][Next]_vars
================================================================================
