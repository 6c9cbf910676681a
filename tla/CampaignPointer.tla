---------------------------- MODULE CampaignPointer ----------------------------
(***************************************************************************)
(* What runs/CURRENT promises: it points to a campaign that it has never   *)
(* pointed to before, and stays there until it is moved to another one or  *)
(* runs/ is removed.  A campaign that was left is never current again.     *)
(***************************************************************************)
EXTENDS Naturals

CONSTANTS Campaigns, NoCampaign

VARIABLES pointer,   \* the campaign that is current, or NoCampaign
          seen       \* the campaigns that were current at some time

vars == <<pointer, seen>>

Init == /\ pointer \in Campaigns \cup {NoCampaign}
        /\ seen = {pointer} \ {NoCampaign}

Swing(c) == /\ c \notin seen
            /\ pointer' = c
            /\ seen' = seen \cup {c}

Drop == /\ pointer' = NoCampaign
        /\ UNCHANGED seen

Next == Drop \/ \E c \in Campaigns : Swing(c)

Spec == Init /\ [][Next]_vars
=============================================================================
