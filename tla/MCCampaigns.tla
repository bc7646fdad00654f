----------------------------- MODULE MCCampaigns -----------------------------
(***************************************************************************)
(* Small instances of Campaigns for TLC.                                   *)
(***************************************************************************)
EXTENDS Campaigns, TLC

\* The ids of campaigns, contacts, requests and worker slots are interchangeable
\* (used by the runs that check safety only).
Symmetry == Permutations(Campaign) \cup Permutations(Contact)
            \cup Permutations(Request) \cup Permutations(Worker)
=============================================================================
