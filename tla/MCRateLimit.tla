---------------------------- MODULE MCRateLimit ----------------------------
(***************************************************************************)
(* Small instances of RateLimit for TLC.                                   *)
(***************************************************************************)
EXTENDS RateLimit

CONSTANTS Page, Workspace, Contact

\* A page of which one message may go out, and a workspace and a contact that allow two.
SmallLimits == [k \in Key |-> IF k = Page THEN 1 ELSE 2]

ServiceRoutes == {{Page, Workspace, Contact} \cap Key}
WorkerRoutes == {{Page}}
=============================================================================
