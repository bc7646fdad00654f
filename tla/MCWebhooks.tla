----------------------------- MODULE MCWebhooks -----------------------------
(***************************************************************************)
(* Small instances of Webhooks for TLC.                                    *)
(***************************************************************************)
EXTENDS Webhooks, TLC

CONSTANTS ann, hello, again, click, link

\* One person, who writes two messages, clicks a button and follows a link.
MCSender == {ann}
MCSenderOf == [e \in Event |-> ann]
MCKindOf == [e \in Event |-> CASE e = click -> "postback"
                               [] e = link -> "referral"
                               [] OTHER -> "message"]

\* The two messages, the requests and the worker slots are interchangeable
\* (used by the runs that check safety only).
Symmetry == Permutations({hello, again}) \cup Permutations(Post) \cup Permutations(Worker)
=============================================================================
