-------------------------- MODULE MCChannelRequests --------------------------
(***************************************************************************)
(* Racing requests on a short log.                                         *)
(***************************************************************************)
EXTENDS ChannelRequests, TLC

CONSTANTS a, b, q1, q2

\* Slots are interchangeable: every action and every safety property treats
\* them alike.
Slots == Permutations(Requests)

-----------------------------------------------------------------------------
(* An instance that follows one log, to look for what pages that arrive late *)
(* can do: a reattachment, twice.                                            *)

OneLog ==
  <<Joined(a, 1, "mailbox"), Message({a}), Detached(a, 2, 1), Joined(a, 3, "mailbox"),
    Detached(a, 4, 1), Joined(a, 5, "mailbox")>>

FollowsOneLog == IsPrefix(log, OneLog)
=============================================================================
