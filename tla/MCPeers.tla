------------------------------- MODULE MCPeers -------------------------------
(* A small instance for TLC of a session's two halves of the intercom: the *)
(* asks it makes and the messages it takes.  A behaviour picks one of them *)
(* and leaves the other as it starts.                                      *)
EXTENDS IntercomSession, IntercomInbox

LOCAL INSTANCE TLC

CONSTANTS m1, m2, p1, p2

VARIABLE half

MSender == m1 :> p1 @@ m2 :> p2

\* with a user or without, who goes first or not
AllSettings == [ui : BOOLEAN, humanFirst : BOOLEAN, trigger : {"always", "replies"}]
AnySetting == CHOOSE s \in Settings : TRUE

peersVars == <<half, sessionVars, inboxVars>>

PeersInit ==
  /\ half \in {"asks", "inbox"}
  /\ SessionInit /\ InboxInit
  /\ half = "asks" => setting = AnySetting

PeersNext ==
  /\ \/ half = "asks" /\ SessionNext /\ UNCHANGED inboxVars
     \/ half = "inbox" /\ InboxNext /\ UNCHANGED sessionVars
  /\ UNCHANGED half

\* none of the steps the fairness of a half is about is enabled while that half rests
PeersSpec == PeersInit /\ [][PeersNext]_peersVars /\ SessionFairness /\ InboxFairness
=============================================================================
