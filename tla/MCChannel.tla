----------------------------- MODULE MCChannel -----------------------------
(***************************************************************************)
(* What is decided for the guest, and its way there: the tables of a run   *)
(* written by several tasks at once (DecisionTables), and the channel that *)
(* carries them (Relay).  A behaviour is about one of them, `which`:       *)
(* either the channel stays as it begins, or the variables of the tables   *)
(* are "off".                                                              *)
(***************************************************************************)
EXTENDS Relay

CONSTANTS r1, r2   \* two requests held by the guest

VARIABLE which

-----------------------------------------------------------------------------
(* One request to a destination with two ports, one row, and saves that    *)
(* may fail; nothing waits for another operation to end.                   *)

VARIABLES tasked, theld, tpolicy, tpersisted, tfile, tgranted, tentries, tguest,
          tevent, tgiven, tedits, tjob

tableVars == <<tasked, theld, tpolicy, tpersisted, tfile, tgranted, tentries, tguest,
               tevent, tgiven, tedits, tjob>>

Destinations == {"h1", "h2"}
Ports == {<<"h1", 1>>, <<"h1", 2>>, <<"h2", 1>>}
PortsOf == [h \in Destinations |-> {c \in Ports : c[1] = h}]

Tables == INSTANCE DecisionTables WITH
  Requests <- {"r"}, Hosts <- Destinations, HostOf <- [r \in {"r"} |-> "h1"],
  Calls <- Ports, Reach <- PortsOf, Shipped <- <<>>, Opens <- <<>>, UserRules <- {},
  Tasks <- {"reader", "cards", "watcher", "row"}, Rows <- {"row"},
  Serial <- FALSE, SaveFails <- TRUE, MaxAnswers <- 2, MaxEdits <- 0,
  asked <- tasked, held <- theld, policy <- tpolicy, persisted <- tpersisted, file <- tfile,
  granted <- tgranted, entries <- tentries, guest <- tguest, event <- tevent,
  given <- tgiven, edits <- tedits, job <- tjob

TablesOff ==
  /\ tasked = "off" /\ theld = "off" /\ tpolicy = "off" /\ tpersisted = "off"
  /\ tfile = "off" /\ tgranted = "off" /\ tentries = "off" /\ tguest = "off"
  /\ tevent = "off" /\ tgiven = "off" /\ tedits = "off" /\ tjob = "off"

-----------------------------------------------------------------------------
ChannelInit ==
  /\ Init
  /\ \/ which = "relay" /\ TablesOff
     \/ which = "tables" /\ Tables!Init

InRelay(step) == which = "relay" /\ step /\ UNCHANGED <<which, tableVars>>

ChannelNext ==
  \/ InRelay(Next)
  \/ which = "tables" /\ Tables!Next /\ UNCHANGED <<which, vars>>

channelVars == <<which, vars, tableVars>>

\* Fairness of the channel's tasks, as in Relay.
ChannelFairness ==
  /\ WF_channelVars(InRelay(SendPolicyFrame))
  /\ WF_channelVars(InRelay(AcceptLoop))
  /\ WF_channelVars(InRelay(Task))

ChannelSpec == ChannelInit /\ [][ChannelNext]_channelVars /\ ChannelFairness

-----------------------------------------------------------------------------
\* However the answers on cards and rows, the reloads and the put-backs
\* interleave, and whichever saves fail, no table ever holds approvals of one
\* destination both ways (DecisionTables!OneVerdict).
OneVerdict == which = "tables" => Tables!OneVerdict
=============================================================================
