------------------------------ MODULE MCServices ------------------------------
\* Instance of Gateway, Subagents and Campaign for TLC. The three share no state:
\* a behaviour is one of the gateway, of the subagents or of a campaign, and the
\* other two stay as they begin.
EXTENDS Gateway, Subagents, Campaign

VARIABLE part

Init ==
  /\ part \in {"gateway", "subagents", "campaign"}
  /\ GatewayInit /\ SubagentsInit /\ CampaignInit
  /\ part # "gateway" => boots = 0 /\ file = None /\ old = None
  /\ part # "campaign" => maxIter = Steps

Next ==
  /\ UNCHANGED part
  /\ \/ part = "gateway" /\ GatewayNext /\ UNCHANGED <<subVars, camVars>>
     \/ part = "subagents" /\ SubagentsNext /\ UNCHANGED <<gwVars, camVars>>
     \/ part = "campaign" /\ CampaignNext /\ UNCHANGED <<gwVars, subVars>>

Spec ==
  /\ Init /\ [][Next]_<<part, gwVars, subVars, camVars>>
  /\ GatewayFairness /\ SubagentsFairness

TwoBackends == <<"tinyclaw", "remote">>

\* All parts keep their types.
TypeOK == GatewayTypeOK /\ SubagentsTypeOK /\ CampaignTypeOK
==============================================================================
