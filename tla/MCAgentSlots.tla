---------------------------- MODULE MCAgentSlots ----------------------------
EXTENDS AgentSlots, TLC

(* Two creations of one name in the project where c3 creates another; two   *)
(* attachments of one agent session; an old Session that can be resumed.    *)
InProject == [s \in Sessions |-> IF s = "c3" THEN "q" ELSE "p"]
Named     == [s \in Sessions |-> IF s \in Attaches THEN "agentSession"
                                 ELSE IF s \in Creates THEN "feature" ELSE s]
=============================================================================
