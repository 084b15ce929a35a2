---------------------------- MODULE MCRemoteStop ----------------------------
(* The robot's graph is connection >> emc1, switch >> emc2.                *)
EXTENDS RemoteStop

MCPeer == {robot, controller}
MCThread == MCPeer \X {"rx", "main"}
MCOtherEnd == [p \in MCPeer |-> IF p = robot THEN controller ELSE robot]
MCId == {"switch"}
MCNode == (MCPeer \X {"switch", "connection"}) \cup ({robot} \X {"emc1", "emc2", "output"})
MCConnection == [p \in MCPeer |-> <<p, "connection">>]
MCNodeOf == [p \in MCPeer |-> [id \in MCId |-> <<p, id>>]]
MCShared == MCPeer \X MCId
MCOutput == <<robot, "output">>
MCEmcInputs == <<<<robot, "emc1">>, <<robot, "emc2">>>>
MCLinks == [n \in MCNode |-> CASE n = <<robot, "connection">> -> <<<<robot, "emc1">>>>
                               [] n = <<robot, "switch">> -> <<<<robot, "emc2">>>>
                               [] OTHER -> <<>>]
=============================================================================
