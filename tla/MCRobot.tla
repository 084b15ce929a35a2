------------------------------- MODULE MCRobot -------------------------------
(***************************************************************************)
(* What a robot is asked and told from outside, one part in a behaviour:   *)
(* its names by KVService, or its course by the remote control.  They      *)
(* share nothing, so that one run over both adds their states.             *)
(***************************************************************************)
EXTENDS SspKv, Steering, TLC

VARIABLE part

\* Keys of IdentitiyService; the name of node "a" is short, its time unknown.
MCKvCallbacks == [n \in Nodes |-> IF n = "a" THEN 0 :> 2 @@ 1 :> 11
                                             ELSE 0 :> 5 @@ 2 :> 8]

MCSticks == {<<0, 0>>, <<1, 0>>, <<0, 1>>, <<-1, -1>>}
MCRawAngles == {-360, -90, 179}

robotVars == <<part, kvVars, steerVars>>

RobotInit == part \in {"names", "course"} /\ KvInit /\ SteerInit

RobotNext == \/ part = "names" /\ KvNext /\ UNCHANGED <<part, steerVars>>
             \/ part = "course" /\ SteerNext /\ UNCHANGED <<part, kvVars>>

RobotSpec == RobotInit /\ [][RobotNext]_robotVars /\ KvFairness
==============================================================================
