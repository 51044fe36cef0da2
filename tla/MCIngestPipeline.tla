-------------------------- MODULE MCIngestPipeline --------------------------
(***************************************************************************)
(* Small instances of IngestPipeline: an error report (env1), a session    *)
(* heartbeat (env2) and a capture batch of two events (cap1), in two       *)
(* projects, sharing one throttle key.                                     *)
(***************************************************************************)
EXTENDS IngestPipeline

CONSTANTS env1, env2, cap1, projA, projB, user

MCEnvelopes == {env1, env2}
MCCaptures  == {cap1}
MCProjects  == {projA, projB}
MCUserFps   == {user}
MCProjectOf == [r \in Requests |-> IF r = env1 THEN projA ELSE projB]
MCUserFpOf  == [r \in Requests |-> user]
MCItemCount == [r \in Requests |->
                   IF r = cap1 THEN 2 ELSE IF r = env1 THEN 1 ELSE 0]

\* The liveness run leaves the heartbeat out.
MCLiveEnvelopes == {env1}
=============================================================================
