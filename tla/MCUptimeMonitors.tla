-------------------------- MODULE MCUptimeMonitors --------------------------
(***************************************************************************)
(* Two monitors, or one and one that can be added; pings that succeed      *)
(* slowly or fail fast; a history of two outages, the newer still on.      *)
(***************************************************************************)
EXTENDS UptimeMonitors

CONSTANTS web, api

MCIds == {web, api}
MCStarts == {{web}, {web, api}}
Slow == [up |-> TRUE, slow |-> TRUE]
Down == [up |-> FALSE, slow |-> FALSE]
MCChecks == {Slow, Down}
MCHistories == {<<Down, Slow, Down>>}
=============================================================================
