---------------------------- MODULE MCDashboards ----------------------------
(***************************************************************************)
(* A small instance of Dashboards: a viewer, the event worker and an admin *)
(* on one project and on the dashboard of all.  The caches are replaced    *)
(* under the viewer by the worker and by resizes.                          *)
(***************************************************************************)
EXTENDS Dashboards

CONSTANTS pA, v1, w1, a1

MCProjects == {pA}
MCViewers == {v1}
MCWorkers == {w1}
MCAdmins == {a1}
=============================================================================
