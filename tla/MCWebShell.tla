----------------------------- MODULE MCWebShell -----------------------------
(***************************************************************************)
(* One tab, an administrator and a plain user whose password has to be     *)
(* changed, two projects, and four routes: an automatically refreshed one, *)
(* a static one, an administrator's one that draws late, and the security  *)
(* profile.                                                                *)
(***************************************************************************)
EXTENDS WebShell

CONSTANTS ann, bob, shop, api

MCUsers == {ann, bob}
MCAdmins == {ann}
MCMustChange == {bob}
MCProjects == {shop, api}
MCAllowed == [u \in MCUsers |-> {api}]
MCPaths == {"issues", "docs", "storage", "security_profile"}
=============================================================================
