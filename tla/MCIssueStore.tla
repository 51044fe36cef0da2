---------------------------- MODULE MCIssueStore ----------------------------
(***************************************************************************)
(* Small instances of IssueStore: an error one user reports twice, and a   *)
(* posthog event; or one error report of each of three users behind the    *)
(* same address.                                                           *)
(***************************************************************************)
EXTENDS IssueStore

CONSTANTS e1, e2, e3, a1, crash, ann, bob, eve, home, subnet, blob, props

MCErrors      == {e1, e2}
MCThreeErrors == {e1, e2, e3}
MCAnalytics   == {a1}
MCFps         == {crash}
MCFpOf        == [e \in Errors |-> crash]
MCIpOf        == [e \in Events |-> home]
MCMaskIp      == [i \in {home, subnet} |-> subnet]
MCPayloadOf   == [e \in Events |-> IF e = a1 THEN props ELSE blob]
MCUserOf      == [e \in Events |-> ann]
MCThreeUserOf == [e \in Events |->
                     IF e = e2 THEN bob ELSE IF e = e3 THEN eve ELSE ann]
=============================================================================
