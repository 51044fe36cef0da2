---------------------------- MODULE MCIssueViews ----------------------------
(***************************************************************************)
(* An issue in each of two projects, pages of one or two rows, two orders. *)
(***************************************************************************)
EXTENDS IssueViews

CONSTANTS shop, api, crash, slow

MCIssues == {crash, slow}
MCProjects == {shop, api}
MCHome == [i \in MCIssues |-> IF i = slow THEN api ELSE shop]
MCFramed == {crash}
MCOrder0 == <<crash, slow>>
MCOrders == {<<crash, slow>>, <<slow, crash>>}
MCSearches == {MCIssues, {slow}}
MCLimits == {1, 2}
=============================================================================
