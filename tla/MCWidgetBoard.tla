--------------------------- MODULE MCWidgetBoard ---------------------------
(***************************************************************************)
(* One saved dashboard, two entries into the view, up to four widgets.     *)
(***************************************************************************)
EXTENDS WidgetBoard

CONSTANTS sales

MCIds == {sales}
=============================================================================
