-------------------------- MODULE MCPanelController --------------------------
(* Instances of PanelController for TLC: the calls in progress have no names  *)
(* that matter.                                                                *)
EXTENDS PanelController
=============================================================================
