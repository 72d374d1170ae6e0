---------------------------- MODULE MCPanelForms ----------------------------
(* The inbounds page, the dialog of inbounds and the dialog of outbounds,   *)
(* which share no state: one of the three moves while the others rest.      *)
EXTENDS InboundsPage, InboundForm, OutboundForm

PanelInit == Init /\ InbInit /\ OutInit
PanelNext ==
  \/ InbInit /\ OutInit /\ Next /\ UNCHANGED <<inbVars, outVars>>
  \/ Init /\ OutInit /\ InbNext /\ UNCHANGED <<vars, outVars>>
  \/ Init /\ InbInit /\ OutNext /\ UNCHANGED <<vars, inbVars>>
PanelSpec == PanelInit /\ [][PanelNext]_<<vars, inbVars, outVars>>

\* The children of fallbacks are interchangeable.
Symmetry == Permutations(Children)
==============================================================================
