---------------------------- MODULE MCIGuiPanes ----------------------------
(***************************************************************************)
(* IGuiPanes for TLC: one window of each kind.                             *)
(***************************************************************************)
EXTENDS IGuiPanes

OneGraphics == {"canvas"}
OneText == {"console"}

=============================================================================
