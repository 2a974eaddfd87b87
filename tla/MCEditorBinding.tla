---------------------------- MODULE MCEditorBinding -----------------------------
(* EditorBinding for TLC: panes and keystrokes are model values. *)
EXTENDS EditorBinding, TLC

CONSTANTS pane1, pane2, key1, key2

Symmetric == Permutations({pane1, pane2}) \cup Permutations({key1, key2})
===============================================================================
