----------------------------- MODULE MCTerminal -----------------------------
(***************************************************************************)
(* Instances of Terminal for TLC.                                          *)
(***************************************************************************)
EXTENDS Terminal

\* What a task prints: parts of a line, and a line.
Lines == {<<"a">>, <<"a", "b">>, <<"a", NL>>}

\* What timer_callback prints, a line, and keyboard_handler, a character or a newline.
Seconds == {<<"s", NL>>}
AnyHandler == Seconds \cup {<<"k">>, <<NL>>}
=============================================================================
