------------------------------ MODULE MCShell ------------------------------
(* A small instance of Shell for TLC. *)
EXTENDS Shell

MCGlyphs == {"a", "b", "$", "^", "m"}
MCTyped == {"a", "b"}
MCPrompt == <<"$">>
MCLimited == <<LF, "m", LF>>
MCOutputs == {<<"m">>, <<LF>>, <<CR>>}
=============================================================================
