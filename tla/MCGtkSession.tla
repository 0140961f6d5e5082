----------------------------- MODULE MCGtkSession -----------------------------
(* One file, one key, texts of at most one byte; other programs write another. *)
EXTENDS GtkSession

MCStarter == << >>
MCGenerated == <<"page">>
MCKeys == {<<"a">>}
MCForeign == {<<"b">>}
===============================================================================
