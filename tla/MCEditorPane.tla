---------------------------- MODULE MCEditorPane ----------------------------
EXTENDS EditorPane

\* One text; lines come from pastes; 'a' is a word byte.
MCOpened == {<<"a">>}
MCKeys == {<<"a">>}
MCPastes == {<<"n">>}
MCQueries ==
    {[pattern |-> <<"a">>, wholeWord |-> FALSE, caseSensitive |-> FALSE]}
MCReplacements == {<<>>, <<"a", "a">>}
MCWordByte == {"a"}
MCLowerCase == [b \in {} |-> b]
=============================================================================
