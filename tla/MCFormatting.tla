----------------------------- MODULE MCFormatting -----------------------------
EXTENDS Formatting

\* One word, a quote without a space, a numbered item after an indented one.
MCStartLines ==
    { <<[indent |-> 0, marks |-> << >>, words |-> <<"w">>],
        [indent |-> 0, marks |-> <<Tight>>, words |-> <<"v">>]>>,
      <<[indent |-> 0, marks |-> <<Ordered(1)>>, words |-> <<"w">>],
        [indent |-> 0, marks |-> <<Ordered(2)>>, words |-> << >>]>>,
      <<[indent |-> 1, marks |-> <<Ordered(1)>>, words |-> <<"w">>],
        [indent |-> 1, marks |-> <<Ordered(1)>>, words |-> <<"v">>]>> }
MCStartInline == {<<"a", "b">>}
MCStars == {<<"*">>, <<"*", "*">>, <<"tick">>}
MCWordBytes == {"a", "b"}
=============================================================================
