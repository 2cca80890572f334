---------------------------- MODULE MCHermesCopy ----------------------------
EXTENDS HermesCopy

\* An empty source (the loop is skipped), one of three bytes, which a
\* chunk size of 2 sends as a full chunk and then the rest, and one of five
\* bytes: three chunks, so that after the server closes one write is lost
\* and draws the RST and the next one meets it.
MCSources == {<<>>, <<"a", "b", "b">>, <<"a", "b", "b", "a", "b">>}

\* No destination yet, or an older file longer than the source.
MCOlds == {<<>>, <<"c", "c", "c", "c">>}
=============================================================================
