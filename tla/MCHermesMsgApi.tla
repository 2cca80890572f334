---------------------------- MODULE MCHermesMsgApi ----------------------------
EXTENDS HermesMsgApi

MCVerbs == {<<"a">>, <<"b">>}
MCValues == {<<"a">>, <<"1">>}
MCBodies == {<<"a">>, <<"a", "a">>}
\* Applications that leave Content-Length to set_body.
UserKeys == {<<"a">>}
=============================================================================
