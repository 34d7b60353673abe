------------------------- MODULE MCMessageReassembly -------------------------
EXTENDS MessageReassembly

MCPayloads == {<<>>, <<"a">>, <<"b">>, <<"a", "b">>, <<"b", "a", "b">>, <<"a", "b", "a", "b", "a">>}
=============================================================================
