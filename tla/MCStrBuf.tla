------------------------------ MODULE MCStrBuf ------------------------------
EXTENDS StrBuf

\* Text of several lengths, and a piece of a binary file.
MCPiece == {<<"a">>, <<"d", "e", "f", "g", "h">>, <<"x", NUL, "y">>}
=============================================================================
