------------------------------- MODULE MCNode -------------------------------
EXTENDS Node

\* Keys of two lengths, some a prefix of others.
MCKeys == {<<1>>, <<2>>, <<1, 1>>, <<1, 2>>}

\* Keys of one length.
MCEqualKeys == {<<1>>, <<2>>, <<3>>, <<4>>}
=============================================================================
