--------------------------- MODULE MCSessionResume ---------------------------
\* An instance of SessionResume for TLC: the dialler recognises a friend who
\* no longer recognises it.
EXTENDS SessionResume

OnlyDialer == {Initiator}
=============================================================================
