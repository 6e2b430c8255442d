------------------------------- MODULE MCPace -------------------------------
\* An idle and a busy machine for Pace.
EXTENDS Pace

MCPercents == {0, 100}
=============================================================================
