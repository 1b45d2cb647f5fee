------------------------------ MODULE MCParts ------------------------------
EXTENDS Parts

\* Three parts of numbers of up to three bits, two of numbers of four.
Adds == <<3, 3, 3, 2>>
=============================================================================
