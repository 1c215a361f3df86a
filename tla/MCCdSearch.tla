------------------------------ MODULE MCCdSearch ------------------------------
\* Small instances of CdSearch for TLC.
EXTENDS CdSearch

CONSTANTS a, b, c

Named    == {a, b, c}
Unnamed  == {a, b, Empty}

\* the empty text and two others, with names in common
NamedTexts   == {Named, {a, b}, {c}, {b}}
UnnamedTexts == {Unnamed, {a, b}, {b}}
=============================================================================
