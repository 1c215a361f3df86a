----------------------------- MODULE MCCdCatalog -----------------------------
\* Small instances of CdCatalog for TLC.
EXTENDS CdCatalog, TLC

CONSTANTS u1, u2, n1, n2

OwnNames == (u1 :> {n1}) @@ (u2 :> {n2})
=============================================================================
