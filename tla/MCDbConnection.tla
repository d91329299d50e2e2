--------------------------- MODULE MCDbConnection ---------------------------
(***************************************************************************)
(* DbConnection on small instances.                                        *)
(***************************************************************************)
EXTENDS DbConnection, TLC

CONSTANTS h1, h2, h3

AllHandlers == {h1, h2, h3}
\* The handler of GET /api/v1/engineering/operational-base/current.
OperationalBase == {h3}
=============================================================================
