---------------------------- MODULE MCUpdateDb ----------------------------
(* Message bodies for model checking UpdateDb: one row, two rows in either *)
(* order, a null item between rows and a bad item after one.               *)
EXTENDS UpdateDb

CONSTANTS k1, k2

MCKeys == {k1, k2}

Plain == {<<k1, k2>>, <<k2>>}

Mixed == {<<k1, k2>>, <<k2, k1>>, <<k1, NullItem, k2>>, <<k1, BadItem>>}

Single == {<<k1>>}
=============================================================================
