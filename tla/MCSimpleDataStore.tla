-------------------------- MODULE MCSimpleDataStore --------------------------
(* Small instances of SimpleDataStore for TLC. *)
EXTENDS SimpleDataStore

CONSTANTS k1, k2, a, b, c

\* Every key is stored in one form, as the agent does: k1 plain, k2 compressed.
OneForm == {<<k1, a, FALSE>>, <<k1, b, FALSE>>, <<k2, a, TRUE>>, <<k2, b, TRUE>>}

\* The keys have no value in common, so a value tells whose it is.
OwnValues == {<<k1, a, FALSE>>, <<k1, b, TRUE>>, <<k2, c, TRUE>>}

\* The state without ret and the history variables expect and reported: nothing that
\* NoForeignValue looks at, and no other variable's next value, depends on them.
Physical == <<file, tmp, tmpHeld, mode, table, cache, dirty, op>>
=============================================================================
