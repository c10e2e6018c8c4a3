----------------------------- MODULE MC_A1Data -----------------------------
(* Model-checking instance of A1Data. *)
EXTENDS A1Data

\* one policy type
MCTypes == {1}

\* instance ids "a" and "a.b": the second key extends the first's prefixes
MCIIDsAliased == {<<"a">>, <<"a", "b">>}

\* a single dot-free instance id
MCIIDsPlain == {<<"a">>}

MCHandlers == {"h1"}
MCStatuses == {"OK", "DELETED"}
MCBodies == {"b1"}
=============================================================================
