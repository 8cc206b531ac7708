--------------------------- MODULE MCWakeDispatch ---------------------------
(* Small instances of WakeDispatch.                                        *)
EXTENDS WakeDispatch

\* Two comments, of which the agent wrote the second; and a comment behind an
\* event that only a hook delivers.
MCMixes == {[kind |-> <<"deep", "own">>, comments |-> {1, 2}],
            [kind |-> <<"deep", "mail">>, comments |-> {2}]}
=============================================================================
