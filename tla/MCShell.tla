------------------------------ MODULE MCShell ------------------------------
(***************************************************************************)
(* The shell on small instances.                                           *)
(***************************************************************************)
EXTENDS Shell, TLC

\* Every path of up to three tokens over one name, "/" and "..", and the
\* paths into and out of the mounted disk.
MCTokens == {"a", "..", "/"}
MCArgs ==
    {p \in UNION {[1 .. k -> MCTokens] : k \in 1 .. 3} :
        \A i \in 1 .. Len(p) - 1 : p[i] = "/" \/ p[i + 1] = "/"}
    \union {<<"disk">>, <<"/", "disk">>, <<"/", "disk", "/", "..">>,
            <<"/", "disk", "/", "a">>, <<".">>, <<"a", "/", ".">>}

MCJunk == {"", "a", "..", "disk"}

\* One file, for the runs about content.
MCOneFile == {<<"a">>}

MCOneByte == {<<"x">>}
MCPayloads == {<<"x">>, <<"x", "y">>}

MCSymmetry == Permutations(Node \ {root})
=============================================================================
