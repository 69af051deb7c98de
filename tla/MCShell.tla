------------------------------ MODULE MCShell ------------------------------
(* Command lines for an array of four: a program, a misspelt one, output   *)
(* and input redirections, background, a redirection with its file name    *)
(* missing, at the end of the array and before it, and a line too long.    *)
EXTENDS Shell

MCLines == {<<>>, <<"exit">>, <<"run">>, <<"nosuch", "&">>, <<"run", ">", "f">>,
            <<"run", "<">>, <<"run", "a", "<">>, <<"run", "<", "x", "&">>}
=============================================================================
