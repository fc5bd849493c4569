------------------------------ MODULE MCShell ------------------------------
(* Argument lists for Shell: commands, a command in upper case, two other words, and
   arguments of no word or of several. *)
EXTENDS Shell

MCWord == DOMAIN commands \cup {"--DIR", "a", "b"}
MCArgument == {<<w>> : w \in MCWord} \cup {<<>>, <<"a", "b">>, <<"--rename", "a">>, <<"a", "--cd">>}
MCArgvs == UNION {[1..n -> MCArgument] : n \in 0..3}
=============================================================================
