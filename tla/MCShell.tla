------------------------------- MODULE MCShell -------------------------------
(* Instances of Shell for TLC.                                             *)
EXTENDS Shell

(* Every line of up to three tokens, and longer ones: pipelines of three   *)
(* stages, with files, with commands that fail, with empty commands.       *)
MCTokens == {"gen", "cat", "none", "<", "|", "&"}
MCLines ==
  UNION {[1 .. n -> MCTokens] : n \in 0 .. 3}
  \cup { <<"gen", "|", "cat", "|", "cat">>, <<"gen", "|", "cat", "|", "quit">>,
         <<"gen", "|", "none", "|", "cat">>, <<"cat", "<", "f", "|", "cat">>,
         <<"gen", "|", "cat", ">", "f">>, <<"gen", ">", "f", "|", "cat">>,
         <<"gen", "|", "cat", "<", "nofile">>, <<"gen", "|", "|", "cat">>,
         <<"gen", "|", "gen", ">", "f">>, <<"gen", ">">>, <<"|", "cat", "|", "cat">> }
=============================================================================
