----------------------------- MODULE MCNotices -----------------------------
(* Small instances of Notices: excerpts of configuration files.            *)
EXTENDS Notices, TLC

CONSTANTS Exchange, Key

\* config.toml, with pages of one in the place of ten; the same without the
\* size of notices, or with zero, which counts as missing; without any size;
\* and one with the table that RequestOption looks for.
ConfigToml ==
  <<"system", "size">> :> 2 @@ <<"system", "notice", "size">> :> 1
    @@ <<"global", "rabbitmq", "rpc", "exchange">> :> Exchange

MCFiles ==
  {ConfigToml,
   [ConfigToml EXCEPT ![<<"system", "notice", "size">>] = 0],
   <<"global", "rabbitmq", "rpc", "exchange">> :> Exchange,
   <<"notice", "setNotice", "routingKey">> :> Key @@ ConfigToml}

Symm == Permutations(Tids) \cup Permutations(Reads)
=============================================================================
