------------------------------ MODULE MCProcess ------------------------------
(* Process with command lines that meet each rule of the parsing, a clock   *)
(* of a few seconds, and a u64 of three bits.                               *)
EXTENDS Process, TLC

MCNumbers  == "0" :> 0 @@ "1" :> 1 @@ "2" :> 2 @@ "3" :> 3 @@ "7" :> 7
MCDefaults == [o \in Options |-> CASE o \in {"secret"} \cup Files -> None
                                   [] o \in Numeric -> "2"
                                   [] OTHER -> "default"]
MCCommandLines ==
  { <<>>, <<"help">>, <<"bad">>, <<"secret">>,
    <<"secret", "help">>, <<"secret", "k", "token_exp", "1">>,
    <<"secret", "j", "secret", "k">>, <<"token_exp", "7">>, <<"token_exp", "0", "version">>,
    <<"listen", "a", "username", "listen">>, <<"listen", "a", "listen", "a">>,
    <<"chunk_size", "3">>, <<"chunk_size", "3", "max_active_upload_bytes", "3">>,
    <<"max_active_upload_chunks", "0">>, <<"chunk_size", "k">>,
    <<"tls_cert", "a">>, <<"tls_cert", "a", "tls_key", "bad">>, <<"tls_cert", "a", "tls_key", "a">> }
MCEnvironments ==
  { Unset, [Unset EXCEPT !["secret"] = "k", !["max_active_upload_bytes"] = "1",
                         !["chunk_size"] = "1"] }

Parts     == {"", ".", "..", "a"}
MCPaths   == {<<x>> : x \in Parts} \cup (Parts \X Parts) \cup ({"", "a"} \X Parts \X {"..", "a"})
MCNames   == {<<x>> : x \in Parts} \cup {<<"a", "..">>, <<"..", "a">>, <<"", "a">>}
TheStore  == <<"srv", "store">>
=============================================================================
