--------------------------- MODULE MCRedisSession ---------------------------
(***************************************************************************)
(* A small Redis session for TLC.                                          *)
(***************************************************************************)
EXTENDS RedisReplies

Command(form, words) == [form |-> form, words |-> words]

Arrays ==
    {Command("array", words) : words \in
        {<<"PING">>, <<"MGET", "k", "k">>, <<"EXISTS", "k">>, <<"HGETALL", "k">>,
         <<"HKEYS", "k">>, <<"KEYS", "*">>, <<"KEYS", "k">>, <<"SCAN", "k">>,
         <<"SMEMBERS", "k">>, <<"CONFIG", "k">>, <<"COMMAND">>, <<"QUIT">>, <<"HELLO">>}}

MCCommands ==
    Arrays \cup {Command("inline", <<"PING">>), Command("inline", <<"KEYS", "*">>),
                 Command("cut", <<"MGET", "k">>), Command("cut", <<>>),
                 Command("short", <<"MGET", "k">>), Command("short", <<>>),
                 Command("none", <<>>), Command("blank", <<>>)}
=============================================================================
