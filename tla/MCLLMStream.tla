---------------------------- MODULE MCLLMStream -----------------------------
\* Answers with text, with calls, with both and with neither.
EXTENDS LLMStream

Text(body) == [type |-> "text", name |-> "", body |-> body]
Use(name, body) == [type |-> "tool_use", name |-> name, body |-> body]
Message(blocks, stop) == [blocks |-> blocks, stop |-> stop, usage |-> 5]
Messages == {Message(<<Text(<<"x", "y">>)>>, "end_turn"),
             Message(<<Text(<<"x">>), Use("f", <<"p", "q">>), Use("g", <<>>)>>, "tool_use"),
             Message(<<Use("f", <<"p">>)>>, "tool_use"), Message(<<>>, "end_turn"),
             Message(<<Use("f", <<"p">>), Text(<<"z">>), Use("f", <<"q">>)>>, "tool_use")}
=============================================================================
