-------------------------- MODULE MCSidecarRuntime --------------------------
\* Answers without calls, with a registered and a missing tool, and with a call
\* under the stop reason end_turn.
EXTENDS SidecarRuntime

Answers == {[calls |-> <<>>, stop |-> "end_turn"], [calls |-> <<"f", "x">>, stop |-> "tool_use"],
            [calls |-> <<"f">>, stop |-> "end_turn"]}
=============================================================================
