---------------------------- MODULE MCMcpRuntime ----------------------------
(* Instance of McpRuntime for TLC: the second server has a name with "__",  *)
(* and both may offer a tool as mcp__a__b__t.                               *)
EXTENDS McpRuntime

TwoNames == << <<"a">>, <<"a", "b">> >>
TwoTools == {<<"t">>, <<"b", "t">>}
=============================================================================
