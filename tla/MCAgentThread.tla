--------------------------- MODULE MCAgentThread ---------------------------
(* Instances of AgentThread for TLC. *)
EXTENDS AgentThread, TLC

Err(variant, status, hint) == [variant |-> variant, status |-> status, retry_after |-> hint]

\* One error that is never repeated, one that is repeated once, and one that
\* is repeated MAX_RETRY_ATTEMPTS times.
ShortErrors == { Err("AuthenticationError", 0, NoHint), Err("SerializeRequest", 0, NoHint) }
OneError == { Err("SerializeRequest", 0, NoHint) }
LongErrors == { Err("ServerOverloaded", 0, 3), Err("AuthenticationError", 0, NoHint) }

ToolSymmetry == Permutations(ToolIds)
=============================================================================
