-------------------------- MODULE MCClaudeStream --------------------------
(* Small instances of ClaudeStream for TLC. *)
EXTENDS ClaudeStream

\* Short and long text, and text after a tag.
MCChunk == {<<"text">>, <<"text", "text", "text">>, <<"open", "text">>, <<"close", "text">>}

\* Text that is held back and text that is sent, where accounts matter.
FailoverChunk == {<<"text">>, <<"text", "text">>}
=============================================================================
