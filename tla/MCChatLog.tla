----------------------------- MODULE MCChatLog -----------------------------
EXTENDS ChatLog

MCOwn == {m \in Messages : m = 2}
=============================================================================
