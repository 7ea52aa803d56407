------------------------------ MODULE MCMsgDemo ------------------------------
\* Three messages, of which the last two have the same priority.
EXTENDS MsgDemo
=============================================================================
