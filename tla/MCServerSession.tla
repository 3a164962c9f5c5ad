-------------------------- MODULE MCServerSession --------------------------
\* Two runtimes, a kind no runtime serves, and more calls than the channel holds.
EXTENDS ServerSession
=============================================================================
