----------------------------- MODULE MCSurface -----------------------------
(* Small instances of Surface.                                             *)
EXTENDS Surface

\* A peer only the directory admits, an unmapped one, none.
MCPeers == {[uid |-> "user", gid |-> "own"], [uid |-> "overflow", gid |-> "own"], None}
\* No account, the account's own group, and the admission group beside it.
MCAnswers == {None, {"own"}, {"own", "admin"}}
=============================================================================
