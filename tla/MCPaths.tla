------------------------------ MODULE MCPaths ------------------------------
(* A small tree: the shapes a directory and a file may have.               *)
EXTENDS Paths

Closed(uid) == Shape("dir", uid, 0, {}, FALSE, TRUE, "none")

SomeTops ==
    {Closed(Root), [Closed(Root) EXCEPT !.writers = {"other"}],
     [Closed(Root) EXCEPT !.writers = {"group", "other"}, !.sticky = TRUE]}

SomeDirs ==
    {Closed(Root), Closed(Stranger), Closed(DaemonUid),
     [Closed(Root) EXCEPT !.writers = {"other"}],
     [Closed(Root) EXCEPT !.writers = {"group", "other"}, !.sticky = TRUE],
     [Closed(Root) EXCEPT !.writers = {"group"}],
     [Closed(Root) EXCEPT !.writers = {"group"}, !.gid = Strangers],
     [Closed(Root) EXCEPT !.acl = "grants"],
     [Closed(Root) EXCEPT !.acl = "grants", !.sticky = TRUE],
     [Closed(Root) EXCEPT !.acl = "masked", !.writers = {"group"}],
     [Closed(Root) EXCEPT !.acl = "unreadable"],
     [Closed(Root) EXCEPT !.search = FALSE, !.writers = {"other"}],
     [Closed(DaemonUid) EXCEPT !.gid = DaemonUid, !.search = FALSE]}

SomeFiles ==
    {Shape("file", Root, 0, {}, FALSE, TRUE, "none"), Shape("file", Stranger, 0, {}, FALSE, TRUE, "none"),
     Shape("file", Root, Strangers, {"group"}, FALSE, TRUE, "none"),
     Shape("file", Root, Strangers, {"other"}, TRUE, TRUE, "none"),
     Shape("file", DaemonUid, 0, {}, FALSE, FALSE, "none"),
     Shape("file", Root, 0, {"group"}, FALSE, TRUE, "masked")}
=============================================================================
