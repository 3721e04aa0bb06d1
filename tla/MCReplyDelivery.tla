--------------------------- MODULE MCReplyDelivery ---------------------------
(* One job, alone or beside a cache that an earlier process left; two paths *)
(* are already too many for the disk.                                       *)
EXTENDS ReplyDelivery

CONSTANTS task, old

OneJob == {task}
OwnPaths == JobPaths(task)
AllPaths == {<<"cache", old>>} \union OwnPaths
=============================================================================
