----------------------------- MODULE MCWorkspace -----------------------------
(* Model checking of Workspace, Submission and Sessions: the workloads. *)
EXTENDS Workspace

CONSTANTS u1, u2, b1, b2

Work(ops, users, holders, blobs) == [ops |-> ops, users |-> users, holders |-> holders, blobs |-> blobs]

RollbackWork == Work({"call", "rollback"}, {}, {u1, u2}, {None, b1})
GateWork == Work({"call", "draft", "gate"}, {}, {u1}, {None, b1})
SessionWork == Work({"session", "restart"}, {}, {}, {})
SubmitWork == Work({"edit", "checkout", "submit", "draft", "gate", "call"}, {u1}, {}, {b1})
SyncWork == Work({"edit", "stage", "sync", "checkout", "submit", "rollback"}, {u1}, {u2}, {None, b1, b2})
CheckpointWork == Work({"edit", "checkout", "submit", "checkpoint", "call"}, {u1}, {}, {b1})
BranchWork == Work({"edit", "checkout", "submit", "switch", "call"}, {u1}, {}, {b1})
RestartWork == Work({"edit", "checkout", "submit", "checkpoint", "restart"}, {u1}, {}, {b1})

AllWork == {RestartWork, BranchWork, RollbackWork, GateWork, SessionWork, SubmitWork, SyncWork, CheckpointWork}
=============================================================================
