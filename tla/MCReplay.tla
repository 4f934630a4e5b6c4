------------------------------- MODULE MCReplay -------------------------------
(* Model checking of Replay and AuditChain: the workloads of the runs. *)
EXTENDS Replay

\* A quorum of none, of two, of more witnesses than there are, and of two that have
\* one identifier.
TrailSettings ==
  { [witnesses |-> <<"a">>, quorum |-> 0], [witnesses |-> <<"a", "b">>, quorum |-> 2],
    [witnesses |-> <<"b">>, quorum |-> 3], [witnesses |-> <<"a", "a">>, quorum |-> 2] }

Load(op, lossy, audit, seeded, settings) ==
  [ops |-> {op}, lossy |-> lossy, audit |-> audit, seeded |-> seeded, settings |-> settings]

NoQuorum == { [witnesses |-> <<"a">>, quorum |-> 0] }

EmptyChain == { Load("other", FALSE, TRUE, FALSE, NoQuorum) }

\* Appends to the audit chain at the end of other handlers, and after the events of
\* locks, of which some are lost.
ChainWorkloads ==
  { Load("lock", TRUE, TRUE, TRUE, NoQuorum),
    Load("other", FALSE, TRUE, TRUE, TrailSettings) } \cup EmptyChain

\* And versions with lost events.
TrailWorkloads == { Load("version", TRUE, FALSE, FALSE, NoQuorum) } \cup ChainWorkloads
==============================================================================
