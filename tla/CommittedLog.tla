---------------------------- MODULE CommittedLog ----------------------------
(***************************************************************************)
(* What the Raft core of zraft promises its users, stated without messages *)
(* or disks: one log of committed entries that only grows, and, for each   *)
(* server, the sequence of entries its state machine has been given, which *)
(* only grows and is always a prefix of the committed log (spec S1, S2 and *)
(* 4.8: apply callbacks fire in strict commit order).                      *)
(*                                                                         *)
(* ZRaft refines this module: see ZRaft!Committed.                         *)
(***************************************************************************)
EXTENDS Naturals, Sequences

LOCAL INSTANCE SequencesExt

CONSTANT Server

VARIABLES
    clog,       \* the committed log
    applied     \* applied[s]: the entries s has applied, in order

vars == <<clog, applied>>

Init ==
    /\ clog    = << >>
    /\ applied = [s \in Server |-> << >>]

\* Entries are committed at the end of the log; a committed entry is never
\* replaced.
Commit == IsPrefix(clog, clog')

\* Server s applies further committed entries, in log order.
Apply(s) == /\ IsPrefix(applied[s], applied'[s])
            /\ IsPrefix(applied'[s], clog')

\* One step may commit entries and let any servers apply: a follower that
\* learns leader_commit commits and applies in the same callback.
Next == Commit /\ \A s \in Server : Apply(s)

Spec == Init /\ [][Next]_vars

\* Every server has applied a prefix of the committed log.
AppliedIsCommitted == \A s \in Server : IsPrefix(applied[s], clog)

=============================================================================
