------------------------------ MODULE Progress ------------------------------
(***************************************************************************)
(* Per-peer replication bookkeeping of a leader (src/src/progress.c).      *)
(*                                                                         *)
(* A progress record is [next, match, state, recent].  The timing fields   *)
(* (last_send, snapshot_last_send, recent_recv_time) are abstracted: the   *)
(* only use of time, "a heartbeat interval has elapsed", is an input       *)
(* `hb' chosen by the caller.  PROGRESS__SNAPSHOT is not represented: the  *)
(* only caller of progressToSnapshot is sendSnapshot, which this build     *)
(* never calls (replication.c:741 keeps it only as `(void)sendSnapshot').  *)
(***************************************************************************)
EXTENDS Naturals

Probe    == "probe"
Pipeline == "pipeline"
ProgressStates == {Probe, Pipeline}

NatMin(a, b) == IF a < b THEN a ELSE b
NatMax(a, b) == IF a < b THEN b ELSE a

\* initProgress: a fresh record for a leader whose log ends at lastIndex.
InitProgress(lastIndex) ==
    [next |-> lastIndex + 1, match |-> 0, state |-> Probe, recent |-> FALSE]

\* progressBuildArray: every server gets a fresh record; the leader's own
\* slot starts with match_index = last_stored.
BuildArray(servers, self, lastIndex, lastStored) ==
    [j \in servers |->
        IF j = self THEN [InitProgress(lastIndex) EXCEPT !.match = lastStored]
                    ELSE InitProgress(lastIndex)]

\* progressIsUpToDate
IsUpToDate(p, lastIndex) == p.next = lastIndex + 1

\* progressShouldPipeMore: the in-flight window next-match-1 is below the
\* threshold (0 disables the cap).
ShouldPipeMore(p, threshold) ==
    \/ threshold = 0
    \/ p.next <= p.match
    \/ p.next - p.match - 1 < threshold

\* progressShouldReplicate: PROBE sends once per heartbeat interval,
\* PIPELINE whenever it has new work inside the window, or on heartbeat.
ShouldReplicate(p, lastIndex, hb, threshold) ==
    IF p.state = Probe
    THEN hb
    ELSE (~IsUpToDate(p, lastIndex) /\ ShouldPipeMore(p, threshold)) \/ hb

\* progressToProbe (outside SNAPSHOT): resume from match_index + 1.
ToProbe(p) == [p EXCEPT !.next = p.match + 1, !.state = Probe]

\* progressToPipeline
ToPipeline(p) == [p EXCEPT !.state = Pipeline]

\* progressMarkRecentRecv
MarkRecentRecv(p) == [p EXCEPT !.recent = TRUE]

\* progressMaybeDecrement: filter a rejection carrying `rejected' and the
\* follower's last_log_index.  Returns the new record and whether the
\* leader retries.  A stale rejection in PIPELINE from a follower whose
\* log ends at index 1 restarts the record from scratch (initProgress,
\* which also clears the recent_recv just set by progressMarkRecentRecv).
MaybeDecrement(p, rejected, lastLogIndex, leaderLastIndex) ==
    IF p.state = Pipeline
    THEN IF rejected <= p.match
         THEN [p     |-> IF lastLogIndex = 1
                         THEN InitProgress(leaderLastIndex)
                         ELSE p,
               retry |-> FALSE]
         ELSE [p     |-> ToProbe([p EXCEPT !.next = NatMin(rejected, p.match + 1)]),
               retry |-> TRUE]
    ELSE IF rejected # p.next - 1
         THEN [p |-> p, retry |-> FALSE]
         ELSE [p |-> [p EXCEPT !.next = NatMin(rejected, lastLogIndex + 1)],
               retry |-> TRUE]

\* progressMaybeUpdate: raise match_index to lastIndex and push next_index
\* past it.  next_index is raised even when match does not advance.
MaybeUpdate(p, lastIndex) ==
    [p       |-> [p EXCEPT !.match = NatMax(@, lastIndex),
                           !.next  = NatMax(@, lastIndex + 1)],
     updated |-> p.match < lastIndex]

\* progressOptimisticNextIndex
OptimisticNext(p, next) == [p EXCEPT !.next = next]

=============================================================================
