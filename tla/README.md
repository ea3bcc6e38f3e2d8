# TLA+ models of zraft

This directory checks the Raft core of zraft (`src/src/`) with TLC. It covers elections, term persistence, log replication, the follower append path, disk I/O, commit and the asynchronous apply pipeline, and, in a separate module, membership changes as the leader performs them.

## The system and its parts

zraft is an event-driven C library. Every step runs on one loop thread and is one of these:

- a received message;
- an I/O completion callback (disk append, disk truncate, `set_meta`, or a send);
- a state-machine apply callback;
- a tick;
- a client call.

Concurrency therefore comes from asynchrony. Many requests can be in flight at once, and their callbacks run in any order relative to incoming messages.

| Part | Source | What it does |
|---|---|---|
| Receive | `recv.c` | `recvCb` drops any message while the server is unavailable or a `set_meta` is in flight. Otherwise `recvMessage` dispatches it. If an AppendEntries or its result carries a newer term, `recvEnsureMatchingTerm` first persists that term asynchronously. `recvBumpTermIOCb` then calls `recvCb` again, synchronously, with the same message. |
| Election | `recv_request_vote.c`, `recv_request_vote_result.c` (`election.c`, `convert.c` and `tick.c` are outside `src/`) | Votes are persisted with `set_meta` before the reply is sent (RAFT_ASYNC_ALL build). Pre-vote is supported. `convertToLeader` may append a no-op barrier. |
| Leader replication | `replication.c` (`replicationProgressInner`, `sendAppendEntries`, `triggerAll`, `appendLeader(Cb)`, `replicationUpdate`, `replicationQuorum`) | The leader writes its own entries asynchronously and sends AppendEntries in PROBE or PIPELINE mode. It commits on a majority of `match_index`. |
| Progress | `progress.c` | Per-peer `next_index`, `match_index`, PROBE/PIPELINE state and the in-flight window. |
| Follower append | `replication.c` (`replicationAppend`, `deleteConflictingEntries`, `appendFollowerCb`, `sendAppendEntriesResult`) | Checks consistency, truncates conflicting entries, writes asynchronously, and acknowledges `last_stored`. |
| Apply | `replication.c` (`replicationApplyInner`, `applyCommandCb`, `replicationApplyLeaderCb`) | Commands are handed to the FSM asynchronously and counted in a batch. A barrier is applied in place only when no command is in flight. When a completed batch was started by a leader, its callback re-enters the apply loop. |
| Client | `client.c` (`raft_apply`, `raft_barrier`) | Appends an entry and calls `replicationTrigger`. |
| Membership | `client.c` (`raft_add`, `raft_assign`, `raft_joint_promote`, `raft_dup`, `raft_remove`, `clientChangeConfiguration`), `replication.c` (`applyChange`, `triggerAll`, `appendLeaderCb`, `replicationQuorum`), `progress.c` (`progressRebuildArray`); `configuration.c` and `membership.c` are outside `src/` | The leader appends the new configuration as a CHANGE entry and adopts it at once. It commits the entry on its role-counted quorum, and `applyChange` completes the request. A promotion of a server that is behind starts a catch-up round instead. |
| Not modelled | `raft_transfer`, snapshots, pgrep, `state.c` | See below. |

## Modules

- **`Progress.tla`** models `progress.c`. Each function becomes an operator over a record `[next, match, state, recent]`. Time is abstracted to a boolean `hb`, meaning "a heartbeat interval has elapsed".
- **`ZRaft.tla`** models the cluster.
- **`CommittedLog.tla`** is the abstract specification: one committed log that only grows, and for each server the entries it has applied, always a prefix of the committed log. `ZRaft` refines it through `Committed == INSTANCE CommittedLog WITH ...`:
  - the committed log is the prefix `1..commit_index` of the log of a server whose `commit_index` is highest;
  - a server's applied entries are the prefix `1..last_applied` of its own log.

  The runs check `CommittedLogRefined == Committed!Spec` as a PROPERTY.

### ZRaft state

`ZRaft.tla` has one variable per field of `struct raft` it tracks (`currentTerm`, `votedFor`, `state`, `lastStored`, `commitIndex`, `lastApplying`, `lastApplied`, `progress`, …), plus:

- `pendingMeta`: the `set_meta` in flight, which is the `io->state == BUSY` of the code.
- `redeliver`: the message `recvBumpTermIOCb` is about to re-dispatch.
- `disk`: the durable prefix of the log.
- `ioQueue`: appends and truncations in submission order. The backend completes them in order.
- `batches`: the live `struct applyBatch` records.
- `messages`: a set of messages. Delivery is in any order, and a message may be delivered late or never.
- `faults`: failed disk writes, failed sends, crashes with restart, and the assertions that have aborted a server.
- `committed`: a history of every `[index, entry]` that any server has committed.

### ZRaft actions

Each handler is one action, and it includes every state-changing call the handler makes. For example:

- `ClientAppend` models `raft_apply` → `replicationTrigger` → `appendLeader` and `triggerAll`.
- `AppendLeaderDone` models `appendLeaderCb` → `updateLastStored`, `replicationQuorum` and `replicationApply`.
- `HandleAppendEntriesResult` models `replicationUpdate` with `progressMaybeDecrement`/`MaybeUpdate`, the retry `replicationProgressInner`, commit and apply.

Further modelling choices:

- **Assertions.** A failing `assert()` ends the process. The server is added to `faults.aborted` with the function it failed in, and it takes no further step. The properties `*Assertion` say that a given assertion never fails.
- **`LogBusy`.** `logTruncate` is modelled with the `LOG_BUSY` outcome from spec §4.1. An entry is referenced while a write in the I/O queue covers it. It may also still be referenced while an AppendEntries that carries it has not completed its send; that case is nondeterministic, because the time of the send callback is not fixed.
- **Ignored results.** `recvAppendEntriesResult` discards a result that reaches a server that is not leader, or that carries an older term (`IgnoreAppendEntriesResult`). A result that bumped the term is therefore consumed when `recvBumpTermIOCb` re-dispatches it.
- **Crash and restart.** `Restart(s)` (at most `MaxRestarts` times) models a crash followed by `raft_start`, which is outside `src/`:
  - the term and vote loaded are either the ones last persisted or those of the `set_meta` that was in flight;
  - the log loaded is the disk after some prefix of the queued writes completed (`PerformAll` applies them in order, `Performed` applies one);
  - every volatile field is reset: follower with no known leader, no batches, `commit_index`, `last_applying` and `last_applied` at 0.

  Restarts are enabled only in `prevote`. `CommittedLogRefined` maps the committed log to the highest `commit_index`, and a restart resets it to 0, so the runs that check the refinement keep `MaxRestarts = 0`.
- **`RaftLeader(s)`** is `raft_leader` from `state.c`: no leader while unavailable or candidate, `current_leader` while follower, itself while leader.
- **Sources.** `election.c`, `tick.c`, `log.c`, `raft_start` and the I/O backend are not under `src/`. Their steps (`ElectionStart`, `ElectionVote`, `Timeout`, `CheckQuorum`, `LogTerm`, `Truncate`, `LogBusy`, `Durable`, `DiskTruncate`, `Performed`, `Restart`) are modelled from `spec.md` and marked `spec_modelled` in `PROJECT.json`.

`PROJECT.json` `map` names the source lines behind every definition.

### Membership

`Membership.tla` follows one leader (`Self`) through membership changes. Its followers are abstracted to the `match_index` the leader keeps for them.

State:
- `conf` is `r->configuration`, a record with `phase` and, per server id, `role` (`Absent` for a non-member), `roleNew` and `group`.
- `log` holds `[type, conf]` entries.
- `lastStored`, `match`, `commitIndex`, `lastApplying`, `lastApplied`, `uncommitted` (`configuration_uncommitted_index`) and `confIndex` (`configuration_index`) mirror the code.
- `change`, `promotee`, `removeId` and `removedFromCluster` are fields of `leader_state`.
- `removed` is `r->removed`.
- `batches` lists the command batches handed to the state machine (`applyCommand`), oldest first, each with its number of unfinished commands and whether `replicationApplyInner` ran its loop to the end when it handed it over (`pgrep_task.complete`).
- `cbs` lists the change callbacks fired, in order.
- `aborted` records the functions whose assertion failed.
- `snapIndex`, `logStart` and `snapPending` are `log.snapshot.last_index`, the first index still held in memory, and the snapshot being written.
- `preRole` is each server's `pre_role`, and `pgrep` the servers whose progress has the `replicating` flag.

Actions:
- **Client calls.** One action per client call: `RaftApply`, `RaftBarrier`, `RaftAdd`, `RaftAssign`, `RaftJointPromote`, `RaftDup` and `RaftRemove`. Each takes its guards from the early returns. `ClientChangeConfiguration` is the shared tail: append, `progressRebuildArray`, adopt the configuration, record the uncommitted index, and set `removed_from_cluster`. `raft_assign` and `raft_joint_promote` edit `r->configuration` in place, so they keep `r->role`. `replicationTrigger` (`client.c:199`) runs `triggerAll` before the uncommitted index is set, so `raft_add`, `raft_dup` and `raft_remove` go through `SubmitChange`: when a follower that misses compacted entries is reached there, its demotion (`assignRole` → `raft_assign(STANDBY)`) passes `can_change`, sets `leader_state.change` and appends a second CHANGE inside the call, and the caller's `assert(change == NULL)` then aborts. A `triggerAll` that starts nothing is the same as a later `ReplicationProgress` step, so `RaftApply`, `RaftBarrier`, `RaftAssign` and `RaftJointPromote` leave it to that action (for the last two a nested `raft_assign` fails `can_change`, since they set `change` first).
- **`AppendLeaderCb`.** The leader's write of the next entry completes. Each call submits its own write, and writes complete in order.
- **`ReplicationUpdate(j)`.** Follower `j` acknowledges up to some index. A spare is skipped unless it is the promotee, as in `triggerAll`.
- **Commit and apply.** Both of the last two actions commit with `replicationQuorum` and then run `replicationApplyInner` (`ReplicationApply`, looping with `ApplyLoop`). `appendLeaderCb` calls it on every write; `replicationUpdate` only when the reply raised `match_index`. It returns at once when `last_applying` or `last_applied` equals `commit_index`. Otherwise it hands the commands to the state machine as one batch, applies a barrier or CHANGE (`applyChange`) only while no command is in flight, and stops at the first one it meets while one is (`replication.c:2501`), leaving the batch incomplete. The snapshot check runs only when the loop reached the end with nothing in flight.
- **`ApplyDone`.** The state machine completes the oldest command (`applyCommandCb`). The last command of a complete batch re-enters `replicationApplyInner` through `replicationApplyLeaderCb`, with the `commit_index` of that moment.
- **Catch-up rounds.** A round never ends: `triggerActualPromotion` is commented out in `replication.c`.
- **Snapshots.** When `replicationApplyInner` finishes with nothing left at the state machine (no command in the range, since commands complete asynchronously), `TakeSnapshot` starts a snapshot at `last_applied` once `last_applied - snapshot.last_index >= Threshold`. `takeSnapshot` may fail at once (`replication.c:2372`–`2387`), which only clears `snapshot.pending`. `TakeSnapshotCb` compacts the log with `logSnapshot` (spec §4.1, keeping `Trailing` entries) or, on failure, only closes the snapshot.
- **`ReplicationProgress(j)`** is `replicationProgressInner` for one follower, reached from a heartbeat, an append's trigger or a catch-up start. Its followers' `next_index` is taken as the probed `match_index + 1`. It has three outcomes that change state:
  - a server with the `replicating` flag that is not STANDBY fails the assertion of `enterPgrepicating`;
  - a STANDBY first reached gets the flag;
  - a server whose next entry was compacted away is demoted by `AssignRole` (`assignRole` → `raft_assign(STANDBY)`, in place, `pre_role` set), which only succeeds when `can_change` does.

  A server on the pgrep path (`OnPgrepPath`: the flag, or STANDBY, or being demoted) receives only empty heartbeats, because `pgrep_id` is invalid, so `ReplicationUpdate` raises only the match index of a follower off that path whose previous entry is still known. A follower holds exactly what its `match_index` says here, so a heartbeat's reply (STANDBY servers included) reports no index above it, `progressMaybeUpdate` returns false and `replicationUpdate` returns before it changes anything; these replies are therefore not actions. `assignRoleCb`, fired by `applyChange`, resets `pre_role`.

`configuration.c` (add, remove, `JointRemove`, `JointToNormal`, the voter count) and `membership.c` (`CanChange`) are modelled from spec §3 and §4.9. `CanChange` rejects while a CHANGE entry is uncommitted or a change request is pending. `Halted` stutters after an abort, after the leader stepped down (its owner releases a removed server) and at the log bound.

### MCMembership

`MCMembership.tla` instantiates `Membership` as follows:
- four ids;
- the leader `s1`;
- the bootstrap voters `s1`–`s3`, whose configuration is committed at index 1;
- `s4`, which can be added;
- symmetry over `s2` and `s3`.

### MCZRaft

`MCZRaft.tla` instantiates ZRaft for TLC:

- three servers, or two for some runs, plus one payload, all as model values;
- symmetry over servers and payloads;
- a bound on the messages in flight (`MaxInFlight`);
- a `VIEW` that shows a role's fields only while the server has that role:
  - the progress array while leading (`convertToLeader` rebuilds it);
  - votes and the pre-vote flag while a candidate (the election start resets them);
  - the known leader while a follower (every conversion to follower sets it).

## Runs

| Run | Expect | Checks | Shows |
|---|---|---|---|
| `prevote` | pass | ElectionSafety, VoteOncePerTerm, TermMonotone | With pre-vote and one crash and restart, which may lose an in-flight `set_meta` or write: one leader per term, and no voter is counted by two servers of one term past pre-vote (spec T2), although votes are persisted asynchronously and messages are dropped during `set_meta`. Terms never decrease. The vote reply leaves only from `respondToRequestVote`, after the vote is durable; replying first lets a restarted server vote twice. |
| `replication` | pass | LogMatching, StoredIsDurable, IndexOrder, CommittedLogRefined | With two entries per log and PIPELINE optimism with an in-flight window of one entry (`InflightThreshold = 1`, so stale and overlapping appends and rejections occur): logs match, `last_stored` is durable, `applied <= applying <= commit <= stored`, and the cluster implements `CommittedLog`. |
| `two_terms` | pass | StateMachineSafety, CommittedLogRefined | Across two terms, with a no-op barrier from each new leader and a lossy network, no index commits two different entries and the committed log only grows. `replicationQuorum` does not require an entry of the current term, as spec 4.6 does; two terms are too few for that to lose an entry (see Not modelled). |
| `io_failure` | pass | TypeOK, IndexOrder, AppendIndexAssertion | Two servers, one disk failure and one send failure, two entries: the index order holds, and `appendLeader`'s `index > last_stored` (`replication.c:935`) never fails. A failed write truncates only when no later write is queued, so `last_stored` stays below the cut. |
| `apply_liveness` | pass | FollowerApplies | Under the fairness below, a follower eventually applies everything it committed. When its loop stopped at a barrier, the next heartbeat re-enters it (`leader_commit > last_applying`, `replication.c:1798`). |
| `leader_stall` | violation | LeaderApplies | A leader's apply loop stops at a barrier behind a command in flight. Its batch never completes, and `replicationUpdate` re-enters the loop only when `match_index` advances. The barrier is never applied. |
| `failed_write_commit` | violation | StateMachineSafety | A failed leader write truncates an entry that was already sent, and the leader reuses its index in the same term. With one disk failure, two different entries end up committed at one index. |
| `apply_candidate` | violation | ApplyStateAssertion | A batch callback re-enters the apply loop on a candidate. |
| `commit_regress` | violation | CommitMonotone | A delayed empty AppendEntries lowers a follower's `commit_index`. |
| `membership` | pass | TypeOK, UncommittedChangeSound, ApplyCallbackAssertion | Any sequence of the seven client calls, on logs of up to four entries, with asynchronous command apply, snapshots (threshold 2, no trailing entries), demotions of followers that miss compacted entries, and followers acknowledging in any order. While the leader runs, `configuration_uncommitted_index` is the last CHANGE exactly while it is unapplied (spec S5), there is never a second unapplied CHANGE, and `configuration_index` is the last applied CHANGE, although a CHANGE committed behind a command waits for it. The entries between `last_applied` and `last_applying` are commands, one per batch slot, so `applyCommandCb`'s `assert(last_applied + 1 == index)` (`replication.c:2160`) always holds. |
| `removed_leader_write` | violation | AppendLeaderChangeAssertion | `raft_apply`, then `raft_remove` of the leader itself. The command's write completes after the removal, and `appendLeaderCb`'s `assert(entry->type == RAFT_CHANGE)` (`replication.c:904`) aborts the leader. |
| `joint_quorum` | violation | JointCommitQuorum | `replicationQuorum` counts servers by `role == VOTER` only. A JOINT entry therefore commits without a majority of the NEW group (spec 4.6, E4). |

`PROJECT.json` `findings` explains each violation with its source line. `mutants` names, for each property of a passing run, a plausible bug in a mapped definition that the property catches.

## Bounds

- **`MaxTerm` (1–2).** Two terms are enough for the conflicts that matter: a deposed leader, a stale entry, a reordered message of the older term.
- **`MaxLogLen` (0–3).** This bounds client entries; the no-op barrier of `BecomeLeader` is not counted. There is at most one client command (`Value = {v1}`), and barriers fill the rest. A second command adds no control path the first does not take.
- **`MaxInFlight` (2–3).** This bounds the number of messages in the network.
- **`InflightThreshold` (0 or 1).** The PIPELINE window of `progress.c:120`. `replication` uses 1, so a second append is sent before the first is acknowledged and replies overtake each other; the other runs use 0 to keep their state spaces small.
- **`Lossy`.** Enables `LoseMessage`. The send callbacks of RequestVote and of results ignore their status, so the transport may drop any message. `two_terms` uses it with `MaxInFlight = 2`: stale messages then leave the network instead of using up the bound.
- **`MaxIOFailures` and `MaxSendFailures` (0–1).** One failure is enough to reach every failure branch.
- **`LeaderTimeouts`.** Switches `CheckQuorum` on or off; some runs turn it off to keep the state space small. `io_failure` and `apply_candidate` keep it on.
- **`MaxRestarts` (0–1).** One crash suffices to lose the one `set_meta` in flight; `prevote` uses it.
- **Two-server runs.** `commit_regress`, `io_failure` and the liveness runs use two servers. This keeps the longer logs (2–3 entries) within reach.
- **Snapshots** (`Threshold` 2, `Trailing` 0). A snapshot is taken as soon as two entries are applied, and it drops every entry before it. A follower that has not stored entry 2 then misses it, which is the case `change_standby` handles.
- **Membership** (`MaxLogLen` 4 with the bootstrap entry, 3 for `removed_leader_write`). Four entries let a server be added, assigned STANDBY, caught up and joint-promoted. They also let a JOINT configuration be collapsed by `raft_remove` and committed, and the three bootstrap voters be removed one by one. Four ids are the fewest for E4.
- **Liveness runs** (`apply_liveness`, `leader_stall`) use one term, two entries (a command and a barrier) and no losses. They run without symmetry or view, as TLC requires for liveness. The apply stall needs no election to happen.

Every bound is a named constant. A state at a bound is not a deadlock: when a follower or candidate cannot time out because of `MaxTerm`, the action `TermBoundReached` stutters. The program's tick never stops, so deadlock checking stays on for every other state.

## Fairness

`FairSpec == Spec /\ Fairness` puts weak fairness on the steps the program always eventually takes:

- the I/O backend completing every `set_meta` (`SetMetaDone`), append (`AppendLeaderDone`, `AppendFollowerDone`) and truncate (`DiskTruncate`) it was given;
- the state machine completing every command (`ApplyDone`);
- `recvBumpTermIOCb` re-dispatching its message (`Redeliver`);
- the leader's heartbeat timer firing (`Heartbeat`, from the tick);
- delivery of a message that is not lost (`Deliver`; the liveness runs set `Lossy = FALSE`).

Elections, client requests, check_quorum, disk and send failures, and losses are never forced. Only the liveness runs use `FairSpec`; the others check safety under `Spec`.

## Not modelled

- **Parts of membership.** `Membership` follows one leader and leaves out:
  - the follower side: `membershipUncommittedChange` in `appendFollowerCb` and `membershipRollback` on truncation;
  - elections during a change;
  - failures of `replicationTrigger` inside `clientChangeConfiguration` (see the `client.c:200` hazard).
- **A CHANGE stranded behind a command.** A CHANGE committed in the same `replicationApplyInner` call as a command before it is not applied (`replication.c:2501`), and the batch is incomplete, so the command's completion does not re-enter the loop. Under the `membership` constants TLC reaches, in eight states, a leader that ran `raft_apply` and `raft_remove(s1)`, saw both committed by one reply and completed the command: the CHANGE is committed but unapplied, `configuration_uncommitted_index` stays set and `can_change` rejects every change. Only a reply that raises a `match_index` or a new write calls `replicationApply` again; when all followers are caught up, the removed leader can write only a barrier, and `appendLeaderCb`'s assertion then aborts it. This is the mechanism of the `leader_stall` finding, there with a barrier. A liveness run of `Membership` would need fairness and no symmetry, and the run budget holds the safety runs.
- **The nested demotion.** `ChangeRequestAssertion` (`MCMembership` with the `membership` constants, `INVARIANT ChangeRequestAssertion`) is violated in six states: a barrier is committed and a snapshot at index 2 drops entry 1, then `raft_dup` runs while `s3`'s `match_index` is 1. `triggerAll` inside `clientChangeConfiguration` demotes `s3`, and `assert(r->leader_state.change == NULL)` (`client.c:405`) aborts the leader. `UncommittedChangeSound` holds only while no assertion has fired, so the `membership` run does not see it.
- **Catch-up promotion liveness.** After a catch-up round, `leader_state.change` stays set for the rest of the term. Every later `can_change` is then rejected (hazard at `replication.c:993`). Stating it as a leads-to property needs a fair run without symmetry. The run budget holds the three membership runs above instead.
- **Leadership transfer** (`raft_transfer`).
- **Snapshot transfer.** This build never sends a snapshot (`(void)sendSnapshot`), so install and follower-side snapshots are not reachable. Snapshot taking, compaction and the STANDBY demotion are modelled in `Membership` on the leader only.
- **The fresh `replicating` flag.** `initProgress` does not set `replicating`; `Membership` takes a new progress record as zeroed. Any other value would make every new leader fail the `enterPgrepicating` assertion at its first heartbeat.
- **The pgrep tick protocol.** The permit is always granted to the leader and no pgrep group exists. Only the routing of `enterPgrepicating` and the heartbeat-only answer are modelled.
- **`state.c` accessors** other than `raft_leader`. They read one variable each.
- **The log's ring buffer and reference counts.** These are abstracted to sequences and `LogBusy`.
- **Error returns for memory allocation.**
- **Runs no longer kept.** These earlier runs were merged or dropped. Each violation reappears under `MCZRaft` with the constants given (the others as in `replication`):
  - `match_heartbeat` (MaxTerm 2, MaxLogLen 1, three servers, `INVARIANT MatchIndexSound`). `replicationUpdate` takes a follower's `last_stored` from a heartbeat reply as `match_index`, over an entry that differs from the leader's (`replication.c:1089`).
  - `failed_write_stored` (MaxTerm 1, MaxLogLen 2, one disk failure, `INVARIANT StoredIsDurable`). `updateLastStored` advances `last_stored` over a failed write (`replication.c:823`). Its consequence is what `failed_write_commit` shows.
  - `conflict_busy` (MaxTerm 2, MaxLogLen 1, `INVARIANT AppendCountAssertion`). `deleteConflictingEntries` ignores `LOG_BUSY`, and `assert(n_entries == n)` aborts a deposed leader (`replication.c:1455`).
  - the violation of `PrevEntryAssertion` (`replication.c:717`), under `io_failure`'s constants with `INVARIANT PrevEntryAssertion`. The leader's write of its no-op barrier fails and truncates its log, while the follower has already stored the barrier. The next heartbeat finds no term for `prev_index` and the assertion aborts the leader. It comes from the same failed-write truncation as `failed_write_commit`.
  - the no-pre-vote election run. Its properties are checked by `prevote`.
  - `ReplicableQuorum` (`MCMembership` with the `membership` constants, `INVARIANT ReplicableQuorum`). It says that a leader keeps a majority of voters it can still send entries to. `s3` has stored only entry 1 when a snapshot at index 2 drops entry 1, so the leader no longer knows the term of the entry before `s3`'s next one. The leader then submits a removal (TLC's shortest trace removes the leader itself). The new configuration's majority needs `s3`, which can only be demoted, and the demotion's `raft_assign` fails while the removal is uncommitted (`replication.c:719`, `735`). Nothing commits again. Spec 4.6 sends a snapshot at this point instead.
  - `PgrepStandbyAssertion` (`MCMembership` with the `membership` constants, `INVARIANT PgrepStandbyAssertion`). The sequence is `raft_assign(s2, STANDBY)`, a heartbeat sets `replicating` on `s2`, then `raft_assign(s2, SPARE)`, then `raft_assign(s2, VOTER)`. The catch-up round reaches the SPARE promotee, whose flag is still set, and `assert(server->role == RAFT_STANDBY)` (`replication.c:633`) aborts the leader.
  - `LeaderReportAgreement` (PreVote FALSE, MaxTerm 3, NoOp FALSE, LeaderTimeouts TRUE, MaxLogLen 0, three servers, MaxInFlight 2, `INVARIANT LeaderReportAgreement`). It says that two servers of one term that both report a leader through `raft_leader` report the same one. `recvBumpTermIOCb` converts to follower only a server that is not already one (`recv.c:97`), so a follower that takes a newer term from a vote message keeps `current_leader` from the older term. TLC finds within seconds a follower of term 3 that still reports the leader of term 2 while another server leads term 3.
- **The old-term commit rule.** Spec 4.6 commits only with an entry of the current term; `replicationQuorum` does not check this. When the spec's rule was stated as an action property, a two-server model with no no-op barrier violated it: a leader of term 2 committed a term-1 entry on a quorum of `match_index` alone. No run keeps that check. `two_terms` checks `StateMachineSafety` and `CommittedLogRefined` with two terms and three servers, which cannot reach the overwrite the rule prevents: that needs the trace of the Raft paper's Figure 8, with at least four terms and five servers, beyond TLC at these log bounds. The hazard stays open.

## Plan

These are the next steps:

1. The follower side of membership (`membershipUncommittedChange`, `membershipRollback`) composed with `Membership`.
2. A liveness run for catch-up promotion (`ChangeCompletes`).
3. Liveness of elections (a leader is eventually elected and `commit_index` advances, spec T5). This needs fairness on timeouts, which the tick provides only with randomised election timeouts.
4. Larger instances of `replication` (three entries) once the state space allows.
5. A run for `ReplicableQuorum`, `PgrepStandbyAssertion` or `ChangeRequestAssertion` if a run slot becomes free. Each one is a violation found while modelling snapshots and demotion.
6. Restarts in the refinement runs. This needs a mapping of the committed log that survives a restart, for example the highest `commit_index` ever reached.
