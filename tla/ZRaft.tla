------------------------------- MODULE ZRaft -------------------------------
(***************************************************************************)
(* A cluster of zraft servers: leader election with optional pre-vote,    *)
(* the asynchronous (term, vote) persistence that serialises term bumps   *)
(* (recv.c, recv_request_vote*.c), log replication with per-peer progress *)
(* and asynchronous, ordered disk writes (replication.c), the leader's    *)
(* quorum commit and the asynchronous state-machine apply pipeline.       *)
(*                                                                         *)
(* All servers are voters of one fixed configuration; membership change,  *)
(* leader transfer, snapshots and the pgrep vendor extension are outside  *)
(* this module (see README.md).  The network is a set of messages: they   *)
(* are delivered in any order, late or never (a message that is never     *)
(* received is a lost one); a receive consumes the message.                *)
(***************************************************************************)
EXTENDS Naturals, Sequences, FiniteSets, Progress

CONSTANTS
    Server,          \* server ids (model values)
    Value,           \* client command payloads (model values)
    Nil,             \* "no server" / "no request"
    PreVote,         \* raft_set_pre_vote
    NoOp,            \* leader appends a barrier on election (no_op)
    InflightThreshold, \* inflight_log_threshold (0: no cap)
    MaxTerm,         \* bound on terms
    MaxLogLen,       \* bound on log length
    MaxIOFailures,   \* bound on failed disk writes
    MaxSendFailures, \* bound on failed sends of AppendEntries
    MaxRestarts,     \* bound on crashes followed by a restart
    LeaderTimeouts,  \* whether a leader's election interval may elapse
                     \* (check_quorum) within the checked horizon
    Lossy            \* whether the transport may lose a message outright

Follower    == "follower"
Candidate   == "candidate"
Leader      == "leader"
Unavailable == "unavailable"

Command == "command"
Barrier == "barrier"

VARIABLES
    currentTerm,   \* r->current_term
    votedFor,      \* r->voted_for
    state,         \* r->state
    currentLeader, \* r->follower_state.current_leader.id
    inPreVote,     \* r->candidate_state.in_pre_vote
    votes,         \* r->candidate_state.votes, as the set of granters
    pendingMeta,   \* io->state == BUSY: the set_meta request in flight
    redeliver,     \* message re-dispatched by recvBumpTermIOCb (recvCb)
    log,           \* r->log in memory: sequence of [term, type, val]
    disk,          \* the log as the I/O backend has made it durable
    ioQueue,       \* io->append / io->truncate requests, in submission order
    lastStored,    \* r->last_stored
    commitIndex,   \* r->commit_index
    lastApplying,  \* r->last_applying
    lastApplied,   \* r->last_applied
    batches,       \* live struct applyBatch records, oldest first
    progress,      \* r->leader_state.progress
    messages,      \* messages sent
    submitted,     \* client payloads handed to raft_apply
    faults,        \* [io, send, restart: failed disk writes, failed sends and
                   \*  restarts so far, aborted: the failing
                   \*  assertions hit, as [server, at] records]
    committed      \* history: every [index, entry] some server has committed

serverVars  == <<currentTerm, votedFor, state, currentLeader, inPreVote, votes,
                 pendingMeta, redeliver>>
logVars     == <<log, disk, ioQueue, lastStored>>
applyVars   == <<commitIndex, lastApplying, lastApplied, batches>>
vars        == <<serverVars, logVars, applyVars, progress, messages, submitted,
                 faults, committed>>

-----------------------------------------------------------------------------
(* Log helpers (log.c is not under src/; modelled from spec.md section 4). *)

\* logTermOf: 0 for an index the log does not hold.
LogTerm(lg, i) == IF i \in 1..Len(lg) THEN lg[i].term ELSE 0

\* logLastTerm
LastTerm(lg) == LogTerm(lg, Len(lg))

\* logTruncate(index): drop index and everything after it.
Truncate(lg, index) == SubSeq(lg, 1, NatMin(index - 1, Len(lg)))

Quorum(S) == 2 * Cardinality(S) > Cardinality(Server)

Send(ms) == messages' = messages \cup ms

\* A handler consumes the message it handles and sends ms.
Reply(m, ms) == messages' = (messages \ {m}) \cup ms

\* A server whose set_meta callback is re-dispatching a message runs no
\* other code until that dispatch returns.
Idle(s) == redeliver[s] = Nil

-----------------------------------------------------------------------------
(* Replication helpers (replication.c).  They are operators over explicit  *)
(* arguments so that a handler can chain them in the order the code calls *)
(* them and see the values earlier calls produced.                         *)

\* Mutation of AppendEntriesMsg: entries taken from one index too far.
AppendEntriesMsgSkip(s, j, lg, cm, prev) ==
    [type |-> "AE", src |-> s, dst |-> j, term |-> currentTerm[s],
     prev |-> prev, prevTerm |-> LogTerm(lg, prev),
     entries |-> SubSeq(lg, prev + 2, Len(lg)), commit |-> cm]

\* sendAppendEntries after replicationProgressInner chose prev_index: the
\* entries from next_index to the last index, leader_commit = commit_index;
\* in PIPELINE next_index is optimistically moved past them.
AppendEntriesMsg(s, j, lg, cm, prev) ==
    [type |-> "AE", src |-> s, dst |-> j, term |-> currentTerm[s],
     prev |-> prev, prevTerm |-> LogTerm(lg, prev),
     entries |-> SubSeq(lg, prev + 1, Len(lg)), commit |-> cm]

\* replicationProgressInner(r, j): nothing unless progressShouldReplicate;
\* otherwise send from next_index.  (next_index = 1 with a snapshot, and a
\* missing prev entry, go to change_standby: unreachable without snapshots.)
ReplicationProgress(s, j, lg, cm, p, hb) ==
    IF ~ShouldReplicate(p, Len(lg), hb, InflightThreshold)
    THEN [p |-> p, msgs |-> {}]
    ELSE LET m == AppendEntriesMsg(s, j, lg, cm, p.next - 1)
         IN [p    |-> IF p.state = Pipeline
                      THEN OptimisticNext(p, p.next + Len(m.entries))
                      ELSE p,
             msgs |-> {m}]

\* triggerAll: replicationProgress for every server but the leader; hb
\* says whether the heartbeat interval has elapsed.  A trigger from a
\* client request or a response is taken with hb FALSE and the heartbeat
\* tick with hb TRUE for every peer: a tick that finds only some peers due
\* is that step followed by the loss of the other messages, and a trigger
\* that finds peers due is that step followed by a tick.
TriggerAll(s, lg, cm, prog, hb) ==
    LET r == [j \in Server \ {s} |-> ReplicationProgress(s, j, lg, cm, prog[j], hb)]
    IN [prog |-> [j \in Server |-> IF j = s THEN prog[j] ELSE r[j].p],
        msgs |-> UNION {r[j].msgs : j \in Server \ {s}}]

\* Mutation of ReplicationQuorum: any one server's match_index suffices.
ReplicationQuorumAny(lg, cm, ls, prog, index) ==
    IF index <= cm \/ LogTerm(lg, index) = 0 THEN cm
    ELSE IF \E j \in Server : prog[j].match >= index THEN NatMin(index, ls) ELSE cm

\* replicationQuorum(index): commit index when a majority of voters has
\* match_index >= index.  The term of the entry is only asserted to be at
\* most current_term; it is not required to equal it.
ReplicationQuorum(lg, cm, ls, prog, index) ==
    IF index <= cm \/ LogTerm(lg, index) = 0 THEN cm
    ELSE IF Quorum({j \in Server : prog[j].match >= index})
         THEN NatMin(index, ls)
         ELSE cm

\* The loop of replicationApplyInner from index idx to `to'.  A COMMAND is
\* handed to fsm->apply (asynchronous) and counted in the batch; a BARRIER
\* is applied in place unless commands are still in flight, in which case
\* the loop stops (goto pgrep_fail) and the batch is never completed.
RECURSIVE ApplyLoop(_, _, _, _)
ApplyLoop(lg, idx, to, st) ==
    IF idx > to THEN [st EXCEPT !.done = TRUE]
    ELSE IF lg[idx].type = Command
         THEN ApplyLoop(lg, idx + 1, to,
                        [st EXCEPT !.applying = idx, !.cmds = @ + 1])
         ELSE IF st.applying > st.applied
              THEN st
              ELSE ApplyLoop(lg, idx + 1, to,
                             [st EXCEPT !.applied = idx, !.applying = idx])

\* replicationApply(r) with the pgrep permit granted to a leader: applies
\* entries up to commit_index.  A batch is recorded while it has commands
\* in flight; `complete' says whether all its entries were dispatched (only
\* then does its last command callback re-enter replicationApply), and
\* `permit' whether it was started by a leader.
\* Mutation of ReplicationApply: the loop runs to the last index of the log
\* rather than to commit_index.
ReplicationApplyUncommitted(lg, cm, la, lap, bs, isLeader) ==
    IF la = Len(lg) \/ lap = Len(lg)
    THEN [applying |-> la, applied |-> lap, batches |-> bs]
    ELSE LET r == ApplyLoop(lg, la + 1, Len(lg),
                            [applying |-> la, applied |-> lap, cmds |-> 0, done |-> FALSE])
         IN [applying |-> r.applying, applied |-> r.applied,
             batches  |-> IF r.cmds = 0 THEN bs
                          ELSE Append(bs, [cmds |-> r.cmds, complete |-> r.done,
                                           permit |-> isLeader])]

ReplicationApply(lg, cm, la, lap, bs, isLeader) ==
    IF la = cm \/ lap = cm
    THEN [applying |-> la, applied |-> lap, batches |-> bs]
    ELSE LET r == ApplyLoop(lg, la + 1, cm,
                            [applying |-> la, applied |-> lap, cmds |-> 0, done |-> FALSE])
         IN [applying |-> r.applying, applied |-> r.applied,
             batches  |-> IF r.cmds = 0 THEN bs
                          ELSE Append(bs, [cmds |-> r.cmds, complete |-> r.done,
                                           permit |-> isLeader])]

\* Mutation of SetApply: last_applying and last_applied swapped.
SetApplySwapped(s, a) ==
    /\ lastApplying' = [lastApplying EXCEPT ![s] = a.applied]
    /\ lastApplied'  = [lastApplied EXCEPT ![s] = a.applying]
    /\ batches'      = [batches EXCEPT ![s] = a.batches]

\* Assign the result of ReplicationApply at server s.
SetApply(s, a) ==
    /\ lastApplying' = [lastApplying EXCEPT ![s] = a.applying]
    /\ lastApplied'  = [lastApplied EXCEPT ![s] = a.applied]
    /\ batches'      = [batches EXCEPT ![s] = a.batches]

\* updateLastStored: the number of entries of a completed write that are
\* still in the in-memory log, and the new last_stored
\* max(first_index + i - 1, last_stored).
StoredPrefix(lg, index, entries) ==
    LET ok(k) == \A n \in 1..k : LogTerm(lg, index + n - 1) = entries[n].term
    IN CHOOSE k \in 0..Len(entries) : ok(k) /\ (k = Len(entries) \/ ~ok(k + 1))

\* Mutation of UpdateLastStored: first_index + i instead of + i - 1.
UpdateLastStoredPastEnd(lg, ls, index, entries) ==
    NatMax(index + StoredPrefix(lg, index, entries), ls)

UpdateLastStored(lg, ls, index, entries) ==
    NatMax(index + StoredPrefix(lg, index, entries) - 1, ls)

\* Mutation of FollowerCommit: leader_commit taken as it is.
FollowerCommitUnstored(leaderCommit, ls) == leaderCommit

\* A follower's new commit_index: min(leader_commit, last_stored).
FollowerCommit(leaderCommit, ls) == NatMin(leaderCommit, ls)

\* Mutation of EmptyAppendApplies: only a newer leader_commit re-enters the
\* apply loop, as in appendFollowerCb.
EmptyAppendAppliesNewer(leaderCommit, ci, lap) == leaderCommit > ci

\* replicationAppend with no new entries: commit and apply when
\* leader_commit is beyond commit_index or beyond last_applying.
EmptyAppendApplies(leaderCommit, ci, lap) == leaderCommit > ci \/ leaderCommit > lap

\* The result a follower sends through sendAppendEntriesResult: addressed
\* to current_leader, and discarded unless the request came from it.
AEResult(s, leader, src, term, rejected, lastIdx) ==
    IF src = leader /\ leader # Nil
    THEN {[type |-> "AER", src |-> s, dst |-> leader, term |-> term,
           rejected |-> rejected, lastIdx |-> lastIdx]}
    ELSE {}

\* A failing assert() ends the process: the server is recorded in
\* faults.aborted and takes no further step; messages in c were consumed.
Abort(s, at, c) ==
    /\ faults'   = [faults EXCEPT !.aborted = @ \cup {[server |-> s, at |-> at]}]
    /\ messages' = messages \ c
    /\ redeliver' = [redeliver EXCEPT ![s] = Nil]
    /\ UNCHANGED <<currentTerm, votedFor, state, currentLeader, inPreVote, votes,
                   pendingMeta, logVars, applyVars, progress>>

Crashed == {a.server : a \in faults.aborted}

\* replicationProgressInner: a peer due for an AppendEntries whose
\* next_index - 1 lies past the leader's last index has no prev entry
\* (logTermOf is 0), and assert(prev_index < snapshot_index) fails.
PrevMissing(p, lg, hb) ==
    ShouldReplicate(p, Len(lg), hb, InflightThreshold) /\ p.next - 1 > Len(lg)

TriggerAborts(s, lg, prog, hb) ==
    \E j \in Server \ {s} : PrevMissing(prog[j], lg, hb)

\* logTruncate(i) fails with LOG_BUSY while a slot in [i, last_index] is
\* referenced: by a write in the I/O queue q (logAcquire until its
\* callback), or by an AppendEntries whose send has not completed
\* (sendAppendEntriesCb releases it at a time the model does not fix).
\* The set of possible outcomes, TRUE meaning busy.
LogBusy(s, q, i) ==
    IF \E k \in 1..Len(q) : q[k].op = "append" /\ q[k].index + Len(q[k].entries) > i
    THEN {TRUE}
    ELSE IF \E m \in messages : m.type = "AE" /\ m.src = s /\ m.entries # << >>
                                /\ m.prev + Len(m.entries) >= i
         THEN BOOLEAN
         ELSE {FALSE}

-----------------------------------------------------------------------------
(* Election (election.c, convert.c and tick.c are not under src/; their   *)
(* steps are modelled from spec.md sections 4.4 and 4.11).                 *)

RequestVoteMsgs(s, term, pre) ==
    {[type |-> "RV", src |-> s, dst |-> j, term |-> term,
      lastIdx |-> Len(log[s]), lastTerm |-> LastTerm(log[s]),
      pre |-> pre, disrupt |-> FALSE] : j \in Server \ {s}}

\* Mutation of ElectionStart: the term bumped twice.
ElectionStartTwice(s, c) ==
    /\ currentTerm' = [currentTerm EXCEPT ![s] = @ + 2]
    /\ votedFor'    = [votedFor EXCEPT ![s] = s]
    /\ votes'       = [votes EXCEPT ![s] = {s}]
    /\ messages' = (messages \ c) \cup RequestVoteMsgs(s, currentTerm[s] + 2, FALSE)

\* electionStart after the pre-vote phase (or without one): persist the
\* bumped term with a vote for self and ask every voter.
ElectionStart(s, c) ==
    /\ currentTerm' = [currentTerm EXCEPT ![s] = @ + 1]
    /\ votedFor'    = [votedFor EXCEPT ![s] = s]
    /\ votes'       = [votes EXCEPT ![s] = {s}]
    /\ messages' = (messages \ c) \cup RequestVoteMsgs(s, currentTerm[s] + 1, FALSE)

\* tick: an election timeout of a follower or candidate converts it to
\* candidate and starts a pre-vote round (probing current_term + 1, nothing
\* persisted) or an election.  Ticks are assumed not to start an election
\* while a set_meta request is in flight.
Timeout(s) ==
    /\ Idle(s)
    /\ state[s] \in {Follower, Candidate}
    /\ pendingMeta[s] = Nil
    /\ currentTerm[s] < MaxTerm
    /\ state'         = [state EXCEPT ![s] = Candidate]
    /\ currentLeader' = [currentLeader EXCEPT ![s] = Nil]
    /\ inPreVote'     = [inPreVote EXCEPT ![s] = PreVote]
    /\ IF PreVote
       THEN /\ votes' = [votes EXCEPT ![s] = {s}]
            /\ Send(RequestVoteMsgs(s, currentTerm[s] + 1, TRUE))
            /\ UNCHANGED <<currentTerm, votedFor>>
       ELSE ElectionStart(s, {})
    /\ UNCHANGED <<pendingMeta, redeliver, logVars, applyVars, progress,
                   submitted, faults>>

\* Mutation of ElectionVote: a vote for another candidate overridden by a
\* request of the same term.
ElectionVoteSameTerm(s, m) ==
    /\ \/ m.lastTerm > LastTerm(log[s])
       \/ m.lastTerm = LastTerm(log[s]) /\ m.lastIdx >= Len(log[s])
    /\ m.pre \/ votedFor[s] \in {Nil, m.src} \/ m.term >= currentTerm[s]

\* electionVote: a pre-vote needs an up-to-date log; a vote also needs no
\* vote for another candidate in this term unless the term is newer.
ElectionVote(s, m) ==
    /\ \/ m.lastTerm > LastTerm(log[s])
       \/ m.lastTerm = LastTerm(log[s]) /\ m.lastIdx >= Len(log[s])
    /\ m.pre \/ votedFor[s] \in {Nil, m.src} \/ m.term > currentTerm[s]

VoteResult(s, m, term, granted) ==
    [type |-> "RVR", src |-> s, dst |-> m.src, term |-> term,
     granted |-> granted, pre |-> m.pre]

\* Mutation of HandleRequestVote: the reply leaves before the set_meta that
\* persists the vote has completed.
HandleRequestVoteReplyFirst(s, m) ==
    LET hasLeader == state[s] = Leader
                     \/ (state[s] = Follower /\ currentLeader[s] # Nil)
        granted   == ElectionVote(s, m)
        newer     == m.term > currentTerm[s]
        vf        == IF granted THEN m.src ELSE IF newer THEN Nil ELSE votedFor[s]
        reply     == VoteResult(s, m, IF newer THEN m.term ELSE currentTerm[s], granted)
    IN
    /\ IF (hasLeader /\ ~m.disrupt) \/ m.term < currentTerm[s]
       THEN /\ Reply(m, {VoteResult(s, m, currentTerm[s], FALSE)})
            /\ UNCHANGED pendingMeta
       ELSE IF ~m.pre /\ (newer \/ votedFor[s] # vf)
       THEN /\ pendingMeta' = [pendingMeta EXCEPT ![s] =
                  [term |-> m.term, vote |-> vf, cb |-> "result", msg |-> Nil]]
            /\ Reply(m, {reply})
       ELSE /\ Reply(m, {IF m.pre THEN VoteResult(s, m, currentTerm[s], granted)
                              ELSE reply})
            /\ UNCHANGED pendingMeta
    /\ UNCHANGED <<currentTerm, votedFor, state, currentLeader, inPreVote,
                   votes, redeliver, logVars, applyVars, progress>>

\* recvRequestVote (RAFT_ASYNC_ALL build).  A server that believes it has
\* a leader rejects unless disrupt_leader is set.  A real vote that bumps
\* the term or changes voted_for is persisted first (recvSetMeta); the
\* reply leaves from the set_meta callback.
HandleRequestVote(s, m) ==
    LET hasLeader == state[s] = Leader
                     \/ (state[s] = Follower /\ currentLeader[s] # Nil)
        granted   == ElectionVote(s, m)
        newer     == m.term > currentTerm[s]
        vf        == IF granted THEN m.src ELSE IF newer THEN Nil ELSE votedFor[s]
        reply     == VoteResult(s, m, IF newer THEN m.term ELSE currentTerm[s], granted)
    IN
    /\ IF (hasLeader /\ ~m.disrupt) \/ m.term < currentTerm[s]
       THEN /\ Reply(m, {VoteResult(s, m, currentTerm[s], FALSE)})
            /\ UNCHANGED pendingMeta
       ELSE IF ~m.pre /\ (newer \/ votedFor[s] # vf)
       THEN /\ pendingMeta' = [pendingMeta EXCEPT ![s] =
                  [term |-> m.term, vote |-> vf, cb |-> "vote", msg |-> reply]]
            /\ Reply(m, {})
       ELSE /\ Reply(m, {IF m.pre THEN VoteResult(s, m, currentTerm[s], granted)
                              ELSE reply})
            /\ UNCHANGED pendingMeta
    /\ UNCHANGED <<currentTerm, votedFor, state, currentLeader, inPreVote,
                   votes, redeliver, logVars, applyVars, progress>>

\* recvUpdateMeta: io->state = BUSY and an asynchronous set_meta.
UpdateMeta(s, term, vote, cb, msg) ==
    pendingMeta' = [pendingMeta EXCEPT ![s] =
                        [term |-> term, vote |-> vote, cb |-> cb, msg |-> msg]]

\* convertToLeader followed by what recvRequestVoteResult does next: with
\* no_op, raft_barrier appends a BARRIER and replicationTrigger writes it
\* (appendLeader) and calls triggerAll; otherwise replicationHeartbeat.
BecomeLeader(s, hb, c) ==
    LET prog0 == BuildArray(Server, s, Len(log[s]), lastStored[s])
        lg    == IF NoOp
                 THEN Append(log[s], [term |-> currentTerm[s], type |-> Barrier, val |-> Nil])
                 ELSE log[s]
        t     == TriggerAll(s, lg, commitIndex[s], prog0, hb)
    IN /\ state'    = [state EXCEPT ![s] = Leader]
       /\ progress' = [progress EXCEPT ![s] = t.prog]
       /\ log'      = [log EXCEPT ![s] = lg]
       /\ ioQueue'  = IF NoOp
                      THEN [ioQueue EXCEPT ![s] = Append(@,
                               [op |-> "append", kind |-> "leader", index |-> Len(lg),
                                entries |-> <<lg[Len(lg)]>>, prev |-> 0, commit |-> 0,
                                src |-> Nil])]
                      ELSE ioQueue
       /\ messages' = (messages \ c) \cup t.msgs

\* recvRequestVoteResult.  Results reach only a candidate; a newer term is
\* persisted (recvUpdateMeta, vote 0); a granted vote is tallied and a
\* majority ends the pre-vote phase (electionStart) or the election.
HandleRequestVoteResult(s, m) ==
    LET newer  == IF inPreVote[s] THEN m.term > currentTerm[s] + 1
                                  ELSE m.term > currentTerm[s]
        ignore == state[s] # Candidate
                  \/ (~inPreVote[s] /\ (m.pre \/ m.term < currentTerm[s]))
        tally  == votes[s] \cup {m.src}
    IN
    /\ UNCHANGED <<applyVars, submitted, faults>>
    /\ \/ /\ ignore \/ (~newer /\ ~m.granted)
          /\ UNCHANGED <<serverVars, logVars, progress>> /\ Reply(m, {})
       \/ /\ ~ignore /\ newer
          /\ UpdateMeta(s, m.term, Nil, "result", Nil)
          /\ UNCHANGED <<currentTerm, votedFor, state, currentLeader, inPreVote,
                         votes, redeliver, logVars, progress>> /\ Reply(m, {})
       \/ /\ ~ignore /\ ~newer /\ m.granted /\ ~Quorum(tally)
          /\ votes' = [votes EXCEPT ![s] = tally]
          /\ UNCHANGED <<currentTerm, votedFor, state, currentLeader, inPreVote,
                         pendingMeta, redeliver, logVars, progress>> /\ Reply(m, {})
       \/ /\ ~ignore /\ ~newer /\ m.granted /\ Quorum(tally) /\ inPreVote[s]
          /\ inPreVote' = [inPreVote EXCEPT ![s] = FALSE]
          /\ ElectionStart(s, {m})
          /\ UNCHANGED <<state, currentLeader, pendingMeta, redeliver, logVars,
                         progress>>
       \/ /\ ~ignore /\ ~newer /\ m.granted /\ Quorum(tally) /\ ~inPreVote[s]
          /\ BecomeLeader(s, TRUE, {m})
          /\ votes' = [votes EXCEPT ![s] = tally]
          /\ UNCHANGED <<currentTerm, votedFor, currentLeader, inPreVote,
                         pendingMeta, redeliver, disk, lastStored>>

\* The end of recvBumpTermIOCb: recvCb on the message that bumped the term
\* (dispatched by Redeliver).
BumpTermFollowUp(s, pm) ==
    redeliver' = IF pm.cb = "bump" THEN [redeliver EXCEPT ![s] = pm.msg]
                 ELSE redeliver

\* The end of respondToRequestVote: send the vote reply.
VoteFollowUp(pm) ==
    IF pm.cb = "vote" THEN Send({pm.msg}) ELSE UNCHANGED messages

\* The set_meta completion: recvBumpTermIOCb, recvVoteResultBumpTermIOCb
\* or respondToRequestVote.  The persisted (term, vote) become current, a
\* non-follower steps down, and then the original message is dispatched
\* again (cb "bump"), nothing more happens (cb "result"), or the vote reply
\* is sent (cb "vote").  A failed write makes the server unavailable.
SetMetaDone(s) ==
    LET pm == pendingMeta[s] IN
    /\ pm # Nil
    /\ pendingMeta' = [pendingMeta EXCEPT ![s] = Nil]
    /\ \/ /\ state[s] = Unavailable
          /\ UNCHANGED <<currentTerm, votedFor, state, currentLeader, inPreVote,
                         votes, redeliver, messages, faults>>
       \/ /\ state[s] # Unavailable
          /\ faults.io < MaxIOFailures
          /\ faults' = [faults EXCEPT !.io = @ + 1]
          /\ state' = [state EXCEPT ![s] = Unavailable]
          /\ UNCHANGED <<currentTerm, votedFor, currentLeader, inPreVote,
                         votes, redeliver, messages>>
       \/ /\ state[s] # Unavailable
          /\ currentTerm'   = [currentTerm EXCEPT ![s] = pm.term]
          /\ votedFor'      = [votedFor EXCEPT ![s] = pm.vote]
          /\ state'         = [state EXCEPT ![s] = Follower]
          /\ currentLeader' = IF state[s] = Follower THEN currentLeader
                              ELSE [currentLeader EXCEPT ![s] = Nil]
          /\ inPreVote'     = IF state[s] = Follower THEN inPreVote
                              ELSE [inPreVote EXCEPT ![s] = FALSE]
          /\ votes'         = IF state[s] = Follower THEN votes
                              ELSE [votes EXCEPT ![s] = {}]
          /\ BumpTermFollowUp(s, pm)
          /\ VoteFollowUp(pm)
          /\ UNCHANGED faults
    /\ UNCHANGED <<logVars, applyVars, progress, submitted>>

-----------------------------------------------------------------------------
(* Follower side: recvAppendEntries (not under src/; spec.md 4.7) and      *)
(* replicationAppend, checkLogMatchingProperty, deleteConflictingEntries.  *)

\* deleteConflictingEntries: offset of the first entry of the request the
\* local log does not hold with the same term (missing or conflicting).
FirstNew(lg, prev, ents) ==
    CHOOSE j \in 0..Len(ents) :
        /\ \A k \in 0..(j - 1) : LogTerm(lg, prev + 1 + k) = ents[k + 1].term
        /\ j = Len(ents) \/ LogTerm(lg, prev + 1 + j) # ents[j + 1].term

HandleAppendEntries(s, m) ==
    LET ents     == m.entries
        lt       == LogTerm(log[s], m.prev)
        mismatch == m.prev > 0 /\ lt # m.prevTerm
        j0       == FirstNew(log[s], m.prev, ents)
        idx      == m.prev + 1 + j0
        conflict == j0 < Len(ents) /\ LogTerm(log[s], idx) > 0
        lg1      == IF conflict THEN Truncate(log[s], idx) ELSE log[s]
        ls1      == IF conflict /\ lastStored[s] >= idx THEN idx - 1 ELSE lastStored[s]
        q1       == IF conflict
                    THEN Append(ioQueue[s], [op |-> "truncate", kind |-> "follower",
                                 index |-> idx, entries |-> << >>, prev |-> 0,
                                 commit |-> 0, src |-> Nil])
                    ELSE ioQueue[s]
        shutdown == (mismatch /\ lt # 0 /\ m.prev <= commitIndex[s])
                    \/ (~mismatch /\ conflict /\ idx <= commitIndex[s])
        \* convertToFollower (from candidate) and recvUpdateLeader
        toFollower ==
            /\ currentLeader' = [currentLeader EXCEPT ![s] = m.src]
            /\ inPreVote'     = [inPreVote EXCEPT ![s] = FALSE]
            /\ votes'         = IF state[s] = Follower THEN votes
                                ELSE [votes EXCEPT ![s] = {}]
    IN
    /\ state[s] # Leader \/ m.term < currentTerm[s]
    /\ UNCHANGED <<currentTerm, votedFor, pendingMeta, disk, progress, submitted>>
    /\ \/ /\ m.term < currentTerm[s]
          /\ Reply(m, {[type |-> "AER", src |-> s, dst |-> m.src, term |-> currentTerm[s],
                    rejected |-> m.prev, lastIdx |-> lastStored[s]]})
          /\ UNCHANGED <<state, currentLeader, inPreVote, votes, log, ioQueue,
                         lastStored, applyVars, faults>>
       \/ /\ m.term = currentTerm[s] /\ shutdown
          /\ toFollower
          /\ state' = [state EXCEPT ![s] = Unavailable]
          /\ UNCHANGED <<log, ioQueue, lastStored, applyVars, faults>> /\ Reply(m, {})
       \/ /\ m.term = currentTerm[s] /\ ~shutdown /\ mismatch
          /\ toFollower
          /\ state' = [state EXCEPT ![s] = Follower]
          /\ Reply(m, AEResult(s, m.src, m.src, currentTerm[s], m.prev, lastStored[s]))
          /\ UNCHANGED <<log, ioQueue, lastStored, applyVars, faults>>
       \/ /\ m.term = currentTerm[s] /\ ~shutdown /\ ~mismatch /\ j0 = Len(ents)
          \* nothing new to write: commit and apply, then reply at once
          /\ toFollower
          /\ state' = [state EXCEPT ![s] = Follower]
          /\ IF EmptyAppendApplies(m.commit, commitIndex[s], lastApplying[s])
             THEN LET cm == FollowerCommit(m.commit, lastStored[s]) IN
                  /\ commitIndex' = [commitIndex EXCEPT ![s] = cm]
                  /\ SetApply(s, ReplicationApply(log[s], cm, lastApplying[s],
                                    lastApplied[s], batches[s], FALSE))
             ELSE UNCHANGED applyVars
          /\ Reply(m, AEResult(s, m.src, m.src, currentTerm[s], 0, lastStored[s]))
          /\ UNCHANGED <<log, ioQueue, lastStored, faults>>
       \/ /\ m.term = currentTerm[s] /\ ~shutdown /\ ~mismatch /\ j0 < Len(ents)
          /\ conflict /\ TRUE \in LogBusy(s, ioQueue[s], idx)
          \* logTruncate fails with LOG_BUSY: the new entries land after the
          \* old ones and the n_entries assertion of replicationAppend fails
          /\ Abort(s, "replicationAppend", {m})
       \/ /\ m.term = currentTerm[s] /\ ~shutdown /\ ~mismatch /\ j0 < Len(ents)
          /\ conflict => FALSE \in LogBusy(s, ioQueue[s], idx)
          \* truncate a conflicting suffix, append in memory, write to disk
          /\ toFollower
          /\ state' = [state EXCEPT ![s] = Follower]
          /\ log'        = [log EXCEPT ![s] = lg1 \o SubSeq(ents, j0 + 1, Len(ents))]
          /\ lastStored' = [lastStored EXCEPT ![s] = ls1]
          /\ ioQueue'    = [ioQueue EXCEPT ![s] = Append(q1,
                              [op |-> "append", kind |-> "follower", index |-> idx,
                               entries |-> SubSeq(ents, j0 + 1, Len(ents)),
                               prev |-> m.prev, commit |-> m.commit, src |-> m.src])]
          /\ UNCHANGED <<applyVars, faults>> /\ Reply(m, {})

-----------------------------------------------------------------------------
(* Completion of the oldest I/O request of a server.  The backend performs *)
(* appends and truncations in submission order; a truncation has no        *)
(* callback into raft.                                                     *)

DiskTruncate(s) ==
    /\ ioQueue[s] # << >>
    /\ Head(ioQueue[s]).op = "truncate"
    /\ disk'    = [disk EXCEPT ![s] = Truncate(@, Head(ioQueue[s]).index)]
    /\ ioQueue' = [ioQueue EXCEPT ![s] = Tail(@)]
    /\ UNCHANGED <<serverVars, log, lastStored, applyVars, progress, messages,
                   submitted, faults>>

\* The durable log d once the backend has performed request w.  `disk' is
\* the contiguous durable prefix: a write that lands past a hole left by a
\* failed write does not extend it.
Performed(d, w) ==
    IF w.op = "truncate" THEN Truncate(d, w.index)
    ELSE IF w.index <= Len(d) + 1 THEN Truncate(d, w.index) \o w.entries
    ELSE d

\* The durable log d once the backend has performed the requests of q.
RECURSIVE PerformAll(_, _)
PerformAll(d, q) ==
    IF q = << >> THEN d ELSE PerformAll(Performed(d, Head(q)), Tail(q))

\* The write of `w' made it to disk.
Durable(s, w) == disk' = [disk EXCEPT ![s] = Performed(@, w)]

\* appendLeaderCb, success: advance last_stored; a server still leader
\* records its own match_index, tries to commit and applies.
AppendLeaderDone(s) ==
    LET w  == Head(ioQueue[s])
        ls == UpdateLastStored(log[s], lastStored[s], w.index, w.entries)
        pg == [progress[s] EXCEPT ![s].match = ls]
        cm == ReplicationQuorum(log[s], commitIndex[s], ls, pg, ls)
    IN
    /\ ioQueue[s] # << >> /\ w.op = "append" /\ w.kind = "leader"
    /\ Durable(s, w)
    /\ ioQueue'    = [ioQueue EXCEPT ![s] = Tail(@)]
    /\ lastStored' = [lastStored EXCEPT ![s] = ls]
    /\ IF state[s] = Leader
       THEN /\ progress'    = [progress EXCEPT ![s] = pg]
            /\ commitIndex' = [commitIndex EXCEPT ![s] = cm]
            /\ SetApply(s, ReplicationApply(log[s], cm, lastApplying[s],
                              lastApplied[s], batches[s], TRUE))
       ELSE UNCHANGED <<progress, applyVars>>
    /\ UNCHANGED <<serverVars, log, messages, submitted, faults>>

\* appendLeaderCb, failure: the client callback fails and the in-memory
\* log is cut back to the first entry of the write, whatever the server's
\* state now is and whatever has been appended since.  The result of
\* logTruncate is ignored: when a later write or an in-flight send still
\* references the suffix it fails with LOG_BUSY and the log stays as is.
AppendLeaderFailed(s) ==
    LET w == Head(ioQueue[s]) IN
    /\ ioQueue[s] # << >> /\ w.op = "append" /\ w.kind = "leader"
    /\ faults.io < MaxIOFailures
    /\ faults' = [faults EXCEPT !.io = @ + 1]
    /\ ioQueue'    = [ioQueue EXCEPT ![s] = Tail(@)]
    /\ \E busy \in LogBusy(s, Tail(ioQueue[s]), w.index) :
          log' = IF busy THEN log ELSE [log EXCEPT ![s] = Truncate(@, w.index)]
    /\ UNCHANGED <<serverVars, disk, lastStored, applyVars, progress, messages,
                   submitted>>

\* appendFollowerCb, success: advance last_stored by the entries still in
\* the log; a follower that stored some of them commits up to
\* min(leader_commit, last_stored), applies, and acknowledges last_stored.
AppendFollowerDone(s) ==
    LET w  == Head(ioQueue[s])
        i  == StoredPrefix(log[s], w.index, w.entries)
        ls == UpdateLastStored(log[s], lastStored[s], w.index, w.entries)
        cm == IF w.commit > commitIndex[s] THEN FollowerCommit(w.commit, ls) ELSE commitIndex[s]
    IN
    /\ ioQueue[s] # << >> /\ w.op = "append" /\ w.kind = "follower"
    /\ Durable(s, w)
    /\ ioQueue' = [ioQueue EXCEPT ![s] = Tail(@)]
    /\ \/ /\ state[s] = Unavailable
          /\ UNCHANGED <<lastStored, applyVars, messages>>
       \/ /\ state[s] # Unavailable /\ (i = 0 \/ state[s] # Follower)
          /\ lastStored' = [lastStored EXCEPT ![s] = ls]
          /\ UNCHANGED <<applyVars, messages>>
       \/ /\ state[s] = Follower /\ i > 0
          /\ lastStored'  = [lastStored EXCEPT ![s] = ls]
          /\ commitIndex' = [commitIndex EXCEPT ![s] = cm]
          /\ IF w.commit > commitIndex[s]
             THEN SetApply(s, ReplicationApply(log[s], cm, lastApplying[s],
                                 lastApplied[s], batches[s], FALSE))
             ELSE UNCHANGED <<lastApplying, lastApplied, batches>>
          /\ Send(AEResult(s, currentLeader[s], w.src, currentTerm[s], 0, ls))
    /\ UNCHANGED <<serverVars, log, progress, submitted, faults>>

\* appendFollowerCb, failure: a follower rejects with prev_log_index + 1.
\* The entries stay in the in-memory log.
AppendFollowerFailed(s) ==
    LET w == Head(ioQueue[s]) IN
    /\ ioQueue[s] # << >> /\ w.op = "append" /\ w.kind = "follower"
    /\ faults.io < MaxIOFailures
    /\ faults' = [faults EXCEPT !.io = @ + 1]
    /\ ioQueue'    = [ioQueue EXCEPT ![s] = Tail(@)]
    /\ IF state[s] = Follower
       THEN Send(AEResult(s, currentLeader[s], w.src, currentTerm[s],
                          w.prev + 1, lastStored[s]))
       ELSE UNCHANGED messages
    /\ UNCHANGED <<serverVars, log, disk, lastStored, applyVars, progress,
                   submitted>>

\* applyCommandCb: the state machine finished the oldest command in flight.
\* last_applied advances; when the batch that dispatched it had been fully
\* dispatched and this was its last command, a batch started by a leader
\* re-enters replicationApply (replicationApplyLeaderCb), which asserts
\* that the server is a leader or a follower.
ApplyDone(s) ==
    LET b     == Head(batches[s])
        lap   == lastApplied[s] + 1
        rest  == IF b.cmds = 1 THEN Tail(batches[s])
                 ELSE [batches[s] EXCEPT ![1].cmds = @ - 1]
        again == b.cmds = 1 /\ b.complete /\ b.permit
    IN
    /\ lastApplied[s] < lastApplying[s]
    /\ \/ /\ again /\ state[s] \notin {Leader, Follower}
          /\ Abort(s, "replicationApplyInner", {}) /\ UNCHANGED submitted
       \/ /\ again /\ state[s] \in {Leader, Follower}
          /\ SetApply(s, ReplicationApply(log[s], commitIndex[s], lastApplying[s],
                                          lap, rest, state[s] = Leader))
          /\ UNCHANGED <<serverVars, logVars, commitIndex, progress, messages,
                         submitted, faults>>
       \/ /\ ~again
          /\ lastApplied' = [lastApplied EXCEPT ![s] = lap]
          /\ batches'     = [batches EXCEPT ![s] = rest]
          /\ UNCHANGED <<serverVars, logVars, commitIndex, lastApplying, progress,
                         messages, submitted, faults>>

-----------------------------------------------------------------------------
(* Leader side: recvAppendEntriesResult (not under src/) and               *)
(* replicationUpdate.                                                      *)

HandleAppendEntriesResult(s, m) ==
    LET j  == m.src
        p0 == MarkRecentRecv(progress[s][j])
        d  == MaybeDecrement(p0, m.rejected, m.lastIdx, Len(log[s]))
        u  == MaybeUpdate(p0, NatMin(m.lastIdx, Len(log[s])))
        p2 == IF u.p.state = Probe THEN ToPipeline(u.p) ELSE u.p
        pg == [progress[s] EXCEPT ![j] = p2]
        cm == ReplicationQuorum(log[s], commitIndex[s], lastStored[s], pg, lastStored[s])
    IN
    /\ state[s] = Leader /\ m.term = currentTerm[s]
    /\ UNCHANGED submitted
    /\ LET hb == FALSE IN
       \/ /\ m.rejected > 0 /\ d.retry /\ PrevMissing(d.p, log[s], hb)
          /\ Abort(s, "replicationProgressInner", {m})
       \/ /\ m.rejected > 0 /\ ~(d.retry /\ PrevMissing(d.p, log[s], hb))
          /\ LET r == ReplicationProgress(s, j, log[s], commitIndex[s], d.p, hb)
             IN /\ progress' = [progress EXCEPT ![s][j] = IF d.retry THEN r.p ELSE d.p]
                /\ IF d.retry THEN Reply(m, r.msgs) ELSE Reply(m, {})
          /\ UNCHANGED <<serverVars, logVars, applyVars, faults>>
       \/ /\ m.rejected = 0 /\ ~u.updated
          /\ progress' = [progress EXCEPT ![s][j] = u.p]
          /\ UNCHANGED <<serverVars, logVars, applyVars, faults>> /\ Reply(m, {})
       \/ /\ m.rejected = 0 /\ u.updated /\ PrevMissing(p2, log[s], hb)
          /\ Abort(s, "replicationProgressInner", {m})
       \/ /\ m.rejected = 0 /\ u.updated /\ ~PrevMissing(p2, log[s], hb)
          /\ LET r == ReplicationProgress(s, j, log[s], cm, p2, hb) IN
             /\ progress'    = [progress EXCEPT ![s][j] = r.p]
             /\ commitIndex' = [commitIndex EXCEPT ![s] = cm]
             /\ SetApply(s, ReplicationApply(log[s], cm, lastApplying[s],
                               lastApplied[s], batches[s], TRUE))
             /\ Reply(m, r.msgs)
          /\ UNCHANGED <<serverVars, logVars, faults>>

\* recvAppendEntriesResult on a server that is not leader, or with a
\* result of an older term: the result is discarded and nothing changes.
IgnoreAppendEntriesResult(s, m) ==
    /\ state[s] # Leader \/ m.term < currentTerm[s]
    /\ messages' = messages \ {m}
    /\ UNCHANGED <<currentTerm, votedFor, state, currentLeader, inPreVote, votes,
                   pendingMeta, logVars, applyVars, progress, submitted, faults>>

\* sendAppendEntriesCb with a failed send: a leader puts the peer back
\* into PROBE.  The message is not delivered.
SendAppendEntriesFailed(s, m) ==
    /\ m.type = "AE" /\ m.src = s
    /\ faults.send < MaxSendFailures
    /\ faults' = [faults EXCEPT !.send = @ + 1]
    /\ messages' = messages \ {m}
    /\ progress' = IF state[s] = Leader
                   THEN [progress EXCEPT ![s][m.dst] = ToProbe(@)]
                   ELSE progress
    /\ UNCHANGED <<serverVars, logVars, applyVars, submitted>>

-----------------------------------------------------------------------------
(* Client requests (client.c) and the leader's tick.                       *)

\* raft_apply / raft_barrier: append at last_index + 1 in the current term,
\* then replicationTrigger: appendLeader writes every entry from the new
\* index on, and triggerAll sends to the peers.
ClientAppend(s, e) ==
    LET lg == Append(log[s], e)
        t  == TriggerAll(s, lg, commitIndex[s], progress[s], FALSE)
    IN
    /\ state[s] = Leader
    /\ Len(log[s]) < MaxLogLen
    /\ \/ /\ Len(lg) <= lastStored[s] \/ TriggerAborts(s, lg, progress[s], FALSE)
          \* appendLeader asserts index > last_stored before triggerAll runs
          /\ Abort(s, IF Len(lg) <= lastStored[s] THEN "appendLeader"
                                                  ELSE "replicationProgressInner", {})
       \/ /\ Len(lg) > lastStored[s] /\ ~TriggerAborts(s, lg, progress[s], FALSE)
          /\ log'      = [log EXCEPT ![s] = lg]
          /\ ioQueue'  = [ioQueue EXCEPT ![s] = Append(@,
                            [op |-> "append", kind |-> "leader", index |-> Len(lg),
                             entries |-> <<e>>, prev |-> 0, commit |-> 0, src |-> Nil])]
          /\ progress' = [progress EXCEPT ![s] = t.prog]
          /\ Send(t.msgs)
          /\ UNCHANGED <<serverVars, disk, lastStored, applyVars, faults>>

ClientApply(s, v) ==
    /\ v \notin submitted
    /\ submitted' = submitted \cup {v}
    /\ ClientAppend(s, [term |-> currentTerm[s], type |-> Command, val |-> v])

ClientBarrier(s) ==
    /\ ClientAppend(s, [term |-> currentTerm[s], type |-> Barrier, val |-> Nil])
    /\ UNCHANGED submitted

\* tick of a leader: replicationHeartbeat when the heartbeat timeout fires.
Heartbeat(s) ==
    LET t == TriggerAll(s, log[s], commitIndex[s], progress[s], TRUE) IN
    /\ state[s] = Leader
    /\ \/ /\ TriggerAborts(s, log[s], progress[s], TRUE)
          /\ Abort(s, "replicationProgressInner", {})
       \/ /\ ~TriggerAborts(s, log[s], progress[s], TRUE)
          /\ progress' = [progress EXCEPT ![s] = t.prog]
          /\ Send(t.msgs)
          /\ UNCHANGED <<serverVars, logVars, applyVars, faults>>
    /\ UNCHANGED submitted

\* tick of a leader at the end of an election timeout (check_quorum): step
\* down unless a majority of voters, itself included, was heard from;
\* otherwise start a new interval with every recent_recv cleared.
CheckQuorum(s) ==
    LET heard == {s} \cup {j \in Server : progress[s][j].recent} IN
    /\ LeaderTimeouts
    /\ state[s] = Leader
    /\ IF Quorum(heard)
       THEN /\ progress' = [progress EXCEPT ![s] =
                              [j \in Server |-> [@[j] EXCEPT !.recent = FALSE]]]
            /\ UNCHANGED <<state, currentLeader>>
       ELSE /\ state' = [state EXCEPT ![s] = Follower]
            /\ currentLeader' = [currentLeader EXCEPT ![s] = Nil]
            /\ UNCHANGED progress
    /\ UNCHANGED <<currentTerm, votedFor, inPreVote, votes, pendingMeta,
                   redeliver, logVars, applyVars, messages, submitted, faults>>

-----------------------------------------------------------------------------
(* recvCb / recvMessage.  A message reaches its handler only when the      *)
(* server is available and no set_meta is in flight; otherwise recvCb      *)
(* drops it.  An AppendEntries or its result with a newer term is first    *)
(* persisted (recvEnsureMatchingTerm): the vote goes to the sender of an   *)
(* AppendEntries and to nobody for a result.                               *)

Dispatch(s, m) ==
    \/ m.type = "RV"  /\ HandleRequestVote(s, m) /\ UNCHANGED <<submitted, faults>>
    \/ m.type = "RVR" /\ HandleRequestVoteResult(s, m)
    \/ m.type = "AE"  /\ HandleAppendEntries(s, m)
    \/ m.type = "AER" /\ HandleAppendEntriesResult(s, m)
    \/ m.type = "AER" /\ IgnoreAppendEntriesResult(s, m)

\* Mutation of BumpsTerm: a message of any other term, older ones included,
\* is taken as a term change.
BumpsTermAny(s, m) == m.type \in {"AE", "AER"} /\ m.term # currentTerm[s]

\* recvEnsureMatchingTerm with recvCheckMatchingTerms: an AppendEntries or
\* its result of a newer term must be persisted first (RequestVote and its
\* result check their terms in their own handlers).
BumpsTerm(s, m) == m.type \in {"AE", "AER"} /\ m.term > currentTerm[s]

\* recvCb: a message reaching an unavailable server, or one whose io state
\* is BUSY with a set_meta, is dropped.  Otherwise recvMessage: an
\* AppendEntries or result of a newer term persists it first
\* (recvEnsureMatchingTerm, asynchronous); anything else is dispatched.
Receive(s, m) ==
    /\ m.dst = s
    /\ Idle(s)
    /\ IF state[s] = Unavailable \/ pendingMeta[s] # Nil
       THEN /\ messages' = messages \ {m}
            /\ UNCHANGED <<serverVars, logVars, applyVars, progress, submitted, faults>>
       ELSE IF BumpsTerm(s, m)
       THEN /\ UpdateMeta(s, m.term, IF m.type = "AE" THEN m.src ELSE Nil, "bump", m)
            /\ messages' = messages \ {m}
            /\ UNCHANGED <<currentTerm, votedFor, state, currentLeader, inPreVote,
                           votes, redeliver, logVars, applyVars, progress,
                           submitted, faults>>
       ELSE /\ Dispatch(s, m)
            /\ m.type \in {"AE", "AER"} => UNCHANGED redeliver

\* recvCb called from recvBumpTermIOCb with the message that bumped the term.
Redeliver(s) ==
    LET m == redeliver[s] IN
    /\ m # Nil
    /\ redeliver' = [redeliver EXCEPT ![s] = Nil]
    /\ IF state[s] = Unavailable
       THEN UNCHANGED <<currentTerm, votedFor, state, currentLeader, inPreVote,
                        votes, pendingMeta, logVars, applyVars, progress,
                        messages, submitted, faults>>
       ELSE Dispatch(s, m)

\* The transport loses a message: the send callbacks of RequestVote, of its
\* result and of an AppendEntries result ignore their status, and a message
\* written to a connection that then breaks is never received.
LoseMessage(m) ==
    /\ Lossy
    /\ messages' = messages \ {m}
    /\ UNCHANGED <<serverVars, logVars, applyVars, progress, submitted, faults>>

\* A crash of s and its restart (raft_start and the backend's load are not
\* under src/; modelled from spec.md sections 3, 5 and scenario E2).  What
\* survives is what the backend made durable: the (term, vote) of the last
\* completed set_meta, or of the one in flight if it reached the disk
\* before the crash, and the log after some prefix of the requests in
\* flight.  The rest starts afresh: a follower with no known leader, no
\* pending I/O, commit_index, last_applying and last_applied 0 and an
\* empty state machine.  Messages in the network stay there.
Restart(s) ==
    LET pm    == pendingMeta[s]
        metas == {<<currentTerm[s], votedFor[s]>>} \cup
                 (IF pm = Nil THEN {} ELSE {<<pm.term, pm.vote>>})
    IN
    /\ faults.restart < MaxRestarts
    /\ faults' = [faults EXCEPT !.restart = @ + 1]
    /\ \E meta \in metas : /\ currentTerm' = [currentTerm EXCEPT ![s] = meta[1]]
                           /\ votedFor'    = [votedFor EXCEPT ![s] = meta[2]]
    /\ \E k \in 0..Len(ioQueue[s]) :
          LET d == PerformAll(disk[s], SubSeq(ioQueue[s], 1, k)) IN
          /\ disk'       = [disk EXCEPT ![s] = d]
          /\ log'        = [log EXCEPT ![s] = d]
          /\ lastStored' = [lastStored EXCEPT ![s] = Len(d)]
    /\ ioQueue'       = [ioQueue EXCEPT ![s] = << >>]
    /\ state'         = [state EXCEPT ![s] = Follower]
    /\ currentLeader' = [currentLeader EXCEPT ![s] = Nil]
    /\ inPreVote'     = [inPreVote EXCEPT ![s] = FALSE]
    /\ votes'         = [votes EXCEPT ![s] = {}]
    /\ pendingMeta'   = [pendingMeta EXCEPT ![s] = Nil]
    /\ redeliver'     = [redeliver EXCEPT ![s] = Nil]
    /\ commitIndex'   = [commitIndex EXCEPT ![s] = 0]
    /\ lastApplying'  = [lastApplying EXCEPT ![s] = 0]
    /\ lastApplied'   = [lastApplied EXCEPT ![s] = 0]
    /\ batches'       = [batches EXCEPT ![s] = << >>]
    /\ UNCHANGED <<progress, messages, submitted>>

-----------------------------------------------------------------------------
\* Every entry at or below some server's commit index, as it is now.
CommittedNow ==
    UNION {{[index |-> i, entry |-> log[s][i]] :
                i \in 1..NatMin(commitIndex[s], Len(log[s]))} : s \in Server}

\* recvBumpTermIOCb calls recvCb synchronously: no other server takes a step
\* between the callback and the re-dispatch of its message.
AllIdle == \A s \in Server : Idle(s)

\* History of committed entries, extended after every step.
RecordCommitted == committed' = committed \cup CommittedNow'

\* A crashed process takes no more steps.  Any other step waits until no
\* server is in the middle of a redelivery (recvBumpTermIOCb runs recvCb
\* synchronously).
Do(s, A(_)) == s \notin Crashed /\ AllIdle /\ A(s) /\ RecordCommitted

Step(A(_)) == \E s \in Server : Do(s, A)

\* recvCb for some message addressed to s.
Deliver(s) ==
    \E m \in messages : m.dst = s /\ s \notin Crashed /\ AllIdle /\ Receive(s, m)
                       /\ RecordCommitted

\* The term bound is the only thing that stops the model: a follower or
\* candidate whose election timer would fire but whose next term exceeds
\* MaxTerm.  The program's tick never stops; this stuttering step keeps
\* deadlock checking meaningful for every other state.
TermBoundReached ==
    /\ \E s \in Server \ Crashed : /\ state[s] \in {Follower, Candidate}
                        /\ currentTerm[s] >= MaxTerm
                        /\ pendingMeta[s] = Nil
    /\ UNCHANGED vars

Next ==
    \/ \E s \in Server \ Crashed : Redeliver(s) /\ RecordCommitted
    \/ Step(Timeout)
    \/ Step(SetMetaDone)
    \/ Step(DiskTruncate)
    \/ Step(AppendLeaderDone)
    \/ Step(AppendLeaderFailed)
    \/ Step(AppendFollowerDone)
    \/ Step(AppendFollowerFailed)
    \/ Step(ApplyDone)
    \/ Step(Heartbeat)
    \/ Step(CheckQuorum)
    \/ Step(ClientBarrier)
    \/ \E v \in Value : Step(LAMBDA s : ClientApply(s, v))
    \/ \E s \in Server : Deliver(s)
    \/ \E m \in messages : m.src \notin Crashed /\ AllIdle
                           /\ SendAppendEntriesFailed(m.src, m) /\ RecordCommitted
    \/ \E m \in messages : AllIdle /\ LoseMessage(m) /\ RecordCommitted
    \/ Step(Restart)
    \/ TermBoundReached

-----------------------------------------------------------------------------
Init ==
    /\ currentTerm   = [s \in Server |-> 0]
    /\ votedFor      = [s \in Server |-> Nil]
    /\ state         = [s \in Server |-> Follower]
    /\ currentLeader = [s \in Server |-> Nil]
    /\ inPreVote     = [s \in Server |-> FALSE]
    /\ votes         = [s \in Server |-> {}]
    /\ pendingMeta   = [s \in Server |-> Nil]
    /\ redeliver     = [s \in Server |-> Nil]
    /\ log           = [s \in Server |-> << >>]
    /\ disk          = [s \in Server |-> << >>]
    /\ ioQueue       = [s \in Server |-> << >>]
    /\ lastStored    = [s \in Server |-> 0]
    /\ commitIndex   = [s \in Server |-> 0]
    /\ lastApplying  = [s \in Server |-> 0]
    /\ lastApplied   = [s \in Server |-> 0]
    /\ batches       = [s \in Server |-> << >>]
    /\ progress      = [s \in Server |-> BuildArray(Server, s, 0, 0)]
    /\ messages      = {}
    /\ submitted     = {}
    /\ faults        = [io |-> 0, send |-> 0, restart |-> 0, aborted |-> {}]
    /\ committed     = {}


Spec == Init /\ [][Next]_vars

\* The steps the program always eventually takes: the I/O backend completes
\* every set_meta, append and truncate it was given; the state machine
\* completes every command; recvBumpTermIOCb re-dispatches its message; a
\* leader's heartbeat timer keeps firing (tick); and a transport that does
\* not lose messages delivers them.  Elections, client requests,
\* check_quorum, failures and losses are never forced.
Fairness ==
    \A s \in Server :
        /\ WF_vars(Do(s, SetMetaDone))
        /\ WF_vars(Do(s, DiskTruncate))
        /\ WF_vars(Do(s, AppendLeaderDone))
        /\ WF_vars(Do(s, AppendFollowerDone))
        /\ WF_vars(Do(s, ApplyDone))
        /\ WF_vars(Do(s, Heartbeat))
        /\ WF_vars(s \notin Crashed /\ Redeliver(s) /\ RecordCommitted)
        /\ WF_vars(Deliver(s))

FairSpec == Spec /\ Fairness


-----------------------------------------------------------------------------
(* State accessors (state.c).  There is no leadership transfer in this     *)
(* module, so a leader always reports itself.                              *)

\* raft_leader: nobody while unavailable or a candidate, the leader last
\* heard from while a follower, itself while leader.
RaftLeader(s) ==
    CASE state[s] \in {Unavailable, Candidate} -> Nil
      [] state[s] = Follower                   -> currentLeader[s]
      [] state[s] = Leader                     -> s

-----------------------------------------------------------------------------
(* Properties                                                              *)

Entry == [term : 0..MaxTerm, type : {Command, Barrier}, val : Value \cup {Nil}]

TypeOK ==
    /\ currentTerm  \in [Server -> 0..MaxTerm]
    /\ votedFor     \in [Server -> Server \cup {Nil}]
    /\ state        \in [Server -> {Follower, Candidate, Leader, Unavailable}]
    /\ currentLeader \in [Server -> Server \cup {Nil}]
    /\ votes        \in [Server -> SUBSET Server]
    /\ \A s \in Server : log[s] \in Seq(Entry) /\ disk[s] \in Seq(Entry)
    /\ lastStored   \in [Server -> Nat]
    /\ commitIndex  \in [Server -> Nat]
    /\ lastApplying \in [Server -> Nat]
    /\ lastApplied  \in [Server -> Nat]
    /\ \A s, j \in Server : progress[s][j].state \in ProgressStates
    /\ faults.io     \in 0..MaxIOFailures
    /\ faults.send   \in 0..MaxSendFailures
    /\ faults.restart \in 0..MaxRestarts

\* Election safety (recvRequestVoteResult + electionVote + the persisted
\* vote of recvSetMeta): two servers are never leaders of the same term.
ElectionSafety ==
    \A s, t \in Server :
        s # t /\ state[s] = Leader /\ state[t] = Leader
            => currentTerm[s] # currentTerm[t]

\* Spec T2, across crashes: a server grants its vote in a term to one
\* candidate only, so two servers of one term that are past pre-vote
\* (a candidate's tally, or the tally a leader won with) never count the
\* same voter.  recvRequestVote replies only from the callback of the
\* set_meta that persisted the vote (respondToRequestVote), and a restart
\* recovers that vote.
VoteOncePerTerm ==
    \A c, d \in Server :
        /\ c # d
        /\ state[c] \in {Candidate, Leader} /\ state[d] \in {Candidate, Leader}
        /\ ~inPreVote[c] /\ ~inPreVote[d]
        /\ currentTerm[c] = currentTerm[d]
        => votes[c] \cap votes[d] = {}

\* Log matching (replicationAppend's consistency check and conflict
\* deletion, appendLeaderCb's truncation): two logs holding an entry of the
\* same term at the same index agree on everything up to it.
LogMatching ==
    \A s, t \in Server : \A i \in 1..NatMin(Len(log[s]), Len(log[t])) :
        log[s][i].term = log[t][i].term
            => SubSeq(log[s], 1, i) = SubSeq(log[t], 1, i)

\* State-machine safety (replicationQuorum on the leader, the follower's
\* commit = min(leader_commit, last_stored)): no two different entries are
\* ever committed at the same index, by any servers at any times.
StateMachineSafety ==
    \A c, d \in committed : c.index = d.index => c.entry = d.entry

\* last_stored (updateLastStored, deleteConflictingEntries) never claims
\* more than the backend has made durable: the first last_stored entries of
\* the in-memory log are on disk.
StoredIsDurable ==
    \A s \in Server :
        /\ lastStored[s] <= Len(log[s])
        /\ lastStored[s] <= Len(disk[s])
        /\ SubSeq(disk[s], 1, lastStored[s]) = SubSeq(log[s], 1, lastStored[s])

\* A leader's match_index for a peer of its own term (replicationUpdate's
\* progressMaybeUpdate on last_log_index) only covers entries that peer
\* really holds, identical to the leader's.
MatchIndexSound ==
    \A s, j \in Server :
        (state[s] = Leader /\ j # s /\ currentTerm[j] = currentTerm[s])
            => LET k == progress[s][j].match IN
               /\ k <= Len(log[j]) /\ k <= Len(log[s])
               /\ SubSeq(log[j], 1, k) = SubSeq(log[s], 1, k)

\* Spec S1, the order of the indexes of one server: the apply pipeline
\* (replicationApplyInner, applyCommandCb) stays behind commit_index, and
\* commit_index (replicationQuorum, the follower's min(leader_commit,
\* last_stored)) behind last_stored, which conflict truncation lowers.
IndexOrder ==
    \A s \in Server : /\ lastApplied[s] <= lastApplying[s]
                      /\ lastApplying[s] <= commitIndex[s]
                      /\ commitIndex[s] <= lastStored[s]

\* A failed assertion of the code ends the process; `faults.aborted'
\* records where.  NoAbortAt(at) says the assertion of `at' never fails.
NoAbortAt(at) == \A a \in faults.aborted : a.at # at

\* replicationApplyInner asserts that the server is a leader or a follower
\* (replication.c:2430).  applyCommandCb completing a leader batch
\* re-enters it through replicationApplyLeaderCb whatever the server has
\* become meanwhile.
ApplyStateAssertion == NoAbortAt("replicationApplyInner")

\* replicationProgressInner asserts that the entry before next_index is
\* still in the leader's log (replication.c:717): next_index may never run
\* past last_index + 1.
PrevEntryAssertion == NoAbortAt("replicationProgressInner")

\* appendLeader asserts that a new leader entry lies past last_stored
\* (replication.c:935): last_stored never exceeds the in-memory log.
AppendIndexAssertion == NoAbortAt("appendLeader")

\* replicationAppend asserts that it acquired exactly the entries it
\* appended (replication.c:1872): the conflicting suffix it truncates is
\* never still referenced by a pending write or send.
AppendCountAssertion == NoAbortAt("replicationAppend")

\* commit_index never decreases (spec S2): neither the leader's
\* replicationQuorum nor a follower's min(leader_commit, last_stored).
CommitMonotone ==
    [][\A s \in Server : commitIndex'[s] >= commitIndex[s]]_commitIndex

\* An entry a follower has committed is eventually applied while it stays
\* a follower: when replicationApplyInner stops at a barrier behind a
\* command in flight, the next heartbeat's empty append (leader_commit
\* beyond last_applying) re-enters the apply loop.
FollowerApplies ==
    \A s \in Server :
        (state[s] = Follower /\ lastApplied[s] < commitIndex[s])
            ~> (lastApplied[s] >= commitIndex[s] \/ state[s] # Follower
                \/ s \in Crashed)

\* The same for a leader: its committed entries are eventually applied
\* (the barrier callback of raft_barrier fires) while it stays leader.
LeaderApplies ==
    \A s \in Server :
        (state[s] = Leader /\ lastApplied[s] < commitIndex[s])
            ~> (lastApplied[s] >= commitIndex[s] \/ state[s] # Leader
                \/ s \in Crashed)

-----------------------------------------------------------------------------
(* Refinement of CommittedLog.  The committed log is the prefix up to      *)
(* commit_index of the log of a server whose commit_index is highest; the  *)
(* entries a server has applied are the prefix of its own log up to        *)
(* last_applied.                                                           *)

CommitHolder ==
    CHOOSE w \in Server : \A s \in Server : commitIndex[w] >= commitIndex[s]

Committed == INSTANCE CommittedLog WITH
    clog    <- SubSeq(log[CommitHolder], 1, commitIndex[CommitHolder]),
    applied <- [s \in Server |-> SubSeq(log[s], 1, lastApplied[s])]

\* The cluster implements the committed log: in every step the highest
\* committed prefix is only extended (replicationQuorum, and a follower's
\* min(leader_commit, last_stored), never commit a different entry at a
\* committed index), and replicationApplyInner, applyCommandCb and the
\* in-place barrier apply only committed entries, each server in log order
\* and never going back.
CommittedLogRefined == Committed!Spec

\* current_term never decreases (spec S3): every set_meta callback writes
\* the requested term unconditionally.
TermMonotone ==
    [][\A s \in Server : currentTerm'[s] >= currentTerm[s]]_currentTerm

\* Two servers of the same current term that both name a leader through
\* raft_leader name the same one: a follower learns current_leader only
\* from an AppendEntries of its own term (recvAppendEntries), and keeps it
\* across the term bumps of recvBumpTermIOCb and electionVote's set_meta.
\* Checked where the program can call raft_leader: not between
\* recvBumpTermIOCb and the recvCb it makes in the same callback.
LeaderReportAgreement ==
    AllIdle =>
    \A s, t \in Server :
        /\ currentTerm[s] = currentTerm[t]
        /\ RaftLeader(s) # Nil /\ RaftLeader(t) # Nil
        => RaftLeader(s) = RaftLeader(t)

=============================================================================
