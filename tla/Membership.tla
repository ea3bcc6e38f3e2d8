----------------------------- MODULE Membership -----------------------------
(***************************************************************************)
(* Membership changes as one zraft leader sees them: the client calls of   *)
(* client.c that append a RAFT_CHANGE entry (raft_add, raft_assign,        *)
(* raft_joint_promote, raft_dup, raft_remove), the leader's own disk       *)
(* writes (appendLeaderCb), acknowledgements from followers                *)
(* (replicationUpdate), the role-counting quorum (replicationQuorum) and   *)
(* the application of a committed CHANGE (applyChange).                    *)
(*                                                                         *)
(* Followers are abstracted to the match index the leader keeps for them:  *)
(* an acknowledgement raises it to any index the leader holds.  All       *)
(* entries are of the leader's term.  Commands are handed to the state     *)
(* machine and complete later (applyCommandCb); a barrier or a CHANGE is   *)
(* applied in the loop only when no command is in flight.                  *)
(* configuration.c and membership.c are not under src/; their operators   *)
(* below are modelled from spec.md sections 3 and 4.9.                     *)
(*                                                                         *)
(* The leader also takes snapshots after applying (shouldTakeSnapshot,     *)
(* takeSnapshot, takeSnapshotCb) and so drops a prefix of its log.  A      *)
(* follower whose next entry is gone is not sent a snapshot (this build    *)
(* keeps only (void)sendSnapshot) but demoted to STANDBY (assignRole), and *)
(* a STANDBY takes the pgrep path of replicationProgressInner, which with  *)
(* no pgrep group sends it empty heartbeats only.                          *)
(***************************************************************************)
EXTENDS Naturals, Sequences, FiniteSets

LOCAL INSTANCE FiniteSetsExt
LOCAL INSTANCE Functions

CONSTANTS
    Server,     \* server ids (model values)
    Self,       \* r->id: the leader this module follows
    InitVoters, \* voters of the bootstrap configuration (index 1)
    Nil,        \* "no server" / "no request"
    MaxLogLen,  \* bound on the leader's log
    Threshold,  \* r->snapshot.threshold
    Trailing    \* r->snapshot.trailing

Voter   == "voter"
Standby == "standby"
Spare   == "spare"
Logger  == "logger"
Absent  == "absent"    \* not in the configuration
Roles   == {Voter, Standby, Spare, Logger}
Unknown == "unknown"   \* RAFT_UNKNOW, the pre_role of a server at rest

Normal == "normal"
Joint  == "joint"
Old    == "old"
New    == "new"

Leader   == "leader"
Follower == "follower"

Command == "command"
Barrier == "barrier"
Change  == "change"

VARIABLES
    state,              \* r->state
    conf,               \* r->configuration
    role,               \* r->role
    log,                \* r->log: [type, conf] entries
    lastStored,         \* r->last_stored
    match,              \* leader_state.progress[i].match_index, by server id
    commitIndex,        \* r->commit_index
    lastApplying,       \* r->last_applying
    lastApplied,        \* r->last_applied
    batches,            \* live struct applyBatch records: [cmds, complete]
    uncommitted,        \* r->configuration_uncommitted_index
    confIndex,          \* r->configuration_index
    change,             \* leader_state.change: the pending request, or Nil
    promotee,           \* leader_state.promotee_id
    removeId,           \* leader_state.remove_id
    removedFromCluster, \* leader_state.removed_from_cluster
    removed,            \* r->removed
    cbs,                \* change requests whose callback fired, in order
    aborted,            \* the functions whose assert() stopped the process
    snapIndex,          \* r->log.snapshot.last_index
    logStart,           \* index of the first entry still held in r->log
    snapPending,        \* r->snapshot.pending.index, 0 when pending.term = 0
    preRole,            \* configuration.servers[i].pre_role, by server id
    pgrep               \* servers whose progress has `replicating` set

vars == <<state, conf, role, log, lastStored, match, commitIndex, lastApplying,
          lastApplied, batches,
          uncommitted, confIndex, change, promotee, removeId,
          removedFromCluster, removed, cbs, aborted, snapIndex, logStart,
          snapPending, preRole, pgrep>>

snapVars == <<snapIndex, logStart, snapPending>>

applyVars == <<lastApplying, lastApplied, batches>>

\* What applyChange changes.
changeVars == <<uncommitted, confIndex, change, cbs, preRole, state, removed>>

-----------------------------------------------------------------------------
(* configuration.c, modelled from spec.md section 3.  A configuration is a *)
(* record: the phase, and for every server id its role (Absent when it is *)
(* not a member), its role_new and its groups.                             *)

Members(c) == {s \in Server : c.role[s] # Absent}

\* raft_configuration_add: a new server, role_new = role, group OLD.
ConfAdd(c, id, r) ==
    [c EXCEPT !.role[id] = r, !.roleNew[id] = r, !.group[id] = {Old}]

\* configurationRemove
ConfRemove(c, id) ==
    [c EXCEPT !.role[id] = Absent, !.roleNew[id] = Absent, !.group[id] = {}]

\* configurationJointRemove: JOINT phase, id stays in OLD only.
JointRemove(c, id) ==
    [c EXCEPT !.phase = Joint,
              !.roleNew = c.role,
              !.group = [s \in Server |->
                            IF s \notin Members(c) THEN {}
                            ELSE IF s = id THEN {Old} ELSE {Old, New}]]

\* configurationJointToNormal: the members of group g, with their roles of g.
JointToNormal(c, g) ==
    LET keep == {s \in Members(c) : g \in c.group[s]}
        r(s) == IF s \notin keep THEN Absent
                ELSE IF g = New THEN c.roleNew[s] ELSE c.role[s]
    IN [phase |-> Normal,
        role |-> [s \in Server |-> r(s)],
        roleNew |-> [s \in Server |-> r(s)],
        group |-> [s \in Server |-> IF s \in keep THEN {Old} ELSE {}]]

\* configurationVoterCount: the servers whose role is VOTER.
VoterCount(c) == Cardinality({s \in Server : c.role[s] = Voter})

\* membershipCanChangeConfiguration (spec 4.9): leader, no transfer (none is
\* modelled), no CHANGE in flight, NORMAL phase unless allowJoint.
CanChange(allowJoint) ==
    /\ state = Leader
    /\ uncommitted = 0
    /\ change = Nil
    /\ conf.phase = Normal \/ allowJoint

-----------------------------------------------------------------------------
(* Helpers of src/.                                                        *)

\* logLastIndex
LastIndex == Len(log)

\* progressRebuildArray: keep the progress of servers in both
\* configurations, initProgress (match_index 0) for the others.  The
\* `replicating` flag is copied with the progress record of a kept server;
\* initProgress does not set it and a new record is taken as zeroed.
RebuildMatch(c) ==
    [s \in Server |-> IF s \in Members(conf) \cap Members(c) THEN match[s] ELSE 0]

\* A change request: its kind, target and the index of its CHANGE entry
\* (0 while a catch-up round has not submitted it).
Req(op, id, index) == [op |-> op, id |-> id, index |-> index]

\* A CHANGE entry holding configuration c.
ChangeEntry(c) == [type |-> Change, conf |-> c]

\* clientChangeConfiguration (client.c 150-215) for c: append c as a CHANGE
\* entry, rebuild the progress array, adopt c (and r->role when c is a new
\* object), replicationTrigger (appendLeader, then triggerAll), record the
\* uncommitted index and whether the leader left the configuration.  d is
\* r->configuration once the nested triggerAll returned, and extra the
\* entries it appended (see SubmitChange).
ChangeConfiguration(c, newObject, d, extra) ==
    /\ LastIndex + Len(extra) < MaxLogLen
    /\ log' = Append(log, ChangeEntry(c)) \o extra
    /\ match' = RebuildMatch(c)
    /\ conf' = d
    /\ role' = IF ~newObject THEN role
               ELSE IF Self \in Members(c) THEN c.role[Self] ELSE Standby
    /\ uncommitted' = LastIndex + 1
    /\ removedFromCluster' = (removedFromCluster \/ Self \notin Members(c))
    /\ pgrep' = pgrep \cap Members(c)

\* clientChangeConfiguration whose nested triggerAll changes no state of
\* this module: every step it takes there is also a later
\* ReplicationProgress step, except the demotion of SubmitChange, and that
\* one fails can_change whenever leader_state.change is already set.
ClientChangeConfiguration(c, newObject) ==
    ChangeConfiguration(c, newObject, c, << >>)

\* Steps that leave the commit and apply state alone.
NoCommit == UNCHANGED <<lastStored, commitIndex, applyVars, confIndex,
                        state, removed, cbs, snapVars>>
-----------------------------------------------------------------------------
(* Commit and apply on the leader.                                        *)

\* replicationQuorum(r, r->last_stored) over match m: commit last_stored
\* when more than half of VoterCount servers whose role is VOTER match it.
\* Neither role_new nor the groups of a JOINT configuration are looked at.
ReplicationQuorum(m, ls) ==
    IF ls <= commitIndex THEN commitIndex
    ELSE IF Cardinality({s \in Server : conf.role[s] = Voter /\ m[s] >= ls})
              > VoterCount(conf) \div 2
         THEN ls
         ELSE commitIndex

\* assignRoleCb, the callback of the leader's own raft_assign request, run
\* by applyChange: the server's pre_role goes back to RAFT_UNKNOW (and
\* promotee_id is cleared if it became a VOTER, which a demotion to
\* STANDBY never does).
AssignRoleCb ==
    IF change # Nil /\ change.op = "assignRole"
    THEN [preRole EXCEPT ![change.id] = Unknown]
    ELSE preRole

\* Mutation of ApplyChange: configuration_uncommitted_index is not reset.
ApplyChangeKeepUncommitted(i) ==
    /\ uncommitted' = uncommitted
    /\ confIndex' = i
    /\ change' = Nil
    /\ cbs' = IF change # Nil THEN Append(cbs, change) ELSE cbs
    /\ preRole' = AssignRoleCb
    /\ state' = IF Self \in Members(conf) THEN Leader ELSE Follower
    /\ removed' = (removed \/ Self \notin Members(conf))

\* Mutation of ApplyChange: configuration_index is read from the
\* uncommitted index after it was reset.
ApplyChangeIndexFromUncommitted(i) ==
    /\ uncommitted' = IF uncommitted = i THEN 0 ELSE uncommitted
    /\ confIndex' = uncommitted'
    /\ change' = Nil
    /\ cbs' = IF change # Nil THEN Append(cbs, change) ELSE cbs
    /\ preRole' = AssignRoleCb
    /\ state' = IF Self \in Members(conf) THEN Leader ELSE Follower
    /\ removed' = (removed \/ Self \notin Members(conf))

\* applyChange(index) on the leader: clear the uncommitted index it
\* committed, record the configuration index, fire and clear
\* leader_state.change, and step down (convertToFollower, r->removed) when
\* the leader is not in r->configuration.  Only a leader commits here; the
\* follower branch belongs to the follower path, outside this module.
ApplyChange(i) ==
    /\ uncommitted' = IF uncommitted = i THEN 0 ELSE uncommitted
    /\ confIndex' = i
    /\ change' = Nil
    /\ cbs' = IF change # Nil THEN Append(cbs, change) ELSE cbs
    /\ preRole' = AssignRoleCb
    /\ state' = IF Self \in Members(conf) THEN Leader ELSE Follower
    /\ removed' = (removed \/ Self \notin Members(conf))

\* The loop of replicationApplyInner from index idx to `to': a command is
\* handed to the state machine (last_applying advances, the apply
\* completes in ApplyDone); a barrier or a CHANGE is applied at once, but
\* while a command is in flight the loop stops (goto pgrep_fail).  st.chg
\* is the CHANGE the loop applied, 0 if none.
\* Mutation of ApplyLoop: a barrier or a CHANGE is applied even while a
\* command before it is in flight (the last_applying > last_applied check
\* dropped).
RECURSIVE ApplyLoopNoStop(_, _, _)
ApplyLoopNoStop(idx, to, st) ==
    IF idx > to THEN [st EXCEPT !.done = TRUE]
    ELSE IF log[idx].type = Command
         THEN ApplyLoopNoStop(idx + 1, to, [st EXCEPT !.applying = idx, !.cmds = @ + 1])
         ELSE ApplyLoopNoStop(idx + 1, to,
                [st EXCEPT !.applied = idx, !.applying = idx,
                           !.chg = IF log[idx].type = Change THEN idx ELSE @])

RECURSIVE ApplyLoop(_, _, _)
ApplyLoop(idx, to, st) ==
    IF idx > to THEN [st EXCEPT !.done = TRUE]
    ELSE IF log[idx].type = Command
         THEN ApplyLoop(idx + 1, to, [st EXCEPT !.applying = idx, !.cmds = @ + 1])
         ELSE IF st.applying > st.applied
              THEN st
              ELSE ApplyLoop(idx + 1, to,
                     [st EXCEPT !.applied = idx, !.applying = idx,
                                !.chg = IF log[idx].type = Change THEN idx ELSE @])

\* shouldTakeSnapshot and takeSnapshot after a loop that ran to its end
\* with nothing in flight: no snapshot pending and last_applied -
\* snapshot.last_index at the threshold.  The snapshot is taken at
\* last_applied and put asynchronously, unless fsm->snapshot or
\* snapshot_put fails and pending.term is reset.
TakeSnapshot(r) ==
    IF r.done /\ r.applying = r.applied /\ snapPending = 0
       /\ r.applied - snapIndex >= Threshold
    THEN snapPending' \in {r.applied, 0}
    ELSE UNCHANGED snapPending

\* replicationApplyInner on a leader (the pgrep permit granted) with commit
\* index ci, last_applying la, last_applied lap and batches bs: nothing to
\* do when la or lap is at ci; otherwise run the loop to ci, record its
\* batch while it has commands in flight (`complete' when the loop reached
\* ci), apply the CHANGE it met, and possibly take a snapshot.
ReplicationApply(ci, la, lap, bs) ==
    IF la = ci \/ lap = ci
    THEN /\ lastApplying' = la /\ lastApplied' = lap /\ batches' = bs
         /\ UNCHANGED <<snapPending, changeVars>>
    ELSE LET r == ApplyLoop(la + 1, ci, [applying |-> la, applied |-> lap,
                                        cmds |-> 0, done |-> FALSE, chg |-> 0])
         IN /\ lastApplying' = r.applying
            /\ lastApplied' = r.applied
            /\ batches' = IF r.cmds = 0 THEN bs
                          ELSE Append(bs, [cmds |-> r.cmds, complete |-> r.done])
            /\ TakeSnapshot(r)
            /\ IF r.chg = 0 THEN UNCHANGED changeVars ELSE ApplyChange(r.chg)

-----------------------------------------------------------------------------
(* How replicationProgressInner treats follower j under configuration c   *)
(* and match m (replication.c 620-742).                                    *)

\* triggerAll: a leader sends entries to every other member, skipping a
\* SPARE unless it is the promotee.
Replicated(c, j) ==
    /\ j # Self
    /\ j \in Members(c)
    /\ c.role[j] # Spare \/ j = promotee

\* enterPgrepicating with no permit: a server whose progress is
\* `replicating`, or that is (or is being made) STANDBY and not being made
\* a VOTER, takes the pgrep path.  With pgrep_id = RAFT_INVALID_ID,
\* sendPgrepTickMessage sends it an empty heartbeat at the leader's last
\* index and nothing else.
OnPgrepPath(c, j) ==
    \/ j \in pgrep
    \/ preRole[j] # Voter /\ (c.role[j] = Standby \/ preRole[j] = Standby)

\* logTermOf(prev) # 0: the entry is still in the log, or is the snapshot
\* anchor.
TermKnown(p) == p \in logStart .. LastIndex \/ (p = snapIndex /\ p > 0)

\* replicationProgressInner's two gotos to change_standby, with next_index
\* abstracted to the probed value match_index + 1: next_index = 1 while a
\* snapshot exists, or prev_index's entry is gone.
Lagging(m, j) ==
    IF m[j] = 0 THEN snapIndex > 0 ELSE ~TermKnown(m[j])

\* change_standby: assignRole(r, server, RAFT_STANDBY) reaches raft_assign,
\* which can succeed: j is off the pgrep path, lags, and is not STANDBY.
Demotable(c, m, j) ==
    /\ Replicated(c, j)
    /\ ~OnPgrepPath(c, j) /\ Lagging(m, j)
    /\ c.role[j] # Standby
-----------------------------------------------------------------------------
(* Client calls (client.c).  An early return with an error code changes  *)
(* nothing and is not a step.  raft_apply and raft_barrier also run       *)
(* triggerAll; what it does there is a ReplicationProgress step that may  *)
(* as well come right after.                                               *)

\* raft_apply: only a leader still in its configuration appends a command.
RaftApply ==
    /\ state = Leader
    /\ ~removedFromCluster
    /\ LastIndex < MaxLogLen
    /\ log' = Append(log, [type |-> Command, conf |-> Nil])
    /\ UNCHANGED <<conf, role, match, uncommitted, change, promotee, removeId,
                   removedFromCluster, pgrep, preRole, aborted>>
    /\ NoCommit

\* raft_barrier: only state and transfer are checked.
RaftBarrier ==
    /\ state = Leader
    /\ LastIndex < MaxLogLen
    /\ log' = Append(log, [type |-> Barrier, conf |-> Nil])
    /\ UNCHANGED <<conf, role, match, uncommitted, change, promotee, removeId,
                   removedFromCluster, pgrep, preRole, aborted>>
    /\ NoCommit

\* raft_add, raft_dup and raft_remove (caller) submit the new object c by
\* clientChangeConfiguration and then assert(change == NULL) and set
\* change = req (client.c 262-263, 405-406, 591-592).  Its
\* replicationTrigger (199) runs triggerAll before
\* configuration_uncommitted_index is set (206) and while change is still
\* NULL, so a lagging follower j met there is demoted: raft_assign passes
\* can_change, sets change to assignRole's request and pre_role, makes j
\* STANDBY in c in place and appends a second CHANGE, whose uncommitted
\* index the outer call then overwrites; the caller's assert aborts.
SubmitChange(c, caller, req) ==
    \/ /\ ClientChangeConfiguration(c, TRUE)
       /\ change' = req
       /\ UNCHANGED <<preRole, aborted>>
    \/ \E j \in Server :
         LET d == [c EXCEPT !.role[j] = Standby] IN
         /\ c.phase = Normal
         /\ Demotable(c, RebuildMatch(c), j)
         /\ ChangeConfiguration(c, TRUE, d, << ChangeEntry(d) >>)
         /\ change' = Req("assignRole", j, LastIndex + 2)
         /\ preRole' = [preRole EXCEPT ![j] = Standby]
         /\ aborted' = aborted \cup {caller}

\* raft_add: a copy of the configuration with id added as SPARE.
RaftAdd(id) ==
    /\ CanChange(FALSE)
    /\ id \notin Members(conf)
    /\ SubmitChange(ConfAdd(conf, id, Spare), "raft_add", Req("add", id, LastIndex + 1))
    /\ UNCHANGED <<promotee, removeId>>
    /\ NoCommit

\* raft_assign: set change, then set the role in place and submit it,
\* unless id is promoted to VOTER or LOGGER and is behind: then start a
\* catch-up round.
RaftAssign(id, r) ==
    /\ CanChange(FALSE)
    /\ id \in Members(conf)
    /\ conf.role[id] # r
    /\ IF r \notin {Voter, Logger} \/ match[id] = LastIndex
         THEN /\ ClientChangeConfiguration([conf EXCEPT !.role[id] = r], FALSE)
              /\ change' = Req("assign", id, LastIndex + 1)
              /\ UNCHANGED <<promotee, removeId>>
         ELSE /\ promotee' = id
              /\ change' = Req("assign", id, 0)
              /\ UNCHANGED <<conf, role, log, match, uncommitted, removeId,
                             removedFromCluster, pgrep>>
    /\ UNCHANGED <<preRole, aborted>>
    /\ NoCommit

\* raft_joint_promote: when id is caught up, turn r->configuration in place
\* into a JOINT one without `remove` in NEW and with id's role_new set, and
\* submit it; otherwise start a catch-up round.  change is set first.
RaftJointPromote(id, r, rm) ==
    /\ rm \in Members(conf)
    /\ CanChange(FALSE)
    /\ id \in Members(conf)
    /\ conf.role[id] # r
    /\ IF match[id] = LastIndex
         THEN /\ ClientChangeConfiguration(
                     [JointRemove(conf, rm) EXCEPT !.roleNew[id] = r], FALSE)
              /\ change' = Req("promote", id, LastIndex + 1)
              /\ UNCHANGED <<promotee, removeId>>
         ELSE /\ promotee' = id
              /\ removeId' = rm
              /\ change' = Req("promote", id, 0)
              /\ UNCHANGED <<conf, role, log, match, uncommitted,
                             removedFromCluster, pgrep>>
    /\ UNCHANGED <<preRole, aborted>>
    /\ NoCommit

\* raft_dup: submit a copy of the configuration unchanged.
RaftDup ==
    /\ CanChange(FALSE)
    /\ SubmitChange(conf, "raft_dup", Req("dup", Nil, LastIndex + 1))
    /\ UNCHANGED <<promotee, removeId>>
    /\ NoCommit

\* copyJointRemoveConfiguration: the NORMAL configuration of the group that
\* does not contain id only (NEW for a server in OLD alone, else OLD).
CopyJointRemove(c, id) ==
    JointToNormal(c, IF New \in c.group[id] THEN Old ELSE New)

\* raft_remove: in NORMAL a copy without id; in JOINT the collapsed
\* configuration, from which id is then removed if it is there.
RaftRemove(id) ==
    LET joint == conf.phase = Joint
    IN /\ CanChange(joint)
       /\ id \in Members(conf)
       /\ SubmitChange(
              ConfRemove(IF joint THEN CopyJointRemove(conf, id) ELSE conf, id),
              "raft_remove", Req("remove", id, LastIndex + 1))
       /\ UNCHANGED <<promotee, removeId>>
       /\ NoCommit
-----------------------------------------------------------------------------
(* Replication (replication.c).                                           *)

\* replicationQuorum then replicationApply: commit index ci and run the
\* apply loop, whether or not ci is new.
CommitAndApply(ci) ==
    /\ commitIndex' = ci
    /\ ReplicationApply(ci, lastApplying, lastApplied, batches)

\* appendLeaderCb after a successful write of the next entry (each client
\* call submits its own write, and writes complete in order): raise
\* last_stored; a leader in its configuration records its own match index,
\* one that is not asserts that the entry is a CHANGE; then commit and
\* apply.  A former leader only records last_stored.
AppendLeaderCb ==
    /\ lastStored < LastIndex
    /\ lastStored' = lastStored + 1
    /\ UNCHANGED <<conf, role, log, promotee, removeId, removedFromCluster,
                   snapIndex, logStart, pgrep>>
    /\ \/ /\ state # Leader
          /\ UNCHANGED <<match, commitIndex, applyVars, changeVars, aborted,
                         snapPending>>
       \/ /\ state = Leader
          /\ Self \in Members(conf)
          /\ match' = [match EXCEPT ![Self] = lastStored']
          /\ CommitAndApply(ReplicationQuorum(match', lastStored'))
          /\ UNCHANGED aborted
       \/ /\ state = Leader
          /\ Self \notin Members(conf)
          /\ IF log[lastStored'].type = Change
               THEN /\ CommitAndApply(ReplicationQuorum(match, lastStored'))
                    /\ UNCHANGED <<match, aborted>>
               ELSE /\ aborted' = aborted \cup {"appendLeaderCb"}
                    /\ UNCHANGED <<match, commitIndex, applyVars, changeVars,
                                   snapPending>>

\* replicationUpdate on a successful AppendEntries result from j: the
\* follower stored the entries up to n, and only when progressMaybeUpdate
\* raises match do replicationQuorum(last_stored) and replicationApply
\* follow.  Only a server that replicationProgressInner sends entries to
\* (not on the pgrep path, prev entry still known) has any to store.  A
\* follower holds what its match index says (send and acknowledgement are
\* one step), so the heartbeat at the leader's last index that a server on
\* the pgrep path gets raises no match and stops at progressMaybeUpdate.
\* Nothing looks at the promotee: triggerActualPromotion is commented out.
ReplicationUpdate(j) ==
    /\ state = Leader
    /\ Replicated(conf, j)
    /\ ~OnPgrepPath(conf, j) /\ ~Lagging(match, j)
    /\ \E n \in match[j] + 1 .. LastIndex :
          /\ match' = [match EXCEPT ![j] = n]
          /\ CommitAndApply(ReplicationQuorum(match', lastStored))
    /\ UNCHANGED <<conf, role, log, lastStored, promotee, removeId,
                   removedFromCluster, aborted, snapIndex, logStart, pgrep>>

\* assignRole(r, server, RAFT_STANDBY): return if pre_role is already
\* STANDBY, set pre_role and call raft_assign, which submits the role
\* change in place at once (STANDBY needs no catch-up).  When raft_assign
\* fails (can_change, or the role is already STANDBY) pre_role is reset
\* and nothing has changed.
AssignRole(j) ==
    /\ preRole[j] # Standby
    /\ CanChange(FALSE)
    /\ conf.role[j] # Standby
    /\ ClientChangeConfiguration([conf EXCEPT !.role[j] = Standby], FALSE)
    /\ change' = Req("assignRole", j, LastIndex + 1)
    /\ preRole' = [preRole EXCEPT ![j] = Standby]
    /\ UNCHANGED <<promotee, removeId, lastStored, commitIndex, applyVars,
                   confIndex, state, removed, cbs, aborted, snapVars>>

\* replicationProgressInner(j), reached from triggerAll (a heartbeat, or
\* the trigger of an append) or from the catch-up start of raft_assign and
\* raft_joint_promote, when progressShouldReplicate lets it through:
\*  - a `replicating` server must be STANDBY (assert, replication.c:633);
\*  - a STANDBY whose pre_role is not STANDBY gets `replicating` set;
\*  - a server off the pgrep path whose next entry is gone is demoted.
\* Its other outcomes send an AppendEntries or a heartbeat and change no
\* state of this module; the follower's answer is ReplicationUpdate.
ReplicationProgress(j) ==
    /\ state = Leader
    /\ Replicated(conf, j)
    /\ \/ /\ j \in pgrep /\ conf.role[j] # Standby
          /\ aborted' = aborted \cup {"enterPgrepicating"}
          /\ UNCHANGED <<conf, role, log, lastStored, match, commitIndex,
                         applyVars, changeVars, promotee, removeId,
                         removedFromCluster, snapVars, pgrep>>
       \/ /\ j \notin pgrep
          /\ preRole[j] \notin {Voter, Standby} /\ conf.role[j] = Standby
          /\ pgrep' = pgrep \cup {j}
          /\ UNCHANGED <<conf, role, log, lastStored, match, commitIndex,
                         applyVars, changeVars, promotee, removeId,
                         removedFromCluster, aborted, snapVars>>
       \/ /\ ~OnPgrepPath(conf, j) /\ Lagging(match, j)
          /\ AssignRole(j)

\* applyCommandCb: the state machine finished the command at
\* last_applied + 1.  When it was the last outstanding entry of a complete
\* batch, applySectionCallbackCheck calls replicationApplyLeaderCb, which
\* (no pgrep group) releases the permit and re-enters replicationApply.
\* A batch the loop left at a barrier or a CHANGE never completes.
ApplyDone ==
    LET b    == Head(batches)
        rest == IF b.cmds = 1 THEN Tail(batches)
                ELSE [batches EXCEPT ![1].cmds = @ - 1]
    IN /\ lastApplied < lastApplying
       /\ IF b.cmds = 1 /\ b.complete
            THEN ReplicationApply(commitIndex, lastApplying, lastApplied + 1, rest)
            ELSE /\ lastApplied' = lastApplied + 1
                 /\ batches' = rest
                 /\ UNCHANGED <<lastApplying, snapPending, changeVars>>
       /\ UNCHANGED <<conf, role, log, lastStored, match, commitIndex, promotee,
                      removeId, removedFromCluster, aborted, snapIndex,
                      logStart, pgrep>>

\* logSnapshot(i, trailing) (log.c, spec 4.1): drop the entries before
\* max(snapshot.last_index + 1, i - trailing) and anchor the log at i.
LogSnapshot(i) ==
    /\ snapIndex' = i
    /\ logStart' = Max({snapIndex + 1, i - Trailing})

\* takeSnapshotCb: on success the log is compacted at the snapshot's
\* index; in any case the pending snapshot is closed.
TakeSnapshotCb ==
    /\ snapPending > 0
    /\ \/ LogSnapshot(snapPending)
       \/ UNCHANGED <<snapIndex, logStart>>
    /\ snapPending' = 0
    /\ UNCHANGED <<conf, role, log, lastStored, match, commitIndex, applyVars,
                   changeVars, promotee, removeId, removedFromCluster, aborted,
                   pgrep>>

-----------------------------------------------------------------------------

\* The bootstrap configuration: InitVoters as voters, committed at index 1.
InitConf ==
    [phase |-> Normal,
     role |-> [s \in Server |-> IF s \in InitVoters THEN Voter ELSE Absent],
     roleNew |-> [s \in Server |-> IF s \in InitVoters THEN Voter ELSE Absent],
     group |-> [s \in Server |-> IF s \in InitVoters THEN {Old} ELSE {}]]

Init ==
    /\ state = Leader
    /\ conf = InitConf
    /\ role = Voter
    /\ log = << [type |-> Change, conf |-> InitConf] >>
    /\ lastStored = 1
    /\ match = [s \in Server |-> IF s \in InitVoters THEN 1 ELSE 0]
    /\ commitIndex = 1
    /\ lastApplying = 1
    /\ lastApplied = 1
    /\ batches = << >>
    /\ uncommitted = 0
    /\ confIndex = 1
    /\ change = Nil
    /\ promotee = Nil
    /\ removeId = Nil
    /\ removedFromCluster = FALSE
    /\ removed = FALSE
    /\ cbs = << >>
    /\ aborted = {}
    /\ snapIndex = 0
    /\ logStart = 1
    /\ snapPending = 0
    /\ preRole = [s \in Server |-> Unknown]
    /\ pgrep = {}

\* The process stops after a failed assertion, a removed server is released
\* by its owner, and the log bound ends the checked horizon.
Halted ==
    /\ aborted # {} \/ state # Leader \/ LastIndex = MaxLogLen
    /\ UNCHANGED vars

Next ==
    \/ Halted
    \/ /\ aborted = {}
       /\ \/ RaftApply
          \/ RaftBarrier
          \/ RaftDup
          \/ \E id \in Server : RaftAdd(id) \/ RaftRemove(id)
          \/ \E id \in Server, r \in Roles : RaftAssign(id, r)
          \/ \E id, rm \in Server, r \in {Voter, Logger} :
                RaftJointPromote(id, r, rm)
          \/ AppendLeaderCb
          \/ \E j \in Server : ReplicationUpdate(j) \/ ReplicationProgress(j)
          \/ ApplyDone
          \/ TakeSnapshotCb

Spec == Init /\ [][Next]_vars
-----------------------------------------------------------------------------
(* Properties.                                                            *)

Conf == [phase : {Normal, Joint},
         role : [Server -> Roles \cup {Absent}],
         roleNew : [Server -> Roles \cup {Absent}],
         group : [Server -> SUBSET {Old, New}]]

Entry == [type : {Command, Barrier}, conf : {Nil}] \cup
         [type : {Change}, conf : Conf]

Request == [op : {"add", "assign", "promote", "dup", "remove", "assignRole"},
            id : Server \cup {Nil}, index : 0..MaxLogLen]

Batch == [cmds : 1..MaxLogLen, complete : BOOLEAN]

TypeOK ==
    /\ state \in {Leader, Follower}
    /\ conf \in Conf
    /\ role \in Roles
    /\ log \in Seq(Entry) /\ Len(log) \in 1..MaxLogLen
    /\ match \in [Server -> 0..MaxLogLen]
    /\ {lastStored, commitIndex, lastApplying, lastApplied, confIndex}
         \subseteq 1..MaxLogLen
    /\ batches \in Seq(Batch)
    /\ uncommitted \in 0..MaxLogLen
    /\ change \in Request \cup {Nil}
    /\ promotee \in Server \cup {Nil}
    /\ removeId \in Server \cup {Nil}
    /\ removedFromCluster \in BOOLEAN
    /\ removed \in BOOLEAN
    /\ cbs \in Seq(Request)
    /\ aborted \subseteq {"appendLeaderCb", "enterPgrepicating", "raft_add",
                          "raft_dup", "raft_remove"}
    /\ snapIndex \in 0..MaxLogLen /\ snapPending \in 0..MaxLogLen
    /\ logStart \in 1..MaxLogLen
    /\ preRole \in [Server -> Roles \cup {Unknown}]
    /\ pgrep \subseteq Server

\* Index of the last CHANGE entry among the first n entries of the log.
LastChange(n) == Max({i \in 1..n : log[i].type = Change})

\* Spec S5 as the code keeps it while the process runs:
\* configuration_uncommitted_index is non-zero exactly when the last CHANGE
\* entry is not yet applied, and is then its index; no other CHANGE follows
\* the last applied entry; configuration_index is the last applied CHANGE.
\* applyChange resets the index only when the apply loop reaches the entry,
\* which it does not while a command before it is in flight; can_change
\* keeps a second CHANGE out.  The one way past can_change, the demotion
\* inside raft_add, raft_dup or raft_remove, ends in their assert.
UncommittedChangeSound ==
    aborted = {} =>
        LET last == LastChange(Len(log)) IN
        /\ uncommitted = IF last > lastApplied THEN last ELSE 0
        /\ Cardinality({i \in lastApplied + 1 .. Len(log) :
                           log[i].type = Change}) <= 1
        /\ confIndex = LastChange(lastApplied)

\* applyCommandCb asserts last_applied + 1 == index (replication.c:2160):
\* the state machine completes the commands in the order they were handed
\* over, so the entries between last_applied and last_applying are the
\* commands still in flight, as many as the live batches count.  It would
\* break if the apply loop applied a barrier or a CHANGE past a command in
\* flight, or a batch were recorded or completed twice.
ApplyCallbackAssertion ==
    /\ \A i \in lastApplied + 1 .. lastApplying : log[i].type = Command
    /\ FoldFunction(LAMBDA b, n : b.cmds + n, 0, batches)
         = lastApplying - lastApplied

\* appendLeaderCb (replication.c:904): when the leader is not in its own
\* configuration, the entry at last_stored is a CHANGE.
AppendLeaderChangeAssertion == "appendLeaderCb" \notin aborted

\* enterPgrepicating (replication.c:633): a server whose progress is
\* `replicating` is STANDBY whenever replicationProgressInner reaches it.
PgrepStandbyAssertion == "enterPgrepicating" \notin aborted

\* raft_add, raft_dup and raft_remove (client.c:262, 405, 591): after
\* clientChangeConfiguration returns, leader_state.change is still NULL,
\* i.e. the triggerAll nested in it started no change of its own.
ChangeRequestAssertion == aborted \cap {"raft_add", "raft_dup", "raft_remove"} = {}

\* Spec 4.6: a follower that misses compacted entries is sent a snapshot.
\* The code demotes it instead, so the leader must keep a majority of
\* voters it can still send entries to, or nothing commits again.
ReplicableQuorum ==
    state = Leader =>
        2 * Cardinality({s \in Server :
                           /\ conf.role[s] = Voter
                           /\ s = Self \/ (~OnPgrepPath(conf, s) /\ ~Lagging(match, s))})
          > VoterCount(conf)

\* Spec 4.6 and E4: while the configuration is JOINT, an entry is committed
\* only when a majority of the voters of the NEW group match it too (the
\* leader counts through its own match index).
NewVoters == {s \in Server : New \in conf.group[s] /\ conf.roleNew[s] = Voter}

JointCommitQuorum ==
    [][conf.phase = Joint /\ commitIndex' > commitIndex =>
         2 * Cardinality({s \in NewVoters : match'[s] >= commitIndex'})
           > Cardinality(NewVoters)]_vars
====
