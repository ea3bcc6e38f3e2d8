------------------------------ MODULE MCZRaft ------------------------------
(* Instantiation of ZRaft for TLC: three servers, small sets of payloads. *)
EXTENDS ZRaft, TLC

CONSTANTS s1, s2, s3, v1, MaxInFlight

MCServer == {s1, s2, s3}
MCValue  == {v1}

\* A cluster of two voters, for behaviours of one leader and one follower.
MCServer2 == {s1, s2}
Symmetry2 == Permutations(MCServer2) \cup Permutations(MCValue)

Symmetry == Permutations(MCServer) \cup Permutations(MCValue)


\* Bound on the messages in flight at once.
NetworkBound == Cardinality(messages) <= MaxInFlight

\* Fields the code reads only in one role are shown only in that role:
\* r->leader_state (the progress array) while leading, rebuilt by
\* convertToLeader before it is read again; candidate_state (votes,
\* in_pre_vote) while a candidate, reset by electionStart and the pre-vote
\* tick; follower_state.current_leader while a follower, set by every
\* conversion to follower.
View == <<currentTerm, votedFor, state, pendingMeta, redeliver,
          [s \in Server |-> IF state[s] = Follower THEN currentLeader[s] ELSE Nil],
          [s \in Server |-> IF state[s] = Candidate
                            THEN <<inPreVote[s], votes[s]>> ELSE Nil],
          logVars, applyVars, messages, submitted, faults, committed,
          [s \in Server |-> IF state[s] = Leader THEN progress[s] ELSE Nil]>>

=============================================================================
