----------------------------- MODULE EdgeAgent -----------------------------
(***************************************************************************)
(* The edge agent is a command line: one run of it probes a recorder,      *)
(* listens to one, or works on the outbox.  Nothing connects the parts     *)
(* yet ("run" only says so), so a behaviour is a behaviour of one of them. *)
(***************************************************************************)
EXTENDS EventFeed, Probe, EdgeOutbox

VARIABLE command

agentVars == <<command, feedVars, probeVars, outboxVars>>

\* The parts that do not run are at rest.
AgentInit ==
    /\ command \in {"listen", "probe", "outbox"}
    /\ FeedInit /\ ProbeInit /\ OutboxInit
    /\ command # "listen" => format = "length" /\ boundary
    /\ command # "probe" =>
           /\ truth = [snapshot_base |-> 1, index_base |-> 0, cameras |-> {}]
           /\ options = [trigger_channel |-> 0, ffprobe |-> FALSE]

AgentNext ==
    \/ command = "listen" /\ FeedNext /\ UNCHANGED <<command, probeVars, outboxVars>>
    \/ command = "probe" /\ ProbeNext /\ UNCHANGED <<command, feedVars, outboxVars>>
    \/ command = "outbox" /\ OutboxNext /\ UNCHANGED <<command, feedVars, probeVars>>

AgentSpec == AgentInit /\ [][AgentNext]_agentVars /\ OutboxFairness
=============================================================================
