--------------------------- MODULE SessionLifecycle ---------------------------
(***************************************************************************)
(* What a dialogue session promises, without files, requests or crashes: a *)
(* status, a mode fixed at the start and a history that grows by one turn  *)
(* at a time. ADR-024's pause protocol and the turn ceiling are the guards *)
(* of its actions.                                                         *)
(***************************************************************************)
EXTENDS Naturals, Sequences, StewardGate

CONSTANTS
    MaxTurns,       \* the turn ceiling
    Thresholds,     \* the steward thresholds
    RunIds          \* the identities of engine runs

VARIABLES status, mode, history

lifecycle == <<status, mode, history>>

Init ==
    /\ status = "absent"
    /\ mode = "none"
    /\ history = <<>>

(* The status a session of mode m has once its k-th turn is recorded.      *)
Boundary(m, k) ==
    IF k >= MaxTurns THEN "at_limit"
    ELSE IF GateCheck(m, Thresholds, k - 1, 0, {}) # NoPause THEN "paused"
    ELSE "active"

Start(m) ==
    /\ status = "absent"
    /\ status' = "active"
    /\ mode' = m
    /\ history' = <<>>

(* A session may be born with its first turn: session start with a prompt. *)
StartWithTurn(m, r) ==
    /\ status = "absent"
    /\ status' = Boundary(m, 1)
    /\ mode' = m
    /\ history' = <<r>>

Turn(r) ==
    /\ status = "active"
    /\ \A i \in 1..Len(history) : history[i] # r
    /\ history' = Append(history, r)
    /\ status' = Boundary(mode, Len(history) + 1)
    /\ UNCHANGED mode

Resume ==
    /\ status = "paused"
    /\ status' = "active"
    /\ UNCHANGED <<mode, history>>

Close ==
    /\ status \in {"active", "paused", "at_limit"}
    /\ status' = "closed"
    /\ UNCHANGED <<mode, history>>

Next ==
    \/ \E m \in SessionMode : Start(m) \/ \E r \in RunIds : StartWithTurn(m, r)
    \/ \E r \in RunIds : Turn(r)
    \/ Resume
    \/ Close

Spec == Init /\ [][Next]_lifecycle
=============================================================================
