--------------------------- MODULE DialogueSession ---------------------------
(***************************************************************************)
(* One dialogue session (core/dialogue_session.py) and the requests that   *)
(* act on it: session start, continue, status and close                    *)
(* (cli/_session_shell.py), which the API transport calls from a pool of   *)
(* threads (api/app.py). Every request loads the whole session file, works *)
(* on its own copy and writes the whole file back through a temporary file *)
(* whose name all requests share.                                          *)
(*                                                                         *)
(* A client is one API request in flight: a thread of the server's pool.   *)
(* The server may stop at any moment and start again.                      *)
(***************************************************************************)
EXTENDS Naturals, Sequences, FiniteSets, StewardGate

CONSTANTS
    Clients,        \* requests that may be in flight
    Overlap,        \* may a request begin while another is in flight?
    MaxTurns,       \* session_max_turns of runtime.yaml
    Thresholds,     \* steward_thresholds of runtime.yaml
    Refs,           \* file_refs an upload may be given
    TokenUsage,     \* tokens a single engine run may use
    RunBound,       \* bound on the number of engine runs of a behaviour
    Absent,         \* no file at that path
    Empty,          \* a file truncated and not yet written
    Garbled,        \* a file that is not one JSON document
    NoSession,      \* no session in a request's memory
    NoRef           \* a request that carries no file_ref

Status == {"active", "paused", "closed", "at_limit"}

TurnRecord == [turn_index : Nat, run_id : Nat]

Session == [session_mode : SessionMode, turn_count : Nat, max_turns : Nat,
            status : Status, turns : Seq(TurnRecord)]

Torn == {Empty, Garbled}

ASSUME MaxTurnsAssumption == MaxTurns \in Nat \ {0}
ASSUME ThresholdsAssumption ==
    /\ Thresholds.step_count \in Nat
    /\ Thresholds.token_budget \in Nat
ASSUME OverlapAssumption == Overlap \in BOOLEAN
ASSUME RunsAssumption == RunBound \in Nat /\ TokenUsage \subseteq Nat
ASSUME RefsAssumption == NoRef \notin Refs
ASSUME NoSessionAssumption == NoSession \notin Session
ASSUME FileAssumption ==
    /\ \A f \in {Absent, Empty, Garbled} : f \notin Session
    /\ Absent \notin Torn /\ Empty # Garbled

VARIABLES
    json,       \* what <session_id>.session.json holds
    tmp,        \* what <session_id>.session.tmp holds
    started,    \* has session start drawn this session_id?
    files,      \* file_refs of this session in the server's memory
    pc,         \* where each request stands
    sess,       \* the session each request holds in memory
    then,       \* how each request goes on once its save is done
    file_ref,   \* the file_ref each request carries
    fd,         \* where the file each request has open for writing is now
    runs,       \* history: engine runs so far; run k has run_id k
    tokens,     \* history: tokens those runs used
    acked,      \* history: run_ids a client was told are turns
    approvals   \* history: approve and redirect actions saved

disk  == <<json, tmp>>
local == <<pc, sess, then, file_ref, fd>>
ghost == <<runs, tokens, acked, approvals>>
vars  == <<json, tmp, started, files, pc, sess, then, file_ref, fd,
           runs, tokens, acked, approvals>>

(* What a save is for: the continuation of the command after save_session. *)
Approving == {"run_turn", "awaiting_prompt", "prompt_required"}
TurnDone  == {"turn_ok", "turn_paused"}
TurnError == {"not_active", "over_limit", "ref_expired", "turn_raised"}
Closing   == {"closed", "deleted"}
Then      == Approving \cup TurnDone \cup TurnError \cup Closing
                 \cup {"none", "started"}

PC == {"idle", "turn", "save_open", "save_write", "save_replace", "cleanup"}

-----------------------------------------------------------------------------
(* The session record.                                                     *)

IsActive(s)  == s.status = "active"
IsPaused(s)  == s.status = "paused"
IsAtLimit(s) == s.turn_count >= s.max_turns

NewSession(mode) ==
    [session_mode |-> mode, turn_count |-> 0, max_turns |-> MaxTurns,
     status |-> "active", turns |-> <<>>]

(* Mutant: the gate is asked after turn_count has been incremented.        *)
TurnGateAfterCount(s) ==
    GateCheck(s.session_mode, Thresholds, s.turn_count + 1, 0, {})

(* The gate of run_turn: it passes the step index and no token count and   *)
(* no capability classes, so the other two thresholds see their defaults.  *)
TurnGate(s) == GateCheck(s.session_mode, Thresholds, s.turn_count, 0, {})

(* Mutant: the status takes the threshold's name instead of "paused".      *)
StatusNamesThreshold(s) ==
    IF s.turn_count + 1 >= s.max_turns THEN "at_limit"
    ELSE IF TurnGate(s) # NoPause THEN TurnGate(s)
    ELSE "active"

(* Mutant: the ceiling is tested before turn_count is incremented.         *)
StatusLimitBeforeCount(s) ==
    IF s.turn_count >= s.max_turns THEN "at_limit"
    ELSE IF TurnGate(s) # NoPause THEN "paused"
    ELSE "active"

(* run_turn after the engine returned: record the turn, let the gate pause *)
(* the session, then let the turn ceiling override the pause.              *)
StatusAfterTurn(s) ==
    IF s.turn_count + 1 >= s.max_turns THEN "at_limit"
    ELSE IF TurnGate(s) # NoPause THEN "paused"
    ELSE "active"

RecordTurn(s, run_id) ==
    [session_mode |-> s.session_mode,
     turn_count   |-> s.turn_count + 1,
     max_turns    |-> s.max_turns,
     status       |-> StatusAfterTurn(s),
     turns |-> Append(s.turns, [turn_index |-> s.turn_count, run_id |-> run_id])]

(* run_turn on a session that is not active, or active at its ceiling.     *)
Refused(s) == ~IsActive(s) \/ IsAtLimit(s)
AfterRefusal(s) == IF IsActive(s) THEN [s EXCEPT !.status = "at_limit"] ELSE s
Refusal(s) == IF IsActive(s) THEN "over_limit" ELSE "not_active"

-----------------------------------------------------------------------------
Init ==
    /\ json = Absent /\ tmp = Absent
    /\ started = FALSE /\ files = {}
    /\ pc = [c \in Clients |-> "idle"]
    /\ sess = [c \in Clients |-> NoSession]
    /\ then = [c \in Clients |-> "none"]
    /\ file_ref = [c \in Clients |-> NoRef]
    /\ fd = [c \in Clients |-> "none"]
    /\ runs = 0 /\ tokens = 0 /\ acked = {} /\ approvals = 0

(* A request begins. Without Overlap it waits until none is in flight.     *)
Admit(c) ==
    /\ pc[c] = "idle"
    /\ Overlap \/ \A d \in Clients : pc[d] = "idle"

(* The request is answered and gone.                                       *)
Done(c) ==
    /\ pc' = [pc EXCEPT ![c] = "idle"]
    /\ sess' = [sess EXCEPT ![c] = NoSession]
    /\ then' = [then EXCEPT ![c] = "none"]
    /\ file_ref' = [file_ref EXCEPT ![c] = NoRef]
    /\ fd' = [fd EXCEPT ![c] = "none"]

(* The request goes on to run a turn on its copy s.                        *)
GoTurn(c, s, ref) ==
    /\ pc' = [pc EXCEPT ![c] = "turn"]
    /\ sess' = [sess EXCEPT ![c] = s]
    /\ file_ref' = [file_ref EXCEPT ![c] = ref]
    /\ UNCHANGED <<then, fd>>

(* The request goes on to save its copy s, and then to do t.               *)
GoSave(c, s, t, ref) ==
    /\ pc' = [pc EXCEPT ![c] = "save_open"]
    /\ sess' = [sess EXCEPT ![c] = s]
    /\ then' = [then EXCEPT ![c] = t]
    /\ file_ref' = [file_ref EXCEPT ![c] = ref]
    /\ UNCHANGED fd

(* The request goes on to delete the session's files, without saving.      *)
GoCleanup(c) ==
    /\ pc' = [pc EXCEPT ![c] = "cleanup"]
    /\ fd' = [fd EXCEPT ![c] = "none"]
    /\ UNCHANGED <<sess, then, file_ref>>

(* load_session finds a JSON document. Otherwise it raises                 *)
(* SESSION_NOT_FOUND or SESSION_SCHEMA_INVALID and the request ends.       *)
Loadable == json \in Session

-----------------------------------------------------------------------------
(* Requests: each action is the command up to its first save or its turn.  *)
(* session status only reads, and a request that is answered at once (not  *)
(* found, awaiting an action, no prompt) changes nothing: local state and  *)
(* disk stay as they are.                                                  *)

SessionStart(c, mode, prompt) ==
    /\ Admit(c) /\ ~started
    /\ started' = TRUE
    /\ IF prompt THEN GoTurn(c, NewSession(mode), NoRef)
                 ELSE GoSave(c, NewSession(mode), "started", NoRef)
    /\ UNCHANGED <<disk, files, ghost>>

(* Mutant: a prompt without an action counts as an approval.               *)
ContinueImplicitApproval(c, action, prompt, ref) ==
    /\ IsPaused(json)
    /\ IF action = "none" /\ prompt
       THEN GoTurn(c, [json EXCEPT !.status = "active"], ref)
       ELSE UNCHANGED local

(* session continue on a paused session: only an action moves it.          *)
ContinuePaused(c, action, prompt, ref) ==
    /\ IsPaused(json)
    /\ \/ /\ action = "close"
          /\ GoSave(c, [json EXCEPT !.status = "closed"], "closed", NoRef)
       \/ /\ action \in {"approve", "redirect"}
          /\ GoSave(c, [json EXCEPT !.status = "active"],
                    IF prompt THEN "run_turn"
                    ELSE IF action = "approve" THEN "awaiting_prompt"
                    ELSE "prompt_required", ref)
       \/ /\ action = "none"
          /\ UNCHANGED local

ContinueUnpaused(c, prompt, ref) ==
    /\ ~IsPaused(json)
    /\ IF prompt THEN GoTurn(c, json, ref) ELSE UNCHANGED local

SessionContinue(c, action, prompt, ref) ==
    /\ Admit(c) /\ started
    /\ \/ ~Loadable /\ UNCHANGED local
       \/ /\ Loadable
          /\ \/ ContinuePaused(c, action, prompt, ref)
             \/ ContinueUnpaused(c, prompt, ref)
    /\ UNCHANGED <<disk, started, files, ghost>>

(* DELETE /session/{id}: the command closes whatever status it finds, and  *)
(* the endpoint deletes the session's files whether it succeeded or not.   *)
SessionClose(c) ==
    /\ Admit(c) /\ started
    /\ \/ ~Loadable /\ GoCleanup(c)
       \/ /\ Loadable
          /\ GoSave(c, [json EXCEPT !.status = "closed"], "deleted", NoRef)
    /\ UNCHANGED <<disk, started, files, ghost>>

(* POST /upload stores a fresh file_ref whatever the session's status is.  *)
Upload(ref) ==
    /\ started /\ ref \notin files
    /\ files' = files \cup {ref}
    /\ UNCHANGED <<disk, started, local, ghost>>

-----------------------------------------------------------------------------
(* run_turn on the request's own copy.                                     *)

Resolvable(ref) == ref = NoRef \/ ref \in files

(* The gate, the dependencies or the continuity memory cannot be built:    *)
(* the exception escapes the command before run_turn, and nothing is saved.*)
TurnNotBuilt(c) ==
    /\ pc[c] = "turn"
    /\ Done(c)
    /\ UNCHANGED <<disk, started, files, ghost>>

TurnRefused(c) ==
    /\ pc[c] = "turn" /\ Refused(sess[c])
    /\ GoSave(c, AfterRefusal(sess[c]), Refusal(sess[c]), NoRef)
    /\ UNCHANGED <<disk, started, files, ghost>>

(* The file_ref has expired: FileRefExpiredError, the copy is unchanged.   *)
TurnRefExpired(c) ==
    /\ pc[c] = "turn" /\ ~Refused(sess[c])
    /\ ~Resolvable(file_ref[c])
    /\ GoSave(c, sess[c], "ref_expired", NoRef)
    /\ UNCHANGED <<disk, started, files, ghost>>

(* Mutant: the turn is counted before the engine runs.                     *)
TurnRaisesCounted(c) ==
    /\ pc[c] = "turn" /\ ~Refused(sess[c])
    /\ Resolvable(file_ref[c])
    /\ GoSave(c, [sess[c] EXCEPT !.turn_count = @ + 1], "turn_raised", NoRef)
    /\ UNCHANGED <<disk, started, files, ghost>>

(* orchestrator.run raises: no turn is recorded, the copy is saved as is.  *)
TurnRaises(c) ==
    /\ pc[c] = "turn" /\ ~Refused(sess[c])
    /\ Resolvable(file_ref[c])
    /\ GoSave(c, sess[c], "turn_raised", NoRef)
    /\ UNCHANGED <<disk, started, files, ghost>>

(* orchestrator.run returns: the turn is recorded in the copy.             *)
TurnRuns(c, used) ==
    /\ pc[c] = "turn" /\ ~Refused(sess[c])
    /\ Resolvable(file_ref[c])
    /\ runs < RunBound
    /\ runs' = runs + 1
    /\ tokens' = tokens + used
    /\ GoSave(c, RecordTurn(sess[c], runs + 1),
              IF TurnGate(sess[c]) = NoPause THEN "turn_ok" ELSE "turn_paused",
              NoRef)
    /\ UNCHANGED <<disk, started, files, acked, approvals>>

-----------------------------------------------------------------------------
(* save_session: write_text opens (and truncates) the temporary file and   *)
(* writes it, replace renames it over the session file. The open file      *)
(* follows its inode: a rename by another request moves it to the session  *)
(* file, and a second one unlinks it.                                      *)

(* What a file holds after s is written from its start over the content    *)
(* old: a shorter document leaves a tail of the longer one behind it.      *)
Overwrite(old, s) ==
    CASE old = Empty -> {s}
      [] old = Garbled -> {s, Garbled}
      [] old \in Session /\ Len(s.turns) > Len(old.turns) -> {s}
      [] old \in Session /\ Len(s.turns) < Len(old.turns) -> {Garbled}
      [] OTHER -> {s, Garbled}

(* Mutant: the session file itself is opened for writing.                  *)
SaveOpenInPlace(c) ==
    /\ pc[c] = "save_open"
    /\ json' = Empty
    /\ fd' = [fd EXCEPT ![c] = "json"]
    /\ pc' = [pc EXCEPT ![c] = "save_write"]
    /\ UNCHANGED <<tmp, started, files, sess, then, file_ref, ghost>>

SaveOpen(c) ==
    /\ pc[c] = "save_open"
    /\ tmp' = Empty
    /\ fd' = [fd EXCEPT ![c] = "tmp"]
    /\ pc' = [pc EXCEPT ![c] = "save_write"]
    /\ UNCHANGED <<json, started, files, sess, then, file_ref, ghost>>

SaveWrite(c) ==
    /\ pc[c] = "save_write"
    /\ \/ fd[c] = "tmp" /\ tmp' \in Overwrite(tmp, sess[c]) /\ json' = json
       \/ fd[c] = "json" /\ json' \in Overwrite(json, sess[c]) /\ tmp' = tmp
       \/ fd[c] = "gone" /\ UNCHANGED disk
    /\ fd' = [fd EXCEPT ![c] = "none"]
    /\ pc' = [pc EXCEPT ![c] = "save_replace"]
    /\ UNCHANGED <<started, files, sess, then, file_ref, ghost>>

(* Where the open files are after a rename of the temporary file.          *)
AfterRename ==
    [d \in Clients |-> IF fd[d] = "tmp" THEN "json"
                       ELSE IF fd[d] = "json" THEN "gone"
                       ELSE fd[d]]

(* What the command does when save_session returns: run the turn that was  *)
(* approved, delete a closed session's files, or answer.                   *)
AfterSave(c) ==
    \/ /\ then[c] = "run_turn"
       /\ pc' = [pc EXCEPT ![c] = "turn"]
       /\ UNCHANGED <<sess, then, file_ref>>
    \/ /\ then[c] \in Closing
       /\ pc' = [pc EXCEPT ![c] = "cleanup"]
       /\ UNCHANGED <<sess, then, file_ref>>
    \/ /\ then[c] \notin {"run_turn"} \cup Closing
       /\ pc' = [pc EXCEPT ![c] = "idle"]
       /\ sess' = [sess EXCEPT ![c] = NoSession]
       /\ then' = [then EXCEPT ![c] = "none"]
       /\ file_ref' = [file_ref EXCEPT ![c] = NoRef]

SaveReplace(c) ==
    /\ pc[c] = "save_replace" /\ tmp # Absent
    /\ json' = tmp /\ tmp' = Absent
    /\ fd' = AfterRename
    /\ AfterSave(c)
    /\ acked' = IF then[c] \in TurnDone
                THEN acked \cup {sess[c].turns[Len(sess[c].turns)].run_id}
                ELSE acked
    /\ approvals' = approvals + (IF then[c] \in Approving THEN 1 ELSE 0)
    /\ UNCHANGED <<started, files, runs, tokens>>

(* Mutant: the command swallows the error and reports the turn.            *)
SaveFailsSilently(c) ==
    /\ pc[c] \in {"save_open", "save_write", "save_replace"}
    /\ Done(c)
    /\ acked' = IF then[c] \in TurnDone
                THEN acked \cup {sess[c].turns[Len(sess[c].turns)].run_id}
                ELSE acked
    /\ UNCHANGED <<disk, started, files, runs, tokens, approvals>>

(* An OSError: the open or the write fails, or replace finds no temporary  *)
(* file because another request has renamed it. SESSION_PERSIST_FAILED     *)
(* escapes the command; DELETE still deletes the files.                    *)
SaveFails(c) ==
    /\ pc[c] \in {"save_open", "save_write", "save_replace"}
    /\ IF then[c] = "deleted"
       THEN GoCleanup(c)
       ELSE Done(c)
    /\ UNCHANGED <<disk, started, files, ghost>>

(* file_store.delete, after which the request is answered.                 *)
Cleanup(c) ==
    /\ pc[c] = "cleanup"
    /\ files' = {}
    /\ Done(c)
    /\ UNCHANGED <<disk, started, ghost>>

(* The server stops and starts again: every request in flight is lost, and *)
(* the file store with it; the disk keeps what it holds.                   *)
Restart ==
    /\ files' = {}
    /\ pc' = [c \in Clients |-> "idle"]
    /\ sess' = [c \in Clients |-> NoSession]
    /\ then' = [c \in Clients |-> "none"]
    /\ file_ref' = [c \in Clients |-> NoRef]
    /\ fd' = [c \in Clients |-> "none"]
    /\ UNCHANGED <<disk, started, ghost>>

-----------------------------------------------------------------------------
Action == {"none", "approve", "redirect", "close"}

Request(c) ==
    \/ \E mode \in SessionMode, prompt \in BOOLEAN : SessionStart(c, mode, prompt)
    \/ \E action \in Action, prompt \in BOOLEAN, ref \in Refs \cup {NoRef} :
           SessionContinue(c, action, prompt, ref)
    \/ SessionClose(c)

RunTurn(c) ==
    \/ TurnNotBuilt(c)
    \/ TurnRefused(c)
    \/ TurnRefExpired(c)
    \/ TurnRaises(c)
    \/ \E used \in TokenUsage : TurnRuns(c, used)

SaveSession(c) ==
    \/ SaveOpen(c)
    \/ SaveWrite(c)
    \/ SaveReplace(c)
    \/ SaveFails(c)

Next ==
    \/ \E c \in Clients : Request(c) \/ RunTurn(c) \/ SaveSession(c) \/ Cleanup(c)
    \/ \E ref \in Refs : Upload(ref)
    \/ Restart

Spec == Init /\ [][Next]_vars

-----------------------------------------------------------------------------
(* Properties.                                                             *)

(* Every variable has its type.                                            *)
TypeOK ==
    /\ json \in Session \cup {Absent} \cup Torn
    /\ tmp \in Session \cup {Absent} \cup Torn
    /\ started \in BOOLEAN
    /\ files \subseteq Refs
    /\ pc \in [Clients -> PC]
    /\ sess \in [Clients -> Session \cup {NoSession}]
    /\ then \in [Clients -> Then]
    /\ file_ref \in [Clients -> Refs \cup {NoRef}]
    /\ fd \in [Clients -> {"none", "tmp", "json", "gone"}]
    /\ runs \in Nat /\ tokens \in Nat /\ approvals \in Nat
    /\ acked \subseteq Nat

RunsOf(s) == {s.turns[i].run_id : i \in 1..Len(s.turns)}

(* A session record that no sequence of requests, overlapping or not, may  *)
(* contradict: its counter is the length of its history, the history is    *)
(* numbered from zero and names each of the n engine runs at most once, in *)
(* the order they ran, and the status agrees with the counter, the ceiling *)
(* and the gate.                                                           *)
Coherent(s, n) ==
    /\ s.max_turns = MaxTurns
    /\ s.turn_count = Len(s.turns)
    /\ \A i \in 1..Len(s.turns) :
           /\ s.turns[i].turn_index = i - 1
           /\ s.turns[i].run_id \in 1..n
    /\ \A i, j \in 1..Len(s.turns) :
           i < j => s.turns[i].run_id < s.turns[j].run_id
    /\ s.turn_count <= s.max_turns
    /\ s.status \in {"active", "paused"} => s.turn_count < s.max_turns
    /\ s.status = "at_limit" => s.turn_count = s.max_turns
    /\ s.status = "paused" =>
           /\ s.turn_count > 0
           /\ GateCheck(s.session_mode, Thresholds, s.turn_count - 1, 0, {}) # NoPause

(* Every session on disk or in a request's memory is coherent, whatever    *)
(* overlaps and wherever the server stopped (run_turn and the commands     *)
(* around it write whole records, never parts of two).                     *)
SessionsCoherent ==
    /\ json \in Session => Coherent(json, runs)
    /\ tmp \in Session => Coherent(tmp, runs)
    /\ \A c \in Clients : sess[c] # NoSession => Coherent(sess[c], runs)

(* One request at a time, with a stop at any point of any of them: the     *)
(* session file is never half written (save_session's temporary file).     *)
FileReadable == json \in Session \cup {Absent}

(* A turn a client was told of stays in the session file: no later         *)
(* request, failed save or restart loses it.                               *)
NoTurnLost == acked # {} => json \in Session /\ acked \subseteq RunsOf(json)

(* In a steward session with a declared step_count, no more than           *)
(* step_count turns are recorded per approval the user gave: a crash, an   *)
(* error or a retry never slips a turn past the gate.                      *)
TurnsNeedApproval ==
    (json \in Session /\ json.session_mode = "steward"
       /\ Declared(Thresholds.step_count))
    => json.turn_count <= Thresholds.step_count * (approvals + 1)

(* A closed session stays closed and its history final, whoever saves it   *)
(* next ("Closed sessions cannot run further turns", session close).       *)
ClosedIsFinal ==
    [][Loadable /\ json.status = "closed" /\ json' \in Session
         => json' = json]_json

(* A paused session is moved by approve, redirect or close and by nothing  *)
(* else: every change of a paused file is the save of such an action.      *)
PauseHolds ==
    [][Loadable /\ json.status = "paused" /\ json' \in Session
         => json' \in {[json EXCEPT !.status = "active"],
                       [json EXCEPT !.status = "closed"]}]_json

(* A request whose turn was refused, raised or lost its file_ref saves the *)
(* session exactly as it found it; only the first turn, which has found    *)
(* nothing, creates the file.                                              *)
FailedTurnChangesNothing ==
    [][\A c \in Clients :
         then[c] \in TurnError /\ json' # json => json = Absent]_<<json, then>>

(* The lifecycle, read off the session file.                               *)
Lifecycle ==
    INSTANCE SessionLifecycle WITH
        RunIds  <- 1..RunBound,
        status  <- IF Loadable THEN json.status ELSE "absent",
        mode    <- IF Loadable THEN json.session_mode ELSE "none",
        history <- IF Loadable
                   THEN [i \in 1..Len(json.turns) |-> json.turns[i].run_id]
                   ELSE <<>>

(* The session file goes through the session's lifecycle and nothing else. *)
FileImplementsLifecycle == Lifecycle!Spec

(* A steward turn that takes the session's tokens over the declared budget *)
(* ends in a pause.                                                        *)
BudgetPauses ==
    [][\A c \in Clients :
         (/\ runs' # runs /\ sess'[c] # sess[c]
          /\ sess[c].session_mode = "steward"
          /\ TokenBudgetFires(Thresholds, tokens'))
         => then'[c] = "turn_paused"]_<<runs, tokens, sess, then>>
=============================================================================
