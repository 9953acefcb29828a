------------------------ MODULE DialogueSession_proofs ------------------------
(***************************************************************************)
(* Theorems about DialogueSession, for every number of requests, turn      *)
(* ceiling, threshold and bound, whether requests overlap or not.          *)
(***************************************************************************)
EXTENDS DialogueSession, SequenceTheorems, TLAPS

(* The places where a request works on a session it holds.                 *)
Busy == {"turn", "save_open", "save_write", "save_replace"}

(* A file holds a coherent session or no session at all.                   *)
FileOK(f) ==
    /\ f \in Session \cup {Absent} \cup Torn
    /\ f \in Session => Coherent(f, runs)

(* A request that works on a session holds a coherent one, and one that    *)
(* will report a turn holds that turn.                                     *)
ClientOK(c) ==
    /\ sess[c] # NoSession => Coherent(sess[c], runs)
    /\ pc[c] \in Busy => sess[c] \in Session
    /\ then[c] \in TurnDone =>
           pc[c] \in Busy /\ sess[c] \in Session /\ sess[c].turns # <<>>

LocalOK ==
    /\ pc \in [Clients -> PC]
    /\ sess \in [Clients -> Session \cup {NoSession}]
    /\ then \in [Clients -> Then]
    /\ file_ref \in [Clients -> Refs \cup {NoRef}]
    /\ fd \in [Clients -> {"none", "tmp", "json", "gone"}]
    /\ \A c \in Clients : ClientOK(c)

DiskOK == FileOK(json) /\ FileOK(tmp)

RestOK ==
    /\ started \in BOOLEAN
    /\ files \subseteq Refs
    /\ runs \in Nat /\ tokens \in Nat /\ approvals \in Nat
    /\ acked \subseteq Nat

(* The inductive invariant behind the first two theorems.                  *)
Inv == LocalOK /\ DiskOK /\ RestOK

-----------------------------------------------------------------------------
(* The operators on session records.                                       *)

(* session start builds a coherent session.                                *)
LEMMA NewSessionOK ==
    ASSUME NEW mode \in SessionMode, NEW n \in Nat
    PROVE  NewSession(mode) \in Session /\ Coherent(NewSession(mode), n)
  BY MaxTurnsAssumption DEF NewSession, Session, Coherent, Status, TurnRecord

(* Closing a session, or resuming a paused one, keeps it coherent.         *)
LEMMA StatusChangeOK ==
    ASSUME NEW s \in Session, NEW n \in Nat, Coherent(s, n),
           NEW st \in {"active", "closed"},
           st = "active" => IsPaused(s)
    PROVE  /\ [s EXCEPT !.status = st] \in Session
           /\ Coherent([s EXCEPT !.status = st], n)
  BY DEF Session, Coherent, Status, IsPaused

(* The SESSION_AT_LIMIT branch of run_turn is never reached: a refused     *)
(* session is one that is not active, and it is left as it was.            *)
LEMMA RefusalOK ==
    ASSUME NEW s \in Session, NEW n \in Nat, Coherent(s, n), Refused(s)
    PROVE  AfterRefusal(s) = s /\ Refusal(s) = "not_active"
  BY DEF Session, Coherent, Refused, AfterRefusal, Refusal, IsActive, IsAtLimit

(* A session stays coherent when there are more engine runs to name.       *)
LEMMA MoreRunsOK ==
    ASSUME NEW s \in Session, NEW n \in Nat, Coherent(s, n)
    PROVE  Coherent(s, n + 1)
  BY DEF Coherent, Session, TurnRecord

(* What appending one element does to a sequence.                          *)
LEMMA AppendOK ==
    ASSUME NEW S, NEW q \in Seq(S), NEW e \in S
    PROVE  /\ Append(q, e) \in Seq(S)
           /\ Len(Append(q, e)) = Len(q) + 1
           /\ Append(q, e)[Len(q) + 1] = e
           /\ \A i \in 1..Len(q) : Append(q, e)[i] = q[i]
  OBVIOUS

(* Recording a turn with the next run_id keeps a session coherent.         *)
LEMMA RecordTurnOK ==
    ASSUME NEW s \in Session, NEW n \in Nat, Coherent(s, n), ~Refused(s)
    PROVE  /\ RecordTurn(s, n + 1) \in Session
           /\ RecordTurn(s, n + 1).turns # <<>>
           /\ Coherent(RecordTurn(s, n + 1), n + 1)
  <1> DEFINE r == RecordTurn(s, n + 1)
             t == [turn_index |-> s.turn_count, run_id |-> n + 1]
  <1>1. /\ s.turns \in Seq(TurnRecord)
        /\ s.turn_count \in Nat /\ s.max_turns \in Nat
        /\ s.max_turns = MaxTurns
        /\ s.turn_count = Len(s.turns)
        /\ s.turn_count < s.max_turns
        /\ s.status = "active"
        /\ s.session_mode \in SessionMode
    BY DEF Session, Coherent, Refused, IsActive, IsAtLimit
  <1>2. /\ r \in Session
        /\ r.turns = Append(s.turns, t)
        /\ r.turn_count = s.turn_count + 1
        /\ r.max_turns = s.max_turns
        /\ r.session_mode = s.session_mode
        /\ r.status = StatusAfterTurn(s)
    <2>1. t \in TurnRecord
      BY <1>1 DEF TurnRecord
    <2>2. Append(s.turns, t) \in Seq(TurnRecord)
      BY <1>1, <2>1, AppendOK
    <2>3. StatusAfterTurn(s) \in Status
      BY DEF StatusAfterTurn, Status
    <2>4. s.turn_count + 1 \in Nat
      BY <1>1
    <2> HIDE DEF t
    <2>5. r = [session_mode |-> s.session_mode, turn_count |-> s.turn_count + 1,
               max_turns |-> s.max_turns, status |-> StatusAfterTurn(s),
               turns |-> Append(s.turns, t)]
      BY DEF RecordTurn, t
    <2> HIDE DEF r
    <2> QED
      BY <1>1, <2>2, <2>3, <2>4, <2>5 DEF Session
  <1>3. /\ t.turn_index = s.turn_count /\ t.run_id = n + 1
        /\ t \in TurnRecord
    BY <1>1 DEF TurnRecord
  <1> HIDE DEF t
  <1> HIDE DEF r
  <1>4. /\ Len(r.turns) = Len(s.turns) + 1
        /\ r.turns[Len(s.turns) + 1] = t
        /\ \A i \in 1..Len(s.turns) : r.turns[i] = s.turns[i]
    BY <1>1, <1>2, <1>3, AppendOK
  <1>5. \A i \in 1..Len(r.turns) :
           r.turns[i].turn_index = i - 1 /\ r.turns[i].run_id \in 1..(n + 1)
    <2> TAKE i \in 1..Len(r.turns)
    <2>1. CASE i \in 1..Len(s.turns)
      <3>1. s.turns[i].turn_index = i - 1 /\ s.turns[i].run_id \in 1..n
        BY <2>1 DEF Coherent
      <3> QED
        BY <1>4, <2>1, <3>1
    <2>2. CASE i = Len(s.turns) + 1
      BY <1>1, <1>3, <1>4, <2>2
    <2> QED
      BY <1>1, <1>4, <2>1, <2>2
  <1>6. \A i, j \in 1..Len(r.turns) :
           i < j => r.turns[i].run_id < r.turns[j].run_id
    <2> SUFFICES ASSUME NEW i \in 1..Len(r.turns), NEW j \in 1..Len(r.turns), i < j
                 PROVE  r.turns[i].run_id < r.turns[j].run_id
      OBVIOUS
    <2>1. i \in 1..Len(s.turns)
      BY <1>1, <1>4
    <2>2. r.turns[i].run_id = s.turns[i].run_id /\ s.turns[i].run_id \in 1..n
      BY <1>4, <2>1 DEF Coherent
    <2>3. CASE j \in 1..Len(s.turns)
      BY <1>4, <2>1, <2>3 DEF Coherent
    <2>4. CASE j = Len(s.turns) + 1
      BY <1>3, <1>4, <2>2, <2>4
    <2> QED
      BY <1>1, <1>4, <2>3, <2>4
  <1>7. r.status = "paused" =>
           GateCheck(r.session_mode, Thresholds, r.turn_count - 1, 0, {}) # NoPause
    <2>1. r.turn_count - 1 = s.turn_count
      BY <1>1, <1>2
    <2> QED
      BY <1>2, <2>1 DEF TurnGate, StatusAfterTurn
  <1>8. /\ r.turn_count <= r.max_turns
        /\ r.status \in {"active", "paused"} => r.turn_count < r.max_turns
        /\ r.status = "at_limit" => r.turn_count = r.max_turns
        /\ r.turn_count > 0
        /\ r.turn_count = Len(r.turns)
        /\ r.max_turns = MaxTurns
    BY <1>1, <1>2, <1>4 DEF StatusAfterTurn
  <1>9. Coherent(r, n + 1)
    BY <1>5, <1>6, <1>7, <1>8 DEF Coherent
  <1>10. r.turns # <<>>
    BY <1>1, <1>4
  <1> QED
    BY <1>2, <1>9, <1>10 DEF r

(* A write leaves the session written or no session at all.                *)
LEMMA OverwriteOK ==
    ASSUME NEW old, NEW s \in Session, NEW f \in Overwrite(old, s)
    PROVE  f = s \/ f = Garbled
  BY DEF Overwrite

-----------------------------------------------------------------------------
(* How the pieces of an action keep the invariant.                         *)

(* Engine runs that are counted or not leave the disk coherent.            *)
LEMMA DiskKept ==
    ASSUME Inv, UNCHANGED disk, runs' \in {runs, runs + 1}
    PROVE  DiskOK'
  BY MoreRunsOK DEF Inv, DiskOK, FileOK, RestOK, disk

(* A request that an action leaves alone stays as good as it was.          *)
LEMMA ClientKept ==
    ASSUME Inv, NEW d \in Clients, runs' \in {runs, runs + 1},
           pc'[d] = pc[d], sess'[d] = sess[d], then'[d] = then[d]
    PROVE  ClientOK(d)'
  <1>1. sess[d] # NoSession => sess[d] \in Session
    BY DEF Inv, LocalOK
  <1> QED
    BY <1>1, MoreRunsOK DEF Inv, LocalOK, RestOK, ClientOK

(* The request is answered and gone.                                       *)
LEMMA DoneKeeps ==
    ASSUME Inv, NEW c \in Clients, Done(c), runs' = runs
    PROVE  LocalOK'
  <1>1. \A d \in Clients : ClientOK(d)'
    <2> TAKE d \in Clients
    <2>1. CASE d = c
      BY <2>1 DEF Inv, LocalOK, Done, ClientOK, Busy, TurnDone
    <2>2. CASE d # c
      BY <2>2, ClientKept DEF Inv, LocalOK, Done
    <2> QED
      BY <2>1, <2>2
  <1> QED
    BY <1>1 DEF Inv, LocalOK, Done, PC, Then

(* The request goes on to a turn with a coherent session.                  *)
LEMMA GoTurnKeeps ==
    ASSUME Inv, NEW c \in Clients, runs' = runs, then[c] \notin TurnDone,
           NEW s \in Session, Coherent(s, runs),
           NEW ref \in Refs \cup {NoRef}, GoTurn(c, s, ref)
    PROVE  LocalOK'
  <1>1. \A d \in Clients : ClientOK(d)'
    <2> TAKE d \in Clients
    <2>1. CASE d = c
      BY <2>1 DEF Inv, LocalOK, GoTurn, ClientOK
    <2>2. CASE d # c
      BY <2>2, ClientKept DEF Inv, LocalOK, GoTurn
    <2> QED
      BY <2>1, <2>2
  <1> QED
    BY <1>1 DEF Inv, LocalOK, GoTurn, PC

(* The request goes on to save a coherent session.                         *)
LEMMA GoSaveKeeps ==
    ASSUME Inv, NEW c \in Clients, runs' \in {runs, runs + 1},
           NEW s \in Session, Coherent(s, runs'),
           NEW t \in Then, t \in TurnDone => s.turns # <<>>,
           NEW ref \in Refs \cup {NoRef}, GoSave(c, s, t, ref)
    PROVE  LocalOK'
  <1>1. \A d \in Clients : ClientOK(d)'
    <2> TAKE d \in Clients
    <2>1. CASE d = c
      BY <2>1 DEF Inv, LocalOK, GoSave, ClientOK, Busy
    <2>2. CASE d # c
      BY <2>2, ClientKept DEF Inv, LocalOK, GoSave
    <2> QED
      BY <2>1, <2>2
  <1> QED
    BY <1>1 DEF Inv, LocalOK, GoSave, PC

(* The request goes on to delete the session's files.                      *)
LEMMA GoCleanupKeeps ==
    ASSUME Inv, NEW c \in Clients, GoCleanup(c), runs' = runs,
           then[c] \notin TurnDone
    PROVE  LocalOK'
  <1>1. \A d \in Clients : ClientOK(d)'
    <2> TAKE d \in Clients
    <2>1. CASE d = c
      BY <2>1 DEF Inv, LocalOK, GoCleanup, ClientOK, Busy
    <2>2. CASE d # c
      BY <2>2, ClientKept DEF Inv, LocalOK, GoCleanup
    <2> QED
      BY <2>1, <2>2
  <1> QED
    BY <1>1 DEF Inv, LocalOK, GoCleanup, PC

(* The request changes nothing of its own.                                 *)
LEMMA LocalKept ==
    ASSUME Inv, UNCHANGED local, runs' = runs
    PROVE  LocalOK'
  BY DEF Inv, LocalOK, local, ClientOK

-----------------------------------------------------------------------------
(* Every action keeps the invariant.                                       *)

LEMMA StartInv ==
    ASSUME Inv, NEW c \in Clients, NEW mode \in SessionMode, NEW prompt \in BOOLEAN,
           SessionStart(c, mode, prompt)
    PROVE  Inv'
  <1>1. NewSession(mode) \in Session /\ Coherent(NewSession(mode), runs)
    BY NewSessionOK DEF Inv, RestOK
  <1>2. then[c] \notin TurnDone
    BY DEF Inv, LocalOK, ClientOK, SessionStart, Admit, Busy
  <1>3. runs' = runs
    BY DEF SessionStart, ghost
  <1>4. LocalOK'
    <2>1. CASE prompt
      BY <1>1, <1>2, <1>3, <2>1, GoTurnKeeps DEF SessionStart
    <2>2. CASE ~prompt
      <3>1. GoSave(c, NewSession(mode), "started", NoRef)
        BY <2>2 DEF SessionStart
      <3>2. "started" \in Then /\ "started" \notin TurnDone
        BY DEF Then, TurnDone
      <3> QED
        BY <1>1, <1>3, <3>1, <3>2, GoSaveKeeps
    <2> QED
      BY <2>1, <2>2
  <1>5. DiskOK'
    BY <1>3, DiskKept DEF SessionStart
  <1>6. RestOK'
    BY DEF Inv, RestOK, SessionStart, ghost
  <1> QED
    BY <1>4, <1>5, <1>6 DEF Inv

LEMMA ContinueInv ==
    ASSUME Inv, NEW c \in Clients, NEW action \in Action, NEW prompt \in BOOLEAN,
           NEW ref \in Refs \cup {NoRef}, SessionContinue(c, action, prompt, ref)
    PROVE  Inv'
  <1>1. then[c] \notin TurnDone
    BY DEF Inv, LocalOK, ClientOK, SessionContinue, Admit, Busy
  <1>2. runs' = runs /\ UNCHANGED disk
    BY DEF SessionContinue, ghost
  <1>3. LocalOK'
    <2>1. CASE UNCHANGED local
      BY <1>2, <2>1, LocalKept
    <2>2. CASE Loadable /\ ContinuePaused(c, action, prompt, ref)
      <3>1. json \in Session /\ Coherent(json, runs) /\ IsPaused(json) /\ runs \in Nat
        BY <2>2 DEF Loadable, ContinuePaused, Inv, DiskOK, FileOK, RestOK
      <3>2. CASE GoSave(c, [json EXCEPT !.status = "closed"], "closed", NoRef)
        <4>1. /\ [json EXCEPT !.status = "closed"] \in Session
              /\ Coherent([json EXCEPT !.status = "closed"], runs)
          BY <3>1, StatusChangeOK
        <4>2. "closed" \in Then /\ "closed" \notin TurnDone
          BY DEF Then, TurnDone, Closing
        <4> QED
          BY <1>2, <3>2, <4>1, <4>2, GoSaveKeeps
      <3>3. ASSUME NEW t \in Approving,
                   GoSave(c, [json EXCEPT !.status = "active"], t, ref)
            PROVE  LocalOK'
        <4>1. /\ [json EXCEPT !.status = "active"] \in Session
              /\ Coherent([json EXCEPT !.status = "active"], runs)
          BY <3>1, StatusChangeOK
        <4>2. t \in Then /\ t \notin TurnDone
          BY DEF Then, TurnDone, Approving
        <4> QED
          BY <1>2, <3>3, <4>1, <4>2, GoSaveKeeps
      <3> QED
        BY <2>1, <2>2, <3>2, <3>3 DEF ContinuePaused, Approving
    <2>3. CASE Loadable /\ ContinueUnpaused(c, prompt, ref)
      <3>1. json \in Session /\ Coherent(json, runs)
        BY <2>3 DEF Loadable, Inv, DiskOK, FileOK
      <3> QED
        BY <1>1, <1>2, <2>1, <2>3, <3>1, GoTurnKeeps DEF ContinueUnpaused
    <2> QED
      BY <2>1, <2>2, <2>3 DEF SessionContinue
  <1>4. DiskOK'
    BY <1>2, DiskKept
  <1>5. RestOK'
    BY DEF Inv, RestOK, SessionContinue, ghost
  <1> QED
    BY <1>3, <1>4, <1>5 DEF Inv

LEMMA CloseInv ==
    ASSUME Inv, NEW c \in Clients, SessionClose(c)
    PROVE  Inv'
  <1>1. then[c] \notin TurnDone
    BY DEF Inv, LocalOK, ClientOK, SessionClose, Admit, Busy
  <1>2. runs' = runs /\ UNCHANGED disk
    BY DEF SessionClose, ghost
  <1>3. LocalOK'
    <2>1. CASE GoCleanup(c)
      BY <1>1, <1>2, <2>1, GoCleanupKeeps
    <2>2. CASE Loadable /\ GoSave(c, [json EXCEPT !.status = "closed"], "deleted", NoRef)
      <3>1. json \in Session /\ Coherent(json, runs) /\ runs \in Nat
        BY <2>2 DEF Loadable, Inv, DiskOK, FileOK, RestOK
      <3>2. /\ [json EXCEPT !.status = "closed"] \in Session
            /\ Coherent([json EXCEPT !.status = "closed"], runs)
        BY <3>1, StatusChangeOK
      <3>3. "deleted" \in Then /\ "deleted" \notin TurnDone
        BY DEF Then, TurnDone, Closing
      <3> QED
        BY <1>2, <2>2, <3>2, <3>3, GoSaveKeeps
    <2> QED
      BY <2>1, <2>2 DEF SessionClose
  <1>4. DiskOK'
    BY <1>2, DiskKept
  <1>5. RestOK'
    BY DEF Inv, RestOK, SessionClose, ghost
  <1> QED
    BY <1>3, <1>4, <1>5 DEF Inv

LEMMA TurnInv ==
    ASSUME Inv, NEW c \in Clients, RunTurn(c)
    PROVE  Inv'
  <1>1. /\ pc[c] = "turn" /\ UNCHANGED disk
        /\ sess[c] \in Session /\ Coherent(sess[c], runs)
        /\ runs \in Nat
    BY NoSessionAssumption DEF RunTurn, TurnNotBuilt, TurnRefused, TurnRefExpired,
         TurnRaises, TurnRuns, Inv, LocalOK, ClientOK, Busy, RestOK
  <1>2. CASE TurnRefused(c)
    <2>1. runs' = runs /\ GoSave(c, sess[c], "not_active", NoRef)
      BY <1>1, <1>2, RefusalOK DEF TurnRefused, ghost
    <2>2. "not_active" \in Then /\ "not_active" \notin TurnDone
      BY DEF Then, TurnDone, TurnError
    <2>3. LocalOK'
      BY <1>1, <2>1, <2>2, GoSaveKeeps
    <2> QED
      BY <1>1, <1>2, <2>1, <2>3, DiskKept DEF Inv, RestOK, TurnRefused, ghost
  <1>3. CASE TurnRefExpired(c)
    <2>1. runs' = runs /\ GoSave(c, sess[c], "ref_expired", NoRef)
      BY <1>3 DEF TurnRefExpired, ghost
    <2>2. "ref_expired" \in Then /\ "ref_expired" \notin TurnDone
      BY DEF Then, TurnDone, TurnError
    <2>3. LocalOK'
      BY <1>1, <2>1, <2>2, GoSaveKeeps
    <2> QED
      BY <1>1, <1>3, <2>1, <2>3, DiskKept DEF Inv, RestOK, TurnRefExpired, ghost
  <1>4. CASE TurnRaises(c)
    <2>1. runs' = runs /\ GoSave(c, sess[c], "turn_raised", NoRef)
      BY <1>4 DEF TurnRaises, ghost
    <2>2. "turn_raised" \in Then /\ "turn_raised" \notin TurnDone
      BY DEF Then, TurnDone, TurnError
    <2>3. LocalOK'
      BY <1>1, <2>1, <2>2, GoSaveKeeps
    <2> QED
      BY <1>1, <1>4, <2>1, <2>3, DiskKept DEF Inv, RestOK, TurnRaises, ghost
  <1>5. ASSUME NEW used \in TokenUsage, TurnRuns(c, used)
        PROVE  Inv'
    <2> DEFINE r == RecordTurn(sess[c], runs + 1)
    <2>1. r \in Session /\ r.turns # <<>> /\ Coherent(r, runs + 1)
      BY <1>1, <1>5, RecordTurnOK DEF TurnRuns
    <2> HIDE DEF r
    <2>2. PICK t \in TurnDone : GoSave(c, r, t, NoRef)
      BY <1>5 DEF TurnRuns, TurnDone, r
    <2>3. t \in Then
      BY DEF Then
    <2>4. runs' = runs + 1
      BY <1>5 DEF TurnRuns
    <2>5. LocalOK'
      BY <2>1, <2>2, <2>3, <2>4, GoSaveKeeps
    <2>6. RestOK'
      BY <1>5, RunsAssumption DEF Inv, RestOK, TurnRuns
    <2> QED
      BY <1>1, <2>4, <2>5, <2>6, DiskKept DEF Inv
  <1>6. CASE TurnNotBuilt(c)
    <2>1. runs' = runs
      BY <1>6 DEF TurnNotBuilt, ghost
    <2>2. LocalOK'
      BY <1>6, <2>1, DoneKeeps DEF TurnNotBuilt
    <2> QED
      BY <1>1, <1>6, <2>1, <2>2, DiskKept DEF Inv, RestOK, TurnNotBuilt, ghost
  <1> QED
    BY <1>2, <1>3, <1>4, <1>5, <1>6 DEF RunTurn

LEMMA SaveOpenInv ==
    ASSUME Inv, NEW c \in Clients, SaveOpen(c)
    PROVE  Inv'
  <1>1. LocalOK'
    BY DEF Inv, LocalOK, SaveOpen, ClientOK, ghost, PC, Busy
  <1>2. DiskOK'
    BY FileAssumption DEF Inv, DiskOK, FileOK, SaveOpen, ghost, Torn
  <1> QED
    BY <1>1, <1>2 DEF Inv, RestOK, SaveOpen, ghost

LEMMA SaveWriteInv ==
    ASSUME Inv, NEW c \in Clients, SaveWrite(c)
    PROVE  Inv'
  <1>1. LocalOK'
    BY DEF Inv, LocalOK, SaveWrite, ClientOK, ghost, PC, Busy
  <1>2. sess[c] \in Session /\ Coherent(sess[c], runs)
    BY NoSessionAssumption DEF Inv, LocalOK, ClientOK, Busy, SaveWrite
  <1>3. ASSUME NEW old, NEW f \in Overwrite(old, sess[c])
        PROVE  FileOK(f)
    BY <1>2, OverwriteOK, FileAssumption DEF FileOK, Torn
  <1>4. runs' = runs
    BY DEF SaveWrite, ghost
  <1>5. FileOK(json') /\ FileOK(tmp')
    BY <1>3 DEF Inv, DiskOK, SaveWrite, disk
  <1>6. DiskOK'
    BY <1>4, <1>5 DEF DiskOK, FileOK
  <1> QED
    BY <1>1, <1>6 DEF Inv, RestOK, SaveWrite, ghost

LEMMA SaveReplaceInv ==
    ASSUME Inv, NEW c \in Clients, SaveReplace(c)
    PROVE  Inv'
  <1>1. /\ sess[c] \in Session /\ Coherent(sess[c], runs)
        /\ then[c] \in TurnDone => sess[c].turns # <<>>
    BY NoSessionAssumption DEF Inv, LocalOK, ClientOK, Busy, SaveReplace
  <1>2. runs' = runs /\ runs \in Nat
    BY DEF SaveReplace, Inv, RestOK
  <1>3. LocalOK'
    <2>1. fd' \in [Clients -> {"none", "tmp", "json", "gone"}]
      BY DEF SaveReplace, AfterRename, Inv, LocalOK
    <2>2. /\ pc' \in [Clients -> PC]
          /\ sess' \in [Clients -> Session \cup {NoSession}]
          /\ then' \in [Clients -> Then]
          /\ file_ref' \in [Clients -> Refs \cup {NoRef}]
      BY DEF SaveReplace, AfterSave, Inv, LocalOK, PC, Then
    <2>3. \A d \in Clients : ClientOK(d)'
      <3> TAKE d \in Clients
      <3>1. CASE d # c
        BY <1>2, <3>1, ClientKept DEF Inv, LocalOK, SaveReplace, AfterSave
      <3>2. CASE d = c /\ then[c] = "run_turn"
        BY <1>1, <1>2, <3>2
           DEF Inv, LocalOK, SaveReplace, AfterSave, ClientOK, Busy, TurnDone
      <3>3. CASE d = c /\ then[c] \in Closing
        BY <1>1, <1>2, <3>3
           DEF Inv, LocalOK, SaveReplace, AfterSave, ClientOK, Busy, TurnDone, Closing
      <3>4. CASE d = c /\ then[c] # "run_turn" /\ then[c] \notin Closing
        BY <1>1, <1>2, <3>4
           DEF Inv, LocalOK, SaveReplace, AfterSave, ClientOK, Busy, TurnDone
      <3> QED
        BY <3>1, <3>2, <3>3, <3>4
    <2> QED
      BY <2>1, <2>2, <2>3 DEF LocalOK
  <1>4. DiskOK'
    BY <1>2, FileAssumption DEF Inv, DiskOK, FileOK, SaveReplace
  <1>5. RestOK'
    <2>1. then[c] \in TurnDone => sess[c].turns[Len(sess[c].turns)].run_id \in Nat
      <3> SUFFICES ASSUME then[c] \in TurnDone
                   PROVE  sess[c].turns[Len(sess[c].turns)].run_id \in Nat
        OBVIOUS
      <3>1. sess[c].turns \in Seq(TurnRecord) /\ sess[c].turns # <<>>
        BY <1>1 DEF Session
      <3>2. Len(sess[c].turns) \in 1..Len(sess[c].turns)
        BY <3>1
      <3>3. sess[c].turns[Len(sess[c].turns)] \in TurnRecord
        BY <3>1, <3>2
      <3> QED
        BY <3>3 DEF TurnRecord
    <2>2. acked' \subseteq Nat
      BY <2>1 DEF Inv, RestOK, SaveReplace
    <2>3. approvals' \in Nat
      BY DEF Inv, RestOK, SaveReplace
    <2> QED
      BY <2>2, <2>3 DEF Inv, RestOK, SaveReplace
  <1> QED
    BY <1>3, <1>4, <1>5 DEF Inv

LEMMA SaveFailsInv ==
    ASSUME Inv, NEW c \in Clients, SaveFails(c)
    PROVE  Inv'
  <1>1. runs' = runs /\ UNCHANGED disk
    BY DEF SaveFails, ghost
  <1>2. LocalOK'
    <2>1. CASE then[c] = "deleted" /\ GoCleanup(c)
      BY <1>1, <2>1, GoCleanupKeeps DEF TurnDone
    <2>2. CASE Done(c)
      BY <1>1, <2>2, DoneKeeps
    <2> QED
      BY <2>1, <2>2 DEF SaveFails
  <1>3. DiskOK'
    BY <1>1, DiskKept
  <1> QED
    BY <1>2, <1>3 DEF Inv, RestOK, SaveFails, ghost

LEMMA CleanupInv ==
    ASSUME Inv, NEW c \in Clients, Cleanup(c)
    PROVE  Inv'
  <1>1. runs' = runs /\ UNCHANGED disk
    BY DEF Cleanup, ghost
  <1>2. LocalOK' /\ DiskOK'
    BY <1>1, DoneKeeps, DiskKept DEF Cleanup
  <1> QED
    BY <1>2 DEF Inv, RestOK, Cleanup, ghost

LEMMA UploadInv ==
    ASSUME Inv, NEW ref \in Refs, Upload(ref)
    PROVE  Inv'
  <1>1. runs' = runs /\ UNCHANGED disk /\ UNCHANGED local
    BY DEF Upload, ghost
  <1>2. LocalOK' /\ DiskOK'
    BY <1>1, LocalKept, DiskKept
  <1> QED
    BY <1>2 DEF Inv, RestOK, Upload, ghost

LEMMA RestartInv ==
    ASSUME Inv, Restart
    PROVE  Inv'
  <1>1. runs' = runs /\ UNCHANGED disk
    BY DEF Restart, ghost
  <1>2. LocalOK'
    BY DEF Restart, LocalOK, ClientOK, PC, Then, TurnDone, Busy
  <1>3. DiskOK'
    BY <1>1, DiskKept
  <1> QED
    BY <1>2, <1>3 DEF Inv, RestOK, Restart, ghost

-----------------------------------------------------------------------------
(* The theorems.                                                           *)

LEMMA InitInv == Init => Inv
  <1> SUFFICES ASSUME Init PROVE Inv
    OBVIOUS
  <1>1. LocalOK
    BY DEF Init, LocalOK, ClientOK, PC, Then, TurnDone, Busy
  <1>2. DiskOK
    BY FileAssumption DEF Init, DiskOK, FileOK
  <1>3. RestOK
    BY DEF Init, RestOK
  <1> QED
    BY <1>1, <1>2, <1>3 DEF Inv

LEMMA NextInv == Inv /\ [Next]_vars => Inv'
  <1> SUFFICES ASSUME Inv, [Next]_vars PROVE Inv'
    OBVIOUS
  <1>1. ASSUME NEW c \in Clients, Request(c) PROVE Inv'
    BY <1>1, StartInv, ContinueInv, CloseInv DEF Request
  <1>2. ASSUME NEW c \in Clients, RunTurn(c) PROVE Inv'
    BY <1>2, TurnInv
  <1>3. ASSUME NEW c \in Clients, SaveSession(c) PROVE Inv'
    BY <1>3, SaveOpenInv, SaveWriteInv, SaveReplaceInv, SaveFailsInv DEF SaveSession
  <1>4. ASSUME NEW c \in Clients, Cleanup(c) PROVE Inv'
    BY <1>4, CleanupInv
  <1>5. ASSUME NEW ref \in Refs, Upload(ref) PROVE Inv'
    BY <1>5, UploadInv
  <1>6. CASE Restart
    BY <1>6, RestartInv
  <1>7. CASE UNCHANGED vars
    BY <1>7 DEF vars, Inv, LocalOK, ClientOK, DiskOK, FileOK, RestOK
  <1> QED
    BY <1>1, <1>2, <1>3, <1>4, <1>5, <1>6, <1>7 DEF Next

LEMMA Invariance == Spec => []Inv
  BY InitInv, NextInv, PTL DEF Spec

(* Every variable has its type in every reachable state.                   *)
THEOREM TypeCorrect == Spec => []TypeOK
  <1>1. Inv => TypeOK
    BY DEF Inv, LocalOK, DiskOK, FileOK, RestOK, TypeOK
  <1> QED
    BY <1>1, Invariance, PTL

(* Every session on disk or in memory is coherent: overlapping requests,   *)
(* failed saves and restarts can lose a turn, but never leave a record     *)
(* that contradicts itself, the turn ceiling or the steward gate.          *)
THEOREM SessionsStayCoherent == Spec => []SessionsCoherent
  <1>1. Inv => SessionsCoherent
    BY DEF Inv, LocalOK, ClientOK, DiskOK, FileOK, SessionsCoherent
  <1> QED
    BY <1>1, Invariance, PTL
=============================================================================
