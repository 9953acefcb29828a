-------------------------- MODULE SerialSession_proofs --------------------------
(***************************************************************************)
(* Theorems about DialogueSession when requests do not overlap, for every  *)
(* turn ceiling, threshold and bound, with failing saves and server stops  *)
(* at any point of a request.                                              *)
(***************************************************************************)
EXTENDS DialogueSession_proofs

Saving == {"save_open", "save_write", "save_replace"}

Born(s) == \E m \in SessionMode : s = NewSession(m)

(* The session a turn starts from: a new one, or what the file holds.      *)
Base(old, s) == (old = Absent /\ Born(s)) \/ s = old

(* What a save for the purpose t may make of a file that holds old, after  *)
(* n engine runs.                                                          *)
Lawful(old, s, t, n) ==
    /\ t # "none"
    /\ t = "started" => old = Absent /\ Born(s)
    /\ t \in TurnDone =>
           \E b \in Session : /\ Base(old, b) /\ ~Refused(b)
                              /\ n \in 1..RunBound /\ Coherent(b, n - 1)
                              /\ s = RecordTurn(b, n)
    /\ t \in TurnError => Base(old, s)
    /\ t \in Approving => /\ old \in Session /\ IsPaused(old)
                          /\ s = [old EXCEPT !.status = "active"]
    /\ t \in Closing => old \in Session /\ s = [old EXCEPT !.status = "closed"]

(* Where a request stands, and what it has done to the temporary file.     *)
Where(c) ==
    /\ pc[c] = "idle" => then[c] = "none"
    /\ pc[c] # "idle" => started
    /\ fd[c] # "none" => pc[c] = "save_write" /\ fd[c] = "tmp"
    /\ pc[c] = "save_write" => fd[c] = "tmp" /\ tmp = Empty
    /\ pc[c] = "save_replace" => tmp = sess[c]

(* What a request is about to do fits what the file holds now.             *)
Plan(c) ==
    /\ pc[c] = "turn" => Base(json, sess[c]) /\ ~IsPaused(sess[c])
    /\ pc[c] \in Saving => Lawful(json, sess[c], then[c], runs)

OnlyOne(c) == \A d \in Clients : d # c => pc[d] = "idle"

SerialInv ==
    /\ \A c \in Clients : pc[c] # "idle" => OnlyOne(c)
    /\ \A c \in Clients : Where(c) /\ Plan(c)
    /\ json \in Session \cup {Absent}
    /\ ~started => json = Absent
    /\ runs <= RunBound

-----------------------------------------------------------------------------
(* How an action of one request keeps the invariant.                       *)

LEMMA OneActs ==
    ASSUME SerialInv, NEW c \in Clients, OnlyOne(c),
           \A d \in Clients : d # c => /\ pc'[d] = pc[d] /\ then'[d] = then[d]
                                       /\ fd'[d] = fd[d],
           Where(c)', Plan(c)', json' \in Session \cup {Absent},
           ~started' => json' = Absent, runs' <= RunBound
    PROVE  SerialInv'
  <1>1. ASSUME NEW d \in Clients, d # c PROVE Where(d)' /\ Plan(d)'
    BY <1>1 DEF SerialInv, OnlyOne, Where, Plan, Saving
  <1>2. ASSUME NEW d \in Clients, pc'[d] # "idle" PROVE OnlyOne(d)'
    BY <1>2 DEF OnlyOne
  <1> QED
    BY <1>1, <1>2 DEF SerialInv

LEMMA Admitted ==
    ASSUME SerialInv, ~Overlap, NEW c \in Clients, Admit(c)
    PROVE  OnlyOne(c)
  BY DEF Admit, OnlyOne

LEMMA Working ==
    ASSUME SerialInv, NEW c \in Clients, pc[c] # "idle"
    PROVE  OnlyOne(c)
  BY DEF SerialInv

(* The request is answered and gone.                                       *)
LEMMA DoneSerial ==
    ASSUME Inv, SerialInv, NEW c \in Clients, OnlyOne(c), Done(c),
           UNCHANGED <<json, started, runs>>
    PROVE  SerialInv'
  <1>1. Where(c)' /\ Plan(c)'
    BY DEF Inv, LocalOK, Done, Where, Plan, Saving
  <1> QED
    BY <1>1, OneActs DEF Inv, LocalOK, Done, SerialInv

LEMMA GoCleanupSerial ==
    ASSUME Inv, SerialInv, NEW c \in Clients, OnlyOne(c), GoCleanup(c),
           UNCHANGED <<json, started, runs>>, started
    PROVE  SerialInv'
  <1>1. Where(c)' /\ Plan(c)'
    BY DEF Inv, LocalOK, GoCleanup, Where, Plan, Saving
  <1> QED
    BY <1>1, OneActs DEF Inv, LocalOK, GoCleanup, SerialInv

LEMMA GoTurnSerial ==
    ASSUME Inv, SerialInv, NEW c \in Clients, OnlyOne(c), pc[c] = "idle",
           NEW s \in Session, Base(json, s), ~IsPaused(s),
           NEW ref, GoTurn(c, s, ref),
           UNCHANGED <<json, runs>>, started'
    PROVE  SerialInv'
  <1>1. Where(c)' /\ Plan(c)'
    BY DEF Inv, LocalOK, GoTurn, SerialInv, Where, Plan, Saving
  <1> QED
    BY <1>1, OneActs DEF Inv, LocalOK, GoTurn, SerialInv

LEMMA GoSaveSerial ==
    ASSUME Inv, SerialInv, NEW c \in Clients, OnlyOne(c),
           pc[c] \in {"idle", "turn"},
           NEW s \in Session, NEW t \in Then, Lawful(json, s, t, runs'),
           NEW ref, GoSave(c, s, t, ref),
           UNCHANGED json, runs' <= RunBound, started'
    PROVE  SerialInv'
  <1>1. Where(c)' /\ Plan(c)'
    BY DEF Inv, LocalOK, GoSave, SerialInv, Where, Plan, Saving
  <1> QED
    BY <1>1, OneActs DEF Inv, LocalOK, GoSave, SerialInv

-----------------------------------------------------------------------------
(* Every action keeps the invariant when requests do not overlap.          *)

LEMMA StartSerial ==
    ASSUME Inv, SerialInv, ~Overlap, NEW c \in Clients, NEW mode \in SessionMode,
           NEW prompt \in BOOLEAN, SessionStart(c, mode, prompt)
    PROVE  SerialInv'
  <1>1. /\ OnlyOne(c) /\ pc[c] = "idle" /\ json = Absent /\ runs <= RunBound
        /\ UNCHANGED <<json, runs>> /\ started'
    BY Admitted DEF SessionStart, Admit, SerialInv, disk, ghost
  <1>2. NewSession(mode) \in Session /\ Born(NewSession(mode))
        /\ ~IsPaused(NewSession(mode))
    BY NewSessionOK DEF Born, NewSession, IsPaused, Inv, RestOK
  <1>3. CASE GoTurn(c, NewSession(mode), NoRef)
    BY <1>1, <1>2, <1>3, GoTurnSerial DEF Base
  <1>4. CASE GoSave(c, NewSession(mode), "started", NoRef)
    <2>1. Lawful(json, NewSession(mode), "started", runs')
      BY <1>1, <1>2 DEF Lawful, TurnDone, TurnError, Approving, Closing
    <2>2. "started" \in Then
      BY DEF Then
    <2> QED
      BY <1>1, <1>2, <1>4, <2>1, <2>2, GoSaveSerial
  <1> QED
    BY <1>3, <1>4 DEF SessionStart

LEMMA ContinueSerial ==
    ASSUME Inv, SerialInv, ~Overlap, NEW c \in Clients, NEW action \in Action,
           NEW prompt \in BOOLEAN, NEW ref \in Refs \cup {NoRef},
           SessionContinue(c, action, prompt, ref)
    PROVE  SerialInv'
  <1>1. /\ OnlyOne(c) /\ pc[c] = "idle" /\ runs <= RunBound
        /\ UNCHANGED <<json, tmp, runs, started>> /\ started
    BY Admitted DEF SessionContinue, Admit, SerialInv, disk, ghost
  <1>2. CASE UNCHANGED local
    BY <1>1, <1>2 DEF SerialInv, OnlyOne, Where, Plan, local
  <1>3. CASE Loadable /\ ContinuePaused(c, action, prompt, ref)
    <2>1. json \in Session /\ IsPaused(json) /\ Coherent(json, runs) /\ runs \in Nat
      BY <1>3 DEF Loadable, ContinuePaused, Inv, DiskOK, FileOK, RestOK
    <2>2. CASE GoSave(c, [json EXCEPT !.status = "closed"], "closed", NoRef)
      <3>1. [json EXCEPT !.status = "closed"] \in Session
        BY <2>1, StatusChangeOK
      <3>2. Lawful(json, [json EXCEPT !.status = "closed"], "closed", runs')
        BY <2>1 DEF Lawful, TurnDone, TurnError, Approving, Closing
      <3>3. "closed" \in Then
        BY DEF Then, Closing
      <3> QED
        BY <1>1, <2>2, <3>1, <3>2, <3>3, GoSaveSerial
    <2>3. ASSUME NEW t \in Approving,
                 GoSave(c, [json EXCEPT !.status = "active"], t, ref)
          PROVE  SerialInv'
      <3>1. [json EXCEPT !.status = "active"] \in Session
        BY <2>1, StatusChangeOK
      <3>2. Lawful(json, [json EXCEPT !.status = "active"], t, runs')
        BY <2>1 DEF Lawful, TurnDone, TurnError, Approving, Closing
      <3>3. t \in Then
        BY DEF Then, Approving
      <3> QED
        BY <1>1, <2>3, <3>1, <3>2, <3>3, GoSaveSerial
    <2> QED
      BY <1>2, <1>3, <2>2, <2>3 DEF ContinuePaused, Approving
  <1>4. CASE Loadable /\ ContinueUnpaused(c, prompt, ref)
    BY <1>1, <1>2, <1>4, GoTurnSerial DEF Loadable, ContinueUnpaused, Base
  <1> QED
    BY <1>2, <1>3, <1>4 DEF SessionContinue

LEMMA CloseSerial ==
    ASSUME Inv, SerialInv, ~Overlap, NEW c \in Clients, SessionClose(c)
    PROVE  SerialInv'
  <1>1. /\ OnlyOne(c) /\ pc[c] = "idle" /\ runs <= RunBound
        /\ UNCHANGED <<json, runs, started>> /\ started
    BY Admitted DEF SessionClose, Admit, SerialInv, disk, ghost
  <1>2. CASE GoCleanup(c)
    BY <1>1, <1>2, GoCleanupSerial
  <1>3. CASE Loadable /\ GoSave(c, [json EXCEPT !.status = "closed"], "deleted", NoRef)
    <2>1. json \in Session /\ Coherent(json, runs) /\ runs \in Nat
      BY <1>3 DEF Loadable, Inv, DiskOK, FileOK, RestOK
    <2>2. [json EXCEPT !.status = "closed"] \in Session
      BY <2>1, StatusChangeOK
    <2>3. Lawful(json, [json EXCEPT !.status = "closed"], "deleted", runs')
      BY <2>1 DEF Lawful, TurnDone, TurnError, Approving, Closing
    <2>4. "deleted" \in Then
      BY DEF Then, Closing
    <2> QED
      BY <1>1, <1>3, <2>2, <2>3, <2>4, GoSaveSerial
  <1> QED
    BY <1>2, <1>3 DEF SessionClose

(* A turn that fails saves what it started from.                           *)
LEMMA FailedTurnSerial ==
    ASSUME Inv, SerialInv, NEW c \in Clients, pc[c] = "turn",
           NEW t \in TurnError, GoSave(c, sess[c], t, NoRef),
           UNCHANGED <<json, runs, started>>
    PROVE  SerialInv'
  <1>1. /\ sess[c] \in Session /\ OnlyOne(c) /\ started
        /\ Base(json, sess[c]) /\ runs <= RunBound
    BY Working DEF Inv, LocalOK, ClientOK, Busy, SerialInv, Where, Plan
  <1>2. Lawful(json, sess[c], t, runs')
    BY <1>1 DEF Lawful, TurnDone, TurnError, Approving, Closing
  <1>3. t \in Then
    BY DEF Then
  <1> QED
    BY <1>1, <1>2, <1>3, GoSaveSerial

LEMMA TurnSerial ==
    ASSUME Inv, SerialInv, NEW c \in Clients, RunTurn(c)
    PROVE  SerialInv'
  <1>1. /\ pc[c] = "turn" /\ sess[c] \in Session /\ OnlyOne(c) /\ started
        /\ Coherent(sess[c], runs) /\ Base(json, sess[c])
        /\ runs \in Nat /\ runs <= RunBound
        /\ UNCHANGED <<json, started>>
    <2>1. pc[c] = "turn" /\ UNCHANGED <<json, started>>
      BY DEF RunTurn, TurnNotBuilt, TurnRefused, TurnRefExpired, TurnRaises, TurnRuns, disk
    <2> QED
      BY <2>1, Working, NoSessionAssumption
         DEF Inv, LocalOK, ClientOK, Busy, RestOK, SerialInv, Where, Plan
  <1>2. CASE TurnNotBuilt(c)
    BY <1>1, <1>2, DoneSerial DEF TurnNotBuilt, ghost
  <1>3. CASE TurnRefused(c)
    <2>1. GoSave(c, sess[c], "not_active", NoRef) /\ runs' = runs
      BY <1>1, <1>3, RefusalOK DEF TurnRefused, ghost
    <2> QED
      BY <1>1, <2>1, FailedTurnSerial DEF TurnError
  <1>4. CASE TurnRefExpired(c)
    BY <1>1, <1>4, FailedTurnSerial DEF TurnRefExpired, TurnError, ghost
  <1>5. CASE TurnRaises(c)
    BY <1>1, <1>5, FailedTurnSerial DEF TurnRaises, TurnError, ghost
  <1>6. ASSUME NEW used \in TokenUsage, TurnRuns(c, used)
        PROVE  SerialInv'
    <2>1. /\ ~Refused(sess[c]) /\ runs < RunBound /\ runs' = runs + 1
      BY <1>6 DEF TurnRuns
    <2> DEFINE r == RecordTurn(sess[c], runs + 1)
    <2>2. r \in Session
      BY <1>1, <2>1, RecordTurnOK
    <2>3. PICK t \in TurnDone : GoSave(c, r, t, NoRef)
      BY <1>6 DEF TurnRuns, TurnDone
    <2>4. runs' \in 1..RunBound /\ runs' - 1 = runs
      BY <1>1, <2>1, RunsAssumption
    <2>5. r = RecordTurn(sess[c], runs')
      BY <2>1
    <2> HIDE DEF r
    <2>6. Lawful(json, r, t, runs')
      BY <1>1, <2>1, <2>4, <2>5 DEF Lawful, TurnDone, TurnError, Approving, Closing
    <2>7. t \in Then
      BY DEF Then
    <2> QED
      BY <1>1, <2>2, <2>3, <2>4, <2>6, <2>7, RunsAssumption, GoSaveSerial
  <1> QED
    BY <1>2, <1>3, <1>4, <1>5, <1>6 DEF RunTurn

LEMMA SaveOpenSerial ==
    ASSUME Inv, SerialInv, NEW c \in Clients, SaveOpen(c)
    PROVE  SerialInv'
  <1>1. OnlyOne(c)
    BY Working DEF SaveOpen
  <1>2. Where(c)' /\ Plan(c)'
    BY DEF Inv, LocalOK, SaveOpen, SerialInv, Where, Plan, Saving, ghost
  <1> QED
    BY <1>1, <1>2, OneActs DEF Inv, LocalOK, SaveOpen, SerialInv, ghost

LEMMA SaveWriteSerial ==
    ASSUME Inv, SerialInv, NEW c \in Clients, SaveWrite(c)
    PROVE  SerialInv'
  <1>1. OnlyOne(c)
    BY Working DEF SaveWrite
  <1>2. Overwrite(Empty, sess[c]) = {sess[c]}
    BY FileAssumption DEF Overwrite
  <1>3. tmp' = sess[c] /\ json' = json
    BY <1>2 DEF SaveWrite, SerialInv, Where
  <1>4. Where(c)' /\ Plan(c)'
    BY <1>3 DEF Inv, LocalOK, SaveWrite, SerialInv, Where, Plan, Saving, ghost
  <1> QED
    BY <1>1, <1>3, <1>4, OneActs DEF Inv, LocalOK, SaveWrite, SerialInv, ghost

(* A save that ends replaces the file by the session it was meant to hold. *)
LEMMA ReplaceLawful ==
    ASSUME Inv, SerialInv, NEW c \in Clients, SaveReplace(c)
    PROVE  /\ json' = sess[c] /\ json' \in Session
           /\ Lawful(json, json', then[c], runs)
           /\ OnlyOne(c)
  BY Working DEF Inv, LocalOK, ClientOK, Busy, SaveReplace, SerialInv, Where, Plan, Saving

LEMMA SaveReplaceSerial ==
    ASSUME Inv, SerialInv, NEW c \in Clients, SaveReplace(c)
    PROVE  SerialInv'
  <1>1. /\ json' = sess[c] /\ json' \in Session
        /\ Lawful(json, json', then[c], runs) /\ OnlyOne(c)
    BY ReplaceLawful
  <1>2. fd' = fd /\ fd[c] = "none" /\ started
    <2>1. \A d \in Clients : fd[d] = "none"
      BY <1>1 DEF SerialInv, Where, OnlyOne, SaveReplace
    <2> QED
      BY <2>1 DEF SaveReplace, AfterRename, Inv, LocalOK, SerialInv, Where
  <1>3. UNCHANGED <<started, runs>>
    BY DEF SaveReplace
  <1>4. Where(c)' /\ Plan(c)'
    <2>1. CASE then[c] = "run_turn"
      <3>1. pc'[c] = "turn" /\ UNCHANGED <<sess, then>>
        BY <2>1 DEF SaveReplace, AfterSave, Inv, LocalOK, Closing
      <3>2. json \in Session /\ ~IsPaused(json')
        BY <1>1, <2>1 DEF Lawful, Approving, IsPaused, Session
      <3> QED
        BY <1>1, <1>2, <1>3, <3>1, <3>2 DEF Where, Plan, Base, Saving
    <2>2. CASE then[c] \in Closing
      <3>1. pc'[c] = "cleanup"
        BY <2>2 DEF SaveReplace, AfterSave, Inv, LocalOK, Closing
      <3> QED
        BY <1>2, <1>3, <3>1 DEF Where, Plan, Saving
    <2>3. CASE then[c] \notin {"run_turn"} \cup Closing
      <3>1. pc'[c] = "idle" /\ then'[c] = "none"
        BY <2>3 DEF SaveReplace, AfterSave, Inv, LocalOK
      <3> QED
        BY <1>2, <1>3, <3>1 DEF Where, Plan, Saving
    <2> QED
      BY <2>1, <2>2, <2>3
  <1>5. \A d \in Clients : d # c => pc'[d] = pc[d] /\ then'[d] = then[d]
    BY DEF SaveReplace, AfterSave, Inv, LocalOK
  <1> QED
    BY <1>1, <1>2, <1>3, <1>4, <1>5, OneActs DEF SerialInv

LEMMA SaveFailsSerial ==
    ASSUME Inv, SerialInv, NEW c \in Clients, SaveFails(c)
    PROVE  SerialInv'
  <1>1. OnlyOne(c) /\ started
    BY Working DEF SaveFails, SerialInv, Where
  <1> QED
    BY <1>1, DoneSerial, GoCleanupSerial DEF SaveFails, disk, ghost

LEMMA CleanupSerial ==
    ASSUME Inv, SerialInv, NEW c \in Clients, Cleanup(c)
    PROVE  SerialInv'
  <1>1. OnlyOne(c)
    BY Working DEF Cleanup
  <1> QED
    BY <1>1, DoneSerial DEF Cleanup, disk, ghost

LEMMA RestartSerial ==
    ASSUME SerialInv, Restart
    PROVE  SerialInv'
  BY DEF SerialInv, OnlyOne, Where, Plan, Saving, Restart, disk, ghost

LEMMA InitSerial == Init => SerialInv
  BY RunsAssumption DEF Init, SerialInv, OnlyOne, Where, Plan, Saving

LEMMA NextSerial == ~Overlap /\ Inv /\ SerialInv /\ [Next]_vars => SerialInv'
  <1> SUFFICES ASSUME ~Overlap, Inv, SerialInv, [Next]_vars PROVE SerialInv'
    OBVIOUS
  <1>1. ASSUME NEW c \in Clients, Request(c) PROVE SerialInv'
    BY <1>1, StartSerial, ContinueSerial, CloseSerial DEF Request
  <1>2. ASSUME NEW c \in Clients, RunTurn(c) PROVE SerialInv'
    BY <1>2, TurnSerial
  <1>3. ASSUME NEW c \in Clients, SaveSession(c) PROVE SerialInv'
    BY <1>3, SaveOpenSerial, SaveWriteSerial, SaveReplaceSerial, SaveFailsSerial
       DEF SaveSession
  <1>4. ASSUME NEW c \in Clients, Cleanup(c) PROVE SerialInv'
    BY <1>4, CleanupSerial
  <1>5. CASE UNCHANGED vars \/ \E ref \in Refs : Upload(ref)
    BY <1>5 DEF vars, Upload, local, disk, ghost, SerialInv, OnlyOne, Where, Plan
  <1>6. CASE Restart
    BY <1>6, RestartSerial
  <1> QED
    BY <1>1, <1>2, <1>3, <1>4, <1>5, <1>6 DEF Next

LEMMA SerialInvariance == ASSUME ~Overlap PROVE Spec => []SerialInv
  BY InitSerial, NextSerial, Invariance, PTL DEF Spec

-----------------------------------------------------------------------------
(* What a step does to the session file.                                   *)

(* Only a save that ends changes the file.                                 *)
LEMMA FileStep ==
    ASSUME Inv, SerialInv, [Next]_vars, json' # json
    PROVE  \E c \in Clients : SaveReplace(c)
  <1>1. ASSUME NEW c \in Clients, Request(c) PROVE FALSE
    BY <1>1 DEF Request, SessionStart, SessionContinue, SessionClose, disk
  <1>2. ASSUME NEW c \in Clients, RunTurn(c) PROVE FALSE
    BY <1>2 DEF RunTurn, TurnNotBuilt, TurnRefused, TurnRefExpired, TurnRaises,
               TurnRuns, disk
  <1>3. ASSUME NEW c \in Clients, SaveOpen(c) \/ SaveWrite(c) \/ SaveFails(c)
        PROVE  FALSE
    BY <1>3 DEF SaveOpen, SaveWrite, SaveFails, disk, SerialInv, Where
  <1>4. ASSUME NEW c \in Clients, Cleanup(c) PROVE FALSE
    BY <1>4 DEF Cleanup, disk
  <1>5. CASE UNCHANGED vars \/ Restart \/ \E ref \in Refs : Upload(ref)
    BY <1>5 DEF vars, Restart, Upload, disk
  <1> QED
    BY <1>1, <1>2, <1>3, <1>4, <1>5 DEF Next, SaveSession

(* And it makes of the file what its purpose allows.                       *)
LEMMA FileLawful ==
    ASSUME Inv, SerialInv, [Next]_vars, json' # json
    PROVE  \E c \in Clients : /\ SaveReplace(c) /\ OnlyOne(c)
                              /\ json' \in Session
                              /\ Lawful(json, json', then[c], runs)
  BY FileStep, ReplaceLawful

LEMMA ThenKnown ==
    ASSUME Inv, NEW c \in Clients, then[c] # "none"
    PROVE  \/ then[c] = "started" \/ then[c] \in TurnDone \/ then[c] \in TurnError
           \/ then[c] \in Approving \/ then[c] \in Closing
  BY DEF Inv, LocalOK, Then

(* Setting a status to what it is changes nothing.                         *)
LEMMA SameStatus ==
    ASSUME NEW s \in Session
    PROVE  [s EXCEPT !.status = s.status] = s
  BY DEF Session

-----------------------------------------------------------------------------
(* One request at a time: wherever it fails and wherever the server stops, *)
(* the session file is whole (the temporary file of save_session).         *)
THEOREM FileStaysReadable == ASSUME ~Overlap PROVE Spec => []FileReadable
  <1>1. SerialInv => FileReadable
    BY DEF SerialInv, FileReadable
  <1> QED
    BY <1>1, SerialInvariance, PTL

(* One request at a time: a turn that was refused, raised or lost its      *)
(* file_ref leaves the session file as it was.                             *)
THEOREM FailedTurnsLeaveNoTrace ==
    ASSUME ~Overlap PROVE Spec => FailedTurnChangesNothing
  <1>1. Inv /\ SerialInv /\ [Next]_vars =>
            [\A c \in Clients : then[c] \in TurnError /\ json' # json
                 => json = Absent]_<<json, then>>
    <2> SUFFICES ASSUME Inv, SerialInv, [Next]_vars, NEW c \in Clients,
                        then[c] \in TurnError, json' # json
                 PROVE  json = Absent
      OBVIOUS
    <2>1. PICK d \in Clients : OnlyOne(d) /\ Lawful(json, json', then[d], runs)
      BY FileLawful
    <2>2. d = c
      BY <2>1 DEF OnlyOne, SerialInv, Where, TurnError
    <2> QED
      BY <2>1, <2>2 DEF Lawful, Base
  <1> QED
    BY <1>1, Invariance, SerialInvariance, PTL DEF Spec, FailedTurnChangesNothing

(* One request at a time: no save reopens a closed session or changes its  *)
(* history.                                                                *)
THEOREM ClosedStaysClosed == ASSUME ~Overlap PROVE Spec => ClosedIsFinal
  <1>1. Inv /\ SerialInv /\ [Next]_vars =>
            [Loadable /\ json.status = "closed" /\ json' \in Session
                 => json' = json]_json
    <2> SUFFICES ASSUME Inv, SerialInv, [Next]_vars, json \in Session,
                        json.status = "closed", json' # json
                 PROVE  FALSE
      BY DEF Loadable
    <2>1. PICK c \in Clients : Lawful(json, json', then[c], runs)
      BY FileLawful
    <2>2. json # Absent
      BY FileAssumption
    <2>3. CASE then[c] \in TurnDone
      BY <2>1, <2>2, <2>3 DEF Lawful, Base, Refused, IsActive
    <2>4. CASE then[c] \in Closing
      BY <2>1, <2>4, SameStatus DEF Lawful
    <2> QED
      BY <2>1, <2>2, <2>3, <2>4, ThenKnown DEF Lawful, Base, IsPaused
  <1> QED
    BY <1>1, Invariance, SerialInvariance, PTL DEF Spec, ClosedIsFinal

(* One request at a time: a paused session moves only to active, by an     *)
(* approval, or to closed.                                                 *)
THEOREM PausesHold == ASSUME ~Overlap PROVE Spec => PauseHolds
  <1>1. Inv /\ SerialInv /\ [Next]_vars =>
            [Loadable /\ json.status = "paused" /\ json' \in Session
                 => json' \in {[json EXCEPT !.status = "active"],
                              [json EXCEPT !.status = "closed"]}]_json
    <2> SUFFICES ASSUME Inv, SerialInv, [Next]_vars, json \in Session,
                        json.status = "paused", json' # json
                 PROVE  json' \in {[json EXCEPT !.status = "active"],
                                  [json EXCEPT !.status = "closed"]}
      BY DEF Loadable
    <2>1. PICK c \in Clients : Lawful(json, json', then[c], runs)
      BY FileLawful
    <2>2. json # Absent
      BY FileAssumption
    <2>3. then[c] \notin TurnDone
      BY <2>1, <2>2 DEF Lawful, Base, Refused, IsActive
    <2> QED
      BY <2>1, <2>2, <2>3, ThenKnown DEF Lawful, Base
  <1> QED
    BY <1>1, Invariance, SerialInvariance, PTL DEF Spec, PauseHolds

-----------------------------------------------------------------------------
(* Turns that were reported.                                               *)

(* Recording a turn keeps the runs a session names and adds the new one,   *)
(* which is its last.                                                      *)
LEMMA RunsAfterTurn ==
    ASSUME NEW b \in Session, NEW n \in Nat
    PROVE  LET r == RecordTurn(b, n)
           IN  /\ RunsOf(b) \subseteq RunsOf(r)
               /\ r.turns[Len(r.turns)].run_id \in RunsOf(r)
  <1> DEFINE r == RecordTurn(b, n)
             e == [turn_index |-> b.turn_count, run_id |-> n]
  <1>1. r.turns = Append(b.turns, e) /\ b.turns \in Seq(TurnRecord) /\ e \in TurnRecord
    BY DEF RecordTurn, Session, TurnRecord
  <1>2. /\ Len(r.turns) = Len(b.turns) + 1 /\ Len(b.turns) \in Nat
        /\ \A i \in 1..Len(b.turns) : r.turns[i] = b.turns[i]
    BY <1>1, AppendOK
  <1> HIDE DEF r, e
  <1>3. RunsOf(b) \subseteq RunsOf(r)
    BY <1>2 DEF RunsOf
  <1>4. r.turns[Len(r.turns)].run_id \in RunsOf(r)
    BY <1>2 DEF RunsOf
  <1> QED
    BY <1>3, <1>4 DEF r

(* Another status leaves the history alone.                                *)
LEMMA RunsAfterStatus ==
    ASSUME NEW s \in Session, NEW st
    PROVE  RunsOf([s EXCEPT !.status = st]) = RunsOf(s)
  BY DEF RunsOf, Session

LEMMA AckedStep ==
    ASSUME Inv, SerialInv, NoTurnLost, [Next]_vars
    PROVE  NoTurnLost'
  <1>1. ASSUME NEW c \in Clients, SaveReplace(c) PROVE NoTurnLost'
    <2>1. /\ json' = sess[c] /\ json' \in Session
          /\ Lawful(json, json', then[c], runs)
      BY <1>1, ReplaceLawful
    <2>2. json = Absent => acked = {}
      BY FileAssumption DEF NoTurnLost
    <2>3. json # Absent => json \in Session /\ acked \subseteq RunsOf(json)
      BY DEF SerialInv, NoTurnLost
    <2>4. CASE then[c] \in TurnDone
      <3>1. PICK b \in Session : Base(json, b) /\ runs \in Nat
                                 /\ json' = RecordTurn(b, runs)
        BY <2>1, <2>4 DEF Lawful, Inv, RestOK
      <3>2. acked \subseteq RunsOf(json')
        BY <2>2, <2>3, <3>1, RunsAfterTurn DEF Base
      <3>3. acked' = acked \cup {json'.turns[Len(json'.turns)].run_id}
        BY <1>1, <2>1, <2>4 DEF SaveReplace
      <3> QED
        BY <2>1, <3>1, <3>2, <3>3, RunsAfterTurn DEF NoTurnLost
    <2>5. CASE then[c] \notin TurnDone
      <3>1. acked' = acked
        BY <1>1, <2>5 DEF SaveReplace
      <3>2. acked \subseteq RunsOf(json')
        BY <2>1, <2>2, <2>3, <2>5, ThenKnown, RunsAfterStatus DEF Lawful, Base
      <3> QED
        BY <2>1, <3>1, <3>2 DEF NoTurnLost
    <2> QED
      BY <2>4, <2>5
  <1>2. CASE ~\E c \in Clients : SaveReplace(c)
    <2>1. json' = json
      BY <1>2, FileStep
    <2>2. acked' = acked
      BY <1>2 DEF Next, Request, SessionStart, SessionContinue, SessionClose, RunTurn,
                  TurnNotBuilt, TurnRefused, TurnRefExpired, TurnRaises, TurnRuns,
                  SaveSession, SaveOpen, SaveWrite, SaveFails, Cleanup, Upload, Restart,
                  ghost, vars
    <2> QED
      BY <2>1, <2>2 DEF NoTurnLost
  <1> QED
    BY <1>1, <1>2

(* One request at a time: a turn a client was told of stays in the session *)
(* file through every later request, failed save and restart.              *)
THEOREM TurnsAreKept == ASSUME ~Overlap PROVE Spec => []NoTurnLost
  <1>1. Init => NoTurnLost
    BY DEF Init, NoTurnLost
  <1> QED
    BY <1>1, AckedStep, Invariance, SerialInvariance, PTL DEF Spec

-----------------------------------------------------------------------------
(* Turns and approvals.                                                    *)

LEMMA Multiples ==
    ASSUME NEW k \in Nat, k > 0, NEW a \in Nat
    PROVE  /\ k * (a + 1) \in Nat
           /\ k * (a + 1) > 0
           /\ k * (a + 1) < k * (a + 2)
           /\ (k * (a + 1)) % k = 0
  OBVIOUS

(* A steward session whose turns are counted has used up at most the       *)
(* approvals it has; an active one has a turn of them left.                *)
Within(s, k, a) ==
    s.session_mode = "steward" =>
        /\ s.turn_count <= k * (a + 1)
        /\ s.status = "active" => s.turn_count < k * (a + 1)

GateInv ==
    Declared(Thresholds.step_count) /\ json \in Session
        => Within(json, Thresholds.step_count, approvals)

LEMMA TurnWithin ==
    ASSUME NEW b \in Session, NEW n \in Nat, NEW a \in Nat, ~Refused(b),
           Declared(Thresholds.step_count), Within(b, Thresholds.step_count, a)
    PROVE  Within(RecordTurn(b, n), Thresholds.step_count, a)
  <1> DEFINE k == Thresholds.step_count
             r == RecordTurn(b, n)
  <1> SUFFICES ASSUME b.session_mode = "steward"
               PROVE  /\ r.turn_count <= k * (a + 1)
                      /\ r.status = "active" => r.turn_count < k * (a + 1)
    BY DEF Within, RecordTurn
  <1>1. /\ k \in Nat /\ k > 0 /\ b.turn_count \in Nat
        /\ r.turn_count = b.turn_count + 1 /\ r.status = StatusAfterTurn(b)
    BY ThresholdsAssumption DEF Declared, Session, RecordTurn
  <1>2. b.turn_count < k * (a + 1)
    BY DEF Within, Refused, IsActive
  <1>3. k * (a + 1) \in Nat /\ (k * (a + 1)) % k = 0
    BY <1>1, Multiples
  <1>4. r.status = "active" => (b.turn_count + 1) % k # 0
    BY <1>1 DEF StatusAfterTurn, TurnGate, GateCheck, EvaluateThresholds,
                StepCountFires, Declared, NoPause
  <1> HIDE DEF r
  <1>5. r.status = "active" => b.turn_count + 1 # k * (a + 1)
    BY <1>3, <1>4
  <1> QED
    BY <1>1, <1>2, <1>3, <1>5

LEMMA GateStep ==
    ASSUME Inv, SerialInv, GateInv, [Next]_vars
    PROVE  GateInv'
  <1> SUFFICES ASSUME Declared(Thresholds.step_count), json' \in Session
               PROVE  Within(json', Thresholds.step_count, approvals')
    BY DEF GateInv
  <1> DEFINE k == Thresholds.step_count
  <1>1. k \in Nat /\ k > 0 /\ approvals \in Nat
    BY ThresholdsAssumption DEF Declared, Inv, RestOK
  <1>2. \A m \in SessionMode : Within(NewSession(m), k, approvals)
    BY <1>1, Multiples DEF Within, NewSession
  <1> HIDE DEF k
  <1>3. ASSUME NEW c \in Clients, SaveReplace(c)
        PROVE  Within(json', k, approvals')
    <2>1. Lawful(json, json', then[c], runs) /\ then[c] # "none"
      BY <1>3, ReplaceLawful DEF Lawful
    <2>2. \A b \in Session : Base(json, b) => Within(b, k, approvals)
      BY <1>2 DEF Base, Born, GateInv, k
    <2>3. CASE then[c] \in Approving
      <3>1. approvals' = approvals + 1
        BY <1>3, <2>3 DEF SaveReplace
      <3>2. /\ json \in Session /\ json' = [json EXCEPT !.status = "active"]
            /\ Within(json, k, approvals)
        BY <2>1, <2>2, <2>3 DEF Lawful, Base
      <3>3. /\ json'.turn_count = json.turn_count
            /\ json'.session_mode = json.session_mode /\ json.turn_count \in Nat
        BY <3>2 DEF Session
      <3>4. /\ k * (approvals + 1) \in Nat /\ k * (approvals + 2) \in Nat
            /\ k * (approvals + 1) < k * (approvals + 2)
        BY <1>1, Multiples
      <3>5. approvals' + 1 = approvals + 2
        BY <1>1, <3>1
      <3> QED
        BY <3>2, <3>3, <3>4, <3>5 DEF Within
    <2>4. CASE then[c] \notin Approving
      <3>1. approvals' = approvals
        BY <1>1, <1>3, <2>4 DEF SaveReplace
      <3>2. CASE then[c] \in TurnDone
        <4>1. PICK b \in Session : Base(json, b) /\ ~Refused(b) /\ runs \in Nat
                                   /\ json' = RecordTurn(b, runs)
          BY <2>1, <3>2 DEF Lawful, Inv, RestOK
        <4> QED
          BY <1>1, <2>2, <3>1, <4>1, TurnWithin DEF k
      <3>3. CASE then[c] \in Closing
        BY <2>1, <2>2, <3>1, <3>3 DEF Lawful, Base, Within, Session
      <3>4. CASE then[c] = "started" \/ then[c] \in TurnError
        BY <2>1, <2>2, <3>1, <3>4 DEF Lawful, Base
      <3> QED
        BY <2>1, <2>4, <3>2, <3>3, <3>4, ThenKnown
    <2> QED
      BY <2>3, <2>4
  <1>4. CASE ~\E c \in Clients : SaveReplace(c)
    <2>1. json' = json
      BY <1>4, FileStep
    <2>2. approvals' = approvals
      BY <1>4 DEF Next, Request, SessionStart, SessionContinue, SessionClose, RunTurn,
                  TurnNotBuilt, TurnRefused, TurnRefExpired, TurnRaises, TurnRuns,
                  SaveSession, SaveOpen, SaveWrite, SaveFails, Cleanup, Upload, Restart,
                  ghost, vars
    <2> QED
      BY <2>1, <2>2 DEF GateInv, k
  <1> QED
    BY <1>3, <1>4 DEF k

(* One request at a time: with a declared step_count, a steward session    *)
(* records at most step_count turns per approval, whatever fails.          *)
THEOREM ApprovalsBoundTurns == ASSUME ~Overlap PROVE Spec => []TurnsNeedApproval
  <1>1. Init => GateInv
    BY FileAssumption DEF Init, GateInv
  <1>2. GateInv => TurnsNeedApproval
    BY DEF GateInv, TurnsNeedApproval, Within
  <1> QED
    BY <1>1, <1>2, GateStep, Invariance, SerialInvariance, PTL DEF Spec

-----------------------------------------------------------------------------
(* The file goes through the lifecycle of SessionLifecycle.                *)

History(s) == [i \in 1..Len(s.turns) |-> s.turns[i].run_id]

LEMMA HistoryOK ==
    ASSUME NEW s \in Session
    PROVE  /\ History(s) \in Seq(Nat) /\ Len(History(s)) = Len(s.turns)
           /\ \A i \in 1..Len(s.turns) : History(s)[i] = s.turns[i].run_id
  <1> DEFINE n == Len(s.turns)
  <1>1. s.turns \in Seq(TurnRecord)
    BY DEF Session
  <1>2. n \in Nat /\ \A i \in 1..n : s.turns[i].run_id \in Nat
    <2>1. \A i \in 1..n : s.turns[i] \in TurnRecord
      BY <1>1
    <2> QED
      BY <1>1, <2>1 DEF TurnRecord
  <1>3. History(s) = [i \in 1..n |-> s.turns[i].run_id]
    BY DEF History
  <1> HIDE DEF n
  <1>4. History(s) \in [1..n -> Nat]
    BY <1>2, <1>3
  <1>5. History(s) \in Seq(Nat) /\ Len(History(s)) = n
    BY <1>2, <1>4
  <1> QED
    BY <1>3, <1>5 DEF n

LEMMA NewHistory ==
    ASSUME NEW m \in SessionMode
    PROVE  History(NewSession(m)) = <<>>
  <1>1. NewSession(m) \in Session /\ Len(NewSession(m).turns) = 0
    BY NewSessionOK DEF NewSession
  <1> QED
    BY <1>1, HistoryOK, EmptySeq

LEMMA StatusHistory ==
    ASSUME NEW s \in Session, NEW st
    PROVE  History([s EXCEPT !.status = st]) = History(s)
  BY DEF History, Session

LEMMA TurnHistory ==
    ASSUME NEW b \in Session, NEW n \in Nat
    PROVE  History(RecordTurn(b, n)) = Append(History(b), n)
  <1> DEFINE e == [turn_index |-> b.turn_count, run_id |-> n]
             h == History(RecordTurn(b, n))
             g == Append(History(b), n)
  <1>1. b.turns \in Seq(TurnRecord) /\ e \in TurnRecord /\ Len(b.turns) \in Nat
    BY DEF Session, TurnRecord
  <1>2. /\ RecordTurn(b, n).turns = Append(b.turns, e)
        /\ Len(Append(b.turns, e)) = Len(b.turns) + 1
        /\ Append(b.turns, e)[Len(b.turns) + 1] = e
        /\ \A i \in 1..Len(b.turns) : Append(b.turns, e)[i] = b.turns[i]
    BY <1>1, AppendOK DEF RecordTurn
  <1>3. h = [i \in 1..(Len(b.turns) + 1) |-> Append(b.turns, e)[i].run_id]
    BY <1>2 DEF History
  <1>4. /\ g \in Seq(Nat) /\ Len(g) = Len(b.turns) + 1
        /\ g[Len(b.turns) + 1] = n
        /\ \A i \in 1..Len(b.turns) : g[i] = b.turns[i].run_id
    BY HistoryOK, AppendOK
  <1> HIDE DEF g, h
  <1>5. g = [i \in 1..(Len(b.turns) + 1) |-> g[i]]
    BY <1>4
  <1>6. \A i \in 1..(Len(b.turns) + 1) : g[i] = Append(b.turns, e)[i].run_id
    BY <1>1, <1>2, <1>4
  <1>7. h = g
    BY <1>3, <1>5, <1>6
  <1> QED
    BY <1>7 DEF h, g

(* The steps of the lifecycle, read off a file that holds f before and a   *)
(* session s after.                                                        *)
LEMMA BirthStep ==
    ASSUME json = Absent, NEW m \in SessionMode, json' = NewSession(m)
    PROVE  Lifecycle!Next
  <1>1. json \notin Session /\ json' \in Session
    BY FileAssumption, NewSessionOK
  <1>2. History(json') = <<>> /\ json'.status = "active" /\ json'.session_mode = m
    BY NewHistory DEF NewSession
  <1>3. Lifecycle!Start(m)
    BY <1>1, <1>2 DEF Lifecycle!Start, Loadable, History
  <1> QED
    BY <1>3 DEF Lifecycle!Next, Lifecycle!SessionMode, SessionMode

LEMMA StatusIsBoundary ==
    ASSUME NEW b \in Session, b.max_turns = MaxTurns
    PROVE  StatusAfterTurn(b) = Lifecycle!Boundary(b.session_mode, b.turn_count + 1)
  <1>1. b.turn_count \in Nat /\ (b.turn_count + 1) - 1 = b.turn_count
    BY DEF Session
  <1> QED
    BY <1>1
       DEF StatusAfterTurn, TurnGate, GateCheck, EvaluateThresholds, StepCountFires,
           TokenBudgetFires, CapabilityFires, Declared, NoPause,
           Lifecycle!Boundary, Lifecycle!GateCheck, Lifecycle!EvaluateThresholds,
           Lifecycle!StepCountFires, Lifecycle!TokenBudgetFires,
           Lifecycle!CapabilityFires, Lifecycle!Declared, Lifecycle!NoPause

LEMMA TurnStep ==
    ASSUME NEW b \in Session, Base(json, b), ~Refused(b),
           NEW n \in 1..RunBound, Coherent(b, n - 1), json' = RecordTurn(b, n),
           json' \in Session
    PROVE  Lifecycle!Next
  <1>1. /\ b.turn_count = Len(b.turns) /\ b.max_turns = MaxTurns
        /\ \A i \in 1..Len(b.turns) : b.turns[i].run_id \in 1..(n - 1)
        /\ n \in Nat
    BY RunsAssumption DEF Coherent
  <1>2. /\ json'.session_mode = b.session_mode
        /\ json'.status = Lifecycle!Boundary(b.session_mode, b.turn_count + 1)
        /\ History(json') = Append(History(b), n)
    BY <1>1, StatusIsBoundary, TurnHistory DEF RecordTurn
  <1>3. CASE json = Absent /\ Born(b)
    <2>1. PICK m \in SessionMode : b = NewSession(m)
      BY <1>3 DEF Born
    <2>2. b.turn_count = 0 /\ b.session_mode = m /\ History(b) = <<>>
      BY <2>1, NewHistory DEF NewSession
    <2>3. History(json') = <<n>>
      BY <1>2, <2>2
    <2>4. Lifecycle!StartWithTurn(m, n)
      BY <1>2, <1>3, <2>2, <2>3, FileAssumption DEF Lifecycle!StartWithTurn, Loadable, History
    <2> QED
      BY <2>4 DEF Lifecycle!Next, Lifecycle!SessionMode, SessionMode
  <1>4. CASE b = json
    <2>1. Len(History(json)) = json.turn_count /\ json.status = "active"
      BY <1>1, <1>4, HistoryOK DEF Refused, IsActive
    <2>2. ASSUME NEW i \in 1..Len(History(json)) PROVE History(json)[i] # n
      <3>1. i \in 1..Len(b.turns) /\ History(json)[i] = b.turns[i].run_id
        BY <1>4, <2>2, HistoryOK
      <3> QED
        BY <1>1, <3>1
    <2>3. Lifecycle!Turn(n)
      BY <1>2, <1>4, <2>1, <2>2 DEF Lifecycle!Turn, Loadable, History
    <2> QED
      BY <2>3 DEF Lifecycle!Next
  <1> QED
    BY <1>3, <1>4 DEF Base

LEMMA LifecycleStep ==
    ASSUME Inv, SerialInv, [Next]_vars
    PROVE  [Lifecycle!Next]_(Lifecycle!lifecycle)
  <1>1. CASE json' = json
    BY <1>1 DEF Lifecycle!lifecycle, Loadable
  <1>2. CASE json' # json
    <2>1. PICK c \in Clients : json' \in Session /\ Lawful(json, json', then[c], runs)
      BY <1>2, FileLawful
    <2>2. CASE then[c] = "started" \/ then[c] \in TurnError
      BY <1>2, <2>1, <2>2, BirthStep DEF Lawful, Base, Born
    <2>3. CASE then[c] \in TurnDone
      BY <2>1, <2>3, TurnStep DEF Lawful
    <2>4. CASE then[c] \in Approving
      <3>1. /\ json \in Session /\ json.status = "paused"
            /\ json' = [json EXCEPT !.status = "active"]
        BY <2>1, <2>4 DEF Lawful, IsPaused
      <3>2. /\ json'.status = "active" /\ json'.session_mode = json.session_mode
            /\ History(json') = History(json)
        BY <3>1, StatusHistory DEF Session
      <3>3. Lifecycle!Resume
        BY <2>1, <3>1, <3>2 DEF Lifecycle!Resume, Loadable, History
      <3> QED
        BY <3>3 DEF Lifecycle!Next
    <2>5. CASE then[c] \in Closing
      <3>1. json \in Session /\ json' = [json EXCEPT !.status = "closed"]
        BY <2>1, <2>5 DEF Lawful
      <3>2. /\ json'.status = "closed" /\ json'.session_mode = json.session_mode
            /\ History(json') = History(json)
        BY <3>1, StatusHistory DEF Session
      <3>3. json.status \in {"active", "paused", "at_limit"}
        BY <1>2, <3>1, SameStatus DEF Session, Status
      <3>4. Lifecycle!Close
        BY <2>1, <3>1, <3>2, <3>3 DEF Lifecycle!Close, Loadable, History
      <3> QED
        BY <3>4 DEF Lifecycle!Next
    <2> QED
      BY <2>1, <2>2, <2>3, <2>4, <2>5, ThenKnown DEF Lawful
  <1> QED
    BY <1>1, <1>2

(* One request at a time: the session file goes through the lifecycle of   *)
(* SessionLifecycle, and every save that ends is one of its steps.         *)
THEOREM FileFollowsLifecycle ==
    ASSUME ~Overlap PROVE Spec => FileImplementsLifecycle
  <1>1. Init => Lifecycle!Init
    BY FileAssumption DEF Init, Lifecycle!Init, Loadable
  <1>2. Inv /\ SerialInv /\ [Next]_vars => [Lifecycle!Next]_(Lifecycle!lifecycle)
    BY LifecycleStep
  <1> QED
    BY <1>1, <1>2, Invariance, SerialInvariance, PTL
       DEF Spec, FileImplementsLifecycle, Lifecycle!Spec
=============================================================================
