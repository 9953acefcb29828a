------------------------- MODULE SerialTransport_proofs -------------------------
(***************************************************************************)
(* Theorems about Transport when requests do not overlap: what clients and *)
(* webhooks are told of the session is true, and the session goes through  *)
(* the lifecycle of SessionLifecycle. For every ceiling and threshold, and *)
(* either server.                                                          *)
(***************************************************************************)
EXTENDS Transport_proofs

After == {"restore", "publish", "announce", "reply", "hook"}

OneBusy == \A c, d \in Clients : pc[c] # "idle" /\ pc[d] # "idle" => c = d

(* The session file between two steps.                                     *)
SessionOK ==
    /\ session.status \in {"active", "paused"} => session.turns < MaxTurns
    /\ session.status = "absent" => session.turns = 0 /\ session.mode = "none"
    /\ session.status # "absent" => session.mode \in SessionMode

(* What a request that ended its command has to say of the session.        *)
Answered(c) ==
    /\ Result(c).told \in Status => Result(c).told = session.status
    /\ req[c].kind = "close" /\ exit[c] = 0 => Result(c).told = "closed"

(* The turn of a start works on the session to be, another on the file's.  *)
Working(c) ==
    /\ req[c].kind \in TurnKinds /\ (server = "asgi" => req[c].kind # "stream")
    /\ IF req[c].kind = "start"
       THEN /\ session.status = "absent" /\ req[c].mode \in SessionMode
            /\ copy[c] = NewSession(req[c].mode)
       ELSE copy[c] = session /\ session.status \in Status

Served(c) ==
    /\ pc[c] \in {"invoke", "restore", "publish", "announce"} => server = "asgi"
    /\ pc[c] \in {"reply", "hook"} => server # "asgi"
    /\ pc[c] \in {"command", "turn"} => Target(c) = c
    /\ pc[c] \in {"invoke", "command", "turn"} => buf[c] = <<>>
    /\ pc[c] \in {"invoke", "command"} /\ req[c].kind = "start"
           => session.status = "absent"
    /\ pc[c] = "turn" => Working(c)
    /\ pc[c] \in After => Answered(c)
    /\ pc[c] = "announce" => req[c].kind \in {"turn", "close"}

SerialInv == OneBusy /\ SessionOK /\ \A c \in Clients : Served(c)

(* The steps of the session's file.                                        *)
Step ==
    \/ session' = session
    \/ /\ session.status = "absent"
       /\ \E m \in SessionMode : \/ session' = NewSession(m)
                                 \/ session' = RecordTurn(NewSession(m))
    \/ session.status = "active" /\ session' = RecordTurn(session)
    \/ session.status = "paused" /\ session' = [session EXCEPT !.status = "active"]
    \/ session.status \in Status /\ session' = [session EXCEPT !.status = "closed"]

(* An ending the ASGI server still has to announce.                        *)
Owes(c) ==
    /\ pc[c] \in {"restore", "publish", "announce"}
    /\ req[c].kind \in {"turn", "close"} /\ Complete(c)

(* A command that ends the session leaves its announcement to be made. The *)
(* first turn of a session ends it only when the ceiling is one.           *)
Owing(c) ==
    session' # session /\ session'.status \in Over /\ server = "asgi" /\ MaxTurns > 1
        => Owes(c)'

Good(c) == SerialInv' /\ Step /\ Owing(c)

-----------------------------------------------------------------------------
(* The file's steps.                                                       *)

LEMMA NotRefused ==
    ASSUME NEW s \in Session, s.status = "active", s.turns < MaxTurns
    PROVE  ~Refused(s)
  BY BoundsAssumption DEF Refused, Session

LEMMA RecordedOK ==
    ASSUME NEW s \in Session, s.status = "active", s.turns < MaxTurns,
           s.mode \in SessionMode, NEW t, t = RecordTurn(s)
    PROVE  /\ t \in Session /\ t.status \in {"at_limit", "paused", "active"}
           /\ t.mode = s.mode /\ t.turns = s.turns + 1
           /\ t.status # "at_limit" => t.turns < MaxTurns
           /\ t.status = IF s.turns + 1 >= MaxTurns THEN "at_limit"
                         ELSE IF GateFires(s) THEN "paused" ELSE "active"
  <1>1. ~Refused(s)
    BY NotRefused
  <1>2. /\ t \in Session /\ t.mode = s.mode /\ t.turns = s.turns + 1
        /\ t.status = IF s.turns + 1 >= MaxTurns THEN "at_limit"
                      ELSE IF GateFires(s) THEN "paused" ELSE "active"
    BY <1>1, RecordTurnOK
  <1>3. MaxTurns \in Nat /\ s.turns \in Nat
    BY BoundsAssumption DEF Session
  <1> HIDE DEF Session
  <1> QED
    BY <1>2, <1>3

LEMMA BornOK ==
    ASSUME NEW m \in SessionMode
    PROVE  /\ NewSession(m) \in Session /\ NewSession(m).status = "active"
           /\ NewSession(m).turns = 0 /\ NewSession(m).turns < MaxTurns
           /\ NewSession(m).mode = m
  BY NewSessionOK, BoundsAssumption DEF NewSession

LEMMA StepOK ==
    ASSUME session \in Session, SessionOK, Step
    PROVE  /\ session' \in Session /\ SessionOK'
           /\ session.status \in Status => session'.status \in Status
  <1>1. CASE session' = session
    BY <1>1 DEF SessionOK
  <1>2. ASSUME NEW m \in SessionMode, session.status = "absent",
               session' = NewSession(m) \/ session' = RecordTurn(NewSession(m))
        PROVE  session' \in Session /\ SessionOK' /\ session'.status \in Status
    <2>1. CASE session' = NewSession(m)
      BY <2>1, BornOK DEF SessionOK, Status
    <2>2. CASE session' = RecordTurn(NewSession(m))
      <3>1. /\ session' \in Session /\ session'.status \in {"at_limit", "paused", "active"}
            /\ session'.mode = m
            /\ session'.status # "at_limit" => session'.turns < MaxTurns
        BY <2>2, BornOK, RecordedOK
      <3> QED
        BY <3>1 DEF SessionOK, Status
    <2> QED
      BY <1>2, <2>1, <2>2
  <1>3. CASE session.status = "active" /\ session' = RecordTurn(session)
    <2>1. session.turns < MaxTurns /\ session.mode \in SessionMode
      BY <1>3 DEF SessionOK
    <2>2. /\ session' \in Session /\ session'.status \in {"at_limit", "paused", "active"}
          /\ session'.mode = session.mode
          /\ session'.status # "at_limit" => session'.turns < MaxTurns
      BY <1>3, <2>1, RecordedOK
    <2> QED
      BY <2>1, <2>2 DEF SessionOK, Status
  <1>4. CASE session.status = "paused" /\ session' = [session EXCEPT !.status = "active"]
    <2>1. "active" \in Status
      BY DEF Status
    <2>2. /\ session' \in Session /\ session'.status = "active"
          /\ session'.mode = session.mode /\ session'.turns = session.turns
      BY <1>4, <2>1, StatusOK
    <2> QED
      BY <1>4, <2>1, <2>2 DEF SessionOK
  <1>5. CASE session.status \in Status /\ session' = [session EXCEPT !.status = "closed"]
    <2>1. "closed" \in Status /\ "absent" \notin Status
      BY DEF Status
    <2>2. /\ session' \in Session /\ session'.status = "closed"
          /\ session'.mode = session.mode
      BY <1>5, <2>1, StatusOK
    <2> QED
      BY <1>5, <2>1, <2>2 DEF SessionOK
  <1> QED
    BY <1>1, <1>2, <1>3, <1>4, <1>5 DEF Step

(* A session that is over stays over, with the turns it has.               *)
LEMMA OverStays ==
    ASSUME session \in Session, Step, session.status \in Over
    PROVE  session'.status \in Over /\ session'.turns = session.turns
  BY DEF Step, Over, Session

-----------------------------------------------------------------------------
(* How a command ends.                                                     *)

LEMMA ServedOthers ==
    ASSUME Inv, SerialInv, NEW c \in Clients, pc[c] # "idle", NEW p \in Place,
           pc' = [pc EXCEPT ![c] = p], Served(c)', SessionOK'
    PROVE  SerialInv'
  <1>1. \A d \in Clients : d # c => pc[d] = "idle" /\ pc'[d] = "idle"
    BY DEF SerialInv, OneBusy, Inv, TypeOK
  <1>2. \A d \in Clients : d # c => Served(d)'
    BY <1>1 DEF Served, After
  <1>3. OneBusy'
    BY <1>1 DEF OneBusy
  <1> QED
    BY <1>2, <1>3 DEF SerialInv

(* What a command may answer: nothing, and not as a close that is done; or *)
(* one document that is true; and it says so when it ends the session.     *)
Honest(c, docs, code) ==
    /\ \/ docs = <<>> /\ (req[c].kind = "close" => code # 0)
       \/ \E st \in Told, p \in BOOLEAN :
              /\ docs = <<Doc(c, st, p)>>
              /\ st \in Status => st = session'.status
              /\ req[c].kind = "close" /\ code = 0 => st = "closed"
    /\ session' # session /\ session'.status \in Over /\ server = "asgi" /\ MaxTurns > 1
           => /\ req[c].kind \in {"turn", "close"}
              /\ \E p \in BOOLEAN : docs = <<Doc(c, session'.status, p)>>
              /\ req[c].kind = "close" => code = 0

LEMMA OneDocument ==
    ASSUME NEW c \in Clients, NEW st \in Told, NEW p \in BOOLEAN,
           buf'[c] = <<Doc(c, st, p)>>
    PROVE  Result(c)'.told = st
  <1> DEFINE d == Doc(c, st, p)
  <1>1. d.told = st
    BY DocOK
  <1> HIDE DEF d
  <1>2. buf'[c] = <<d>>
    BY DEF d
  <1>3. buf'[c] # <<>> /\ Len(buf'[c]) = 1 /\ buf'[c][1] = d
    BY <1>2
  <1>4. Result(c)' = d
    BY <1>3 DEF Result
  <1> QED
    BY <1>1, <1>4

LEMMA NoDocument ==
    ASSUME NEW c \in Clients, buf'[c] = <<>>
    PROVE  Result(c)'.told = "none"
  BY DEF Result, Doc

LEMMA AnsweredGood ==
    ASSUME Inv, SerialInv, NEW c \in Clients, NEW kinds, NEW place \in {"command", "turn"},
           During(c, place, kinds), UNCHANGED copy, Step,
           NEW docs \in Seq(Document), NEW code \in {0, 1, 3},
           Answers(c, docs, code), Honest(c, docs, code)
    PROVE  Good(c)
  <1>1. /\ pc[c] = place /\ pc[c] # "idle" /\ UNCHANGED <<server, req>>
        /\ Target(c) = c /\ buf[c] = <<>> /\ Served(c)
    BY DEF During, SerialInv, Served
  <1>2. c # Nobody
    BY NobodyAssumption
  <1>3. buf'[c] = docs
    <2>1. buf' = [buf EXCEPT ![c] = buf[c] \o docs]
      BY <1>1, <1>2 DEF Answers, Put
    <2>2. buf'[c] = <<>> \o docs
      BY <1>1, <2>1 DEF Inv, TypeOK
    <2> QED
      BY <2>2
  <1>4. exit'[c] = code
    BY DEF Answers, Ends, Inv, TypeOK
  <1>5. PICK p \in {"restore", "reply"} :
            /\ pc' = [pc EXCEPT ![c] = p]
            /\ p = "restore" <=> server = "asgi"
    BY DEF Answers, Ends
  <1>6. p \in Place /\ pc'[c] = p
    BY <1>5 DEF Place, Inv, TypeOK
  <1>7. Answered(c)'
    <2>1. CASE docs = <<>> /\ (req[c].kind = "close" => code # 0)
      <3>1. Result(c)'.told = "none"
        BY <1>3, <2>1, NoDocument
      <3> QED
        BY <1>1, <1>4, <2>1, <3>1 DEF Answered, Status
    <2>2. ASSUME NEW st \in Told, NEW q \in BOOLEAN, docs = <<Doc(c, st, q)>>,
                 st \in Status => st = session'.status,
                 req[c].kind = "close" /\ code = 0 => st = "closed"
          PROVE  Answered(c)'
      <3>1. Result(c)'.told = st
        BY <1>3, <2>2, OneDocument
      <3> QED
        BY <1>1, <1>4, <2>2, <3>1 DEF Answered
    <2> QED
      BY <2>1, <2>2 DEF Honest
  <1>8. Served(c)'
    BY <1>1, <1>5, <1>6, <1>7 DEF Served
  <1>9. SessionOK'
    BY StepOK DEF Inv, TypeOK, SerialInv
  <1>10. Owing(c)
    <2> SUFFICES ASSUME session' # session, session'.status \in Over,
                        server = "asgi", MaxTurns > 1
                 PROVE  Owes(c)'
      BY DEF Owing
    <2>1. /\ req[c].kind \in {"turn", "close"}
          /\ req[c].kind = "close" => code = 0
      BY DEF Honest
    <2>2. PICK q \in BOOLEAN : docs = <<Doc(c, session'.status, q)>>
      BY DEF Honest
    <2>3. session'.status \in Told
      BY DEF Over, Told, Status
    <2>4. Result(c)'.told = session'.status
      BY <1>3, <2>2, <2>3, OneDocument
    <2> QED
      BY <1>1, <1>4, <1>5, <1>6, <2>1, <2>4 DEF Owes, Complete
  <1> QED
    BY <1>1, <1>5, <1>6, <1>8, <1>9, <1>10, ServedOthers DEF Good

LEMMA EscapedGood ==
    ASSUME Inv, SerialInv, NEW c \in Clients, NEW kinds, NEW place \in {"command", "turn"},
           During(c, place, kinds), UNCHANGED <<session, copy>>,
           NEW docs \in Seq(Document), Escapes(c, docs)
    PROVE  Good(c)
  <1>1. /\ pc[c] = place /\ pc[c] # "idle" /\ UNCHANGED <<server, req>>
        /\ Target(c) = c /\ buf[c] = <<>> /\ Served(c)
    BY DEF During, SerialInv, Served
  <1>2. Step /\ Owing(c) /\ SessionOK'
    BY DEF Step, Owing, SerialInv, SessionOK
  <1>3. CASE server = "asgi"
    <2> DEFINE d == Doc(c, "error", FALSE)
    <2>1. c # Nobody /\ d.told = "error" /\ d \in Document
      BY NobodyAssumption, DocOK DEF Told
    <2>2. buf'[c] = docs \o <<d>>
      <3>1. Put(buf, c, docs) = [buf EXCEPT ![c] = buf[c] \o docs]
        BY <2>1 DEF Put
      <3>2. Put(buf, c, docs)[c] = docs
        BY <1>1, <3>1 DEF Inv, TypeOK
      <3>3. buf' = [Put(buf, c, docs) EXCEPT ![c] = @ \o <<d>>]
        BY <1>1, <1>3, <2>1 DEF Escapes, Put
      <3>4. Put(buf, c, docs) \in [Clients -> Seq(Document)]
        BY PutOK DEF Inv, TypeOK
      <3> QED
        BY <3>2, <3>3, <3>4
    <2> HIDE DEF d
    <2>3. Result(c)'.told = "error"
      <3>1. /\ buf'[c] # <<>> /\ Len(buf'[c]) = Len(docs) + 1
            /\ docs = <<>> => buf'[c][1] = d
            /\ Len(docs) \in Nat /\ (Len(docs) = 0 => docs = <<>>)
        BY <2>1, <2>2
      <3>2. CASE docs = <<>>
        <4>1. Len(docs) = 0
          BY <3>2
        <4> QED
          BY <2>1, <3>1, <3>2, <4>1 DEF Result
      <3>3. CASE docs # <<>>
        <4>1. Len(buf'[c]) # 1
          BY <3>1, <3>3
        <4> QED
          BY <3>1, <4>1 DEF Result, Doc
      <3> QED
        BY <3>2, <3>3
    <2>4. exit'[c] = 1 /\ pc' = [pc EXCEPT ![c] = "restore"] /\ pc'[c] = "restore"
      BY <1>3 DEF Escapes, Ends, Inv, TypeOK
    <2>5. Answered(c)'
      BY <2>3, <2>4 DEF Answered, Status
    <2>6. Served(c)' /\ "restore" \in Place
      BY <1>1, <1>3, <2>4, <2>5 DEF Served, Place
    <2> QED
      BY <1>1, <1>2, <2>4, <2>6, ServedOthers DEF Good
  <1>4. CASE server # "asgi"
    <2>1. pc' = [pc EXCEPT ![c] = "idle"] /\ "idle" \in Place /\ pc'[c] = "idle"
      BY <1>4 DEF Escapes, Place, Inv, TypeOK
    <2>2. Served(c)'
      BY <2>1 DEF Served, After
    <2> QED
      BY <1>1, <1>2, <2>1, <2>2, ServedOthers DEF Good
  <1> QED
    BY <1>3, <1>4

LEMMA TurnedGood ==
    ASSUME Inv, SerialInv, NEW c \in Clients, NEW kinds,
           During(c, "command", kinds), Step,
           session'.status \in Over => session' = session,
           NEW s, GoTurn(c, s),
           req[c].kind \in TurnKinds, server = "asgi" => req[c].kind # "stream",
           IF req[c].kind = "start"
           THEN session' = session /\ req[c].mode \in SessionMode
                /\ s = NewSession(req[c].mode)
           ELSE s = session' /\ session'.status \in Status
    PROVE  Good(c)
  <1>1. /\ pc[c] = "command" /\ UNCHANGED <<server, req, stdout, buf>>
        /\ Target(c) = c /\ buf[c] = <<>> /\ Served(c)
    BY DEF During, capture, GoTurn, SerialInv, Served
  <1>2. /\ pc' = [pc EXCEPT ![c] = "turn"] /\ "turn" \in Place
        /\ pc'[c] = "turn" /\ copy'[c] = s
    BY DEF GoTurn, Place, Inv, TypeOK
  <1>3. Working(c)'
    BY <1>1, <1>2 DEF Working, Served
  <1>4. Served(c)'
    BY <1>1, <1>2, <1>3 DEF Served, Target, After
  <1>5. SessionOK' /\ Owing(c)
    BY StepOK DEF Inv, TypeOK, SerialInv, Owing
  <1> QED
    BY <1>1, <1>2, <1>4, <1>5, ServedOthers DEF Good

LEMMA SavedGood ==
    ASSUME Inv, SerialInv, NEW c \in Clients, NEW kinds, NEW place \in {"command", "turn"},
           During(c, place, kinds), UNCHANGED copy, NEW s,
           NEW docs \in Seq(Document), NEW code \in {0, 1, 3},
           SavesThenAnswers(c, s, docs, code),
           session' = s => Step /\ Honest(c, docs, code)
    PROVE  Good(c)
  <1>1. CASE session' = s /\ Answers(c, docs, code)
    BY <1>1, AnsweredGood
  <1>2. CASE session' = session /\ Escapes(c, <<>>)
    BY <1>2, NothingToSay, EscapedGood
  <1> QED
    BY <1>1, <1>2 DEF SavesThenAnswers

LEMMA FailedGood ==
    ASSUME Inv, SerialInv, NEW c \in Clients, NEW kinds, NEW place \in {"command", "turn"},
           During(c, place, kinds), UNCHANGED copy, NEW s,
           NEW docs \in Seq(Document), AnswersThenSaves(c, s, docs),
           session' = s => Step /\ Honest(c, docs, 1)
    PROVE  Good(c)
  <1>1. CASE session' = s /\ Answers(c, docs, 1)
    BY <1>1, AnsweredGood
  <1>2. CASE session' = session /\ Escapes(c, docs)
    BY <1>2, EscapedGood
  <1> QED
    BY <1>1, <1>2 DEF AnswersThenSaves

-----------------------------------------------------------------------------
(* The commands.                                                           *)

LEMMA StartGood ==
    ASSUME Inv, SerialInv, NEW c \in Clients, Start(c)
    PROVE  Good(c)
  <1> DEFINE m == req[c].mode
  <1>1. /\ During(c, "command", {"start"}) /\ pc[c] = "command"
        /\ req[c].kind = "start" /\ Served(c)
    BY DEF Start, During, SerialInv
  <1>2. m \in SessionMode /\ session.status = "absent"
    BY <1>1 DEF Inv, Asked, Request, Served
  <1>3. CASE GoTurn(c, NewSession(m)) /\ UNCHANGED session
    <2>1. Step /\ req[c].kind \in TurnKinds
      BY <1>1, <1>3 DEF Step, TurnKinds
    <2> QED
      BY <1>1, <1>2, <1>3, <2>1, TurnedGood
  <1>4. CASE /\ SavesThenAnswers(c, NewSession(m), <<Doc(c, "active", FALSE)>>, 0)
             /\ UNCHANGED copy
    <2> DEFINE docs == <<Doc(c, "active", FALSE)>>
    <2>1. docs \in Seq(Document) /\ "active" \in Told
      BY DocsOK DEF Told, Status
    <2>2. ASSUME session' = NewSession(m) PROVE Step /\ Honest(c, docs, 0)
      <3>1. Step /\ session'.status = "active"
        BY <1>2, <2>2, BornOK DEF Step
      <3>2. session'.status \notin Over
        BY <3>1 DEF Over
      <3> QED
        BY <1>1, <2>1, <3>1, <3>2 DEF Honest
    <2> HIDE DEF docs
    <2>3. SavesThenAnswers(c, NewSession(m), docs, 0)
      BY <1>4 DEF docs
    <2> QED
      BY <1>1, <1>4, <2>1, <2>2, <2>3, SavedGood
  <1> QED
    BY <1>3, <1>4 DEF Start

(* A command that changes nothing and prints nothing, or raises.           *)
LEMMA SilentGood ==
    ASSUME Inv, SerialInv, NEW c \in Clients, NEW kinds, NEW place \in {"command", "turn"},
           During(c, place, kinds), UNCHANGED <<session, copy>>,
           Answers(c, <<>>, 1) \/ Escapes(c, <<>>)
    PROVE  Good(c)
  <1>1. Step /\ Honest(c, <<>>, 1)
    BY DEF Step, Honest
  <1> QED
    BY <1>1, NothingToSay, AnsweredGood, EscapedGood

LEMMA ApprovedGood ==
    ASSUME Inv, SerialInv, NEW c \in Clients, ContinueApproved(c)
    PROVE  Good(c)
  <1>1. /\ During(c, "command", {"turn"}) /\ req[c].kind = "turn"
        /\ session.status = "paused"
    BY DEF ContinueApproved, During
  <1>2. CASE session' = [session EXCEPT !.status = "active"]
    <2>1. Step /\ session'.status = "active" /\ "active" \in Status /\ "active" \notin Over
      BY <1>1, <1>2 DEF Step, Inv, TypeOK, Session, Status, Over
    <2>2. CASE GoTurn(c, session')
      BY <1>1, <2>1, <2>2, TurnedGood DEF TurnKinds
    <2>3. CASE Answers(c, <<Doc(c, "active", FALSE)>>, 0) /\ UNCHANGED copy
      <3>1. <<Doc(c, "active", FALSE)>> \in Seq(Document) /\ "active" \in Told
        BY <2>1, SaysStatus DEF Told
      <3>2. Honest(c, <<Doc(c, "active", FALSE)>>, 0)
        BY <1>1, <2>1, <3>1 DEF Honest
      <3> QED
        BY <1>1, <2>1, <2>3, <3>1, <3>2, AnsweredGood
    <2>4. CASE Answers(c, <<>>, 1) /\ UNCHANGED copy
      <3>1. Honest(c, <<>>, 1)
        BY <2>1 DEF Honest
      <3> QED
        BY <1>1, <2>1, <2>4, <3>1, NothingToSay, AnsweredGood
    <2>5. CASE Escapes(c, <<>>) /\ UNCHANGED work
      BY <1>1, <2>5, NothingToSay, EscapedGood DEF work
    <2> QED
      BY <2>2, <2>3, <2>4, <2>5 DEF ContinueApproved
  <1>3. CASE Escapes(c, <<>>) /\ UNCHANGED work
    BY <1>1, <1>3, NothingToSay, EscapedGood DEF work
  <1> QED
    BY <1>2, <1>3 DEF ContinueApproved

(* A close, by whichever command, that answers what it saved.              *)
LEMMA ClosedGood ==
    ASSUME Inv, SerialInv, NEW c \in Clients, NEW kinds,
           During(c, "command", kinds), kinds \subseteq {"turn", "close"},
           UNCHANGED copy,
           SavesThenAnswers(c, [session EXCEPT !.status = "closed"],
                            <<Doc(c, "closed", FALSE)>>, 0)
    PROVE  Good(c)
  <1> DEFINE docs == <<Doc(c, "closed", FALSE)>>
             s == [session EXCEPT !.status = "closed"]
  <1>1. /\ req[c].kind \in {"turn", "close"} /\ session.status \in Status
        /\ session \in Session
    BY DEF During, Inv, Asked, OfSession, TypeOK
  <1>2. docs \in Seq(Document) /\ "closed" \in Told /\ FALSE \in BOOLEAN
    BY DocsOK DEF Told, Status
  <1>3. ASSUME session' = s PROVE Step /\ Honest(c, docs, 0)
    <2>1. Step /\ session'.status = "closed"
      BY <1>1, <1>3 DEF Step, Session
    <2> QED
      BY <1>1, <1>2, <2>1 DEF Honest
  <1>4. SavesThenAnswers(c, s, docs, 0)
    OBVIOUS
  <1> HIDE DEF docs, s
  <1> QED
    BY <1>2, <1>3, <1>4, SavedGood

LEMMA PausedGood ==
    ASSUME Inv, SerialInv, NEW c \in Clients, ContinuePaused(c)
    PROVE  Good(c)
  <1>1. /\ During(c, "command", {"turn"}) /\ UNCHANGED copy
        /\ session.status = "paused" /\ req[c].kind = "turn"
    BY DEF ContinuePaused, During
  <1>2. CASE SavesThenAnswers(c, [session EXCEPT !.status = "closed"],
                              <<Doc(c, "closed", FALSE)>>, 0)
    BY <1>1, <1>2, ClosedGood
  <1>3. CASE Answers(c, <<Doc(c, "paused", FALSE)>>, 3) /\ UNCHANGED session
    <2>1. <<Doc(c, "paused", FALSE)>> \in Seq(Document) /\ "paused" \in Told
      BY DocsOK DEF Told, Status
    <2>2. Step /\ Honest(c, <<Doc(c, "paused", FALSE)>>, 3)
      BY <1>1, <1>3, <2>1 DEF Step, Honest
    <2> QED
      BY <1>1, <1>3, <2>1, <2>2, AnsweredGood
  <1> QED
    BY <1>2, <1>3 DEF ContinuePaused

LEMMA UnpausedGood ==
    ASSUME Inv, SerialInv, NEW c \in Clients, ContinueUnpaused(c)
    PROVE  Good(c)
  <1>1. /\ During(c, "command", {"turn"}) /\ req[c].kind = "turn"
        /\ UNCHANGED session /\ {"turn"} \subseteq OfSession
    BY DEF ContinueUnpaused, During, OfSession
  <1>2. session.status \in Status
    BY <1>1, SessionThere DEF Place
  <1>3. CASE GoTurn(c, session)
    <2>1. Step /\ req[c].kind \in TurnKinds
      BY <1>1 DEF Step, TurnKinds
    <2> QED
      BY <1>1, <1>2, <1>3, <2>1, TurnedGood
  <1>4. CASE Answers(c, <<>>, 1) /\ UNCHANGED copy
    BY <1>1, <1>4, SilentGood
  <1> QED
    BY <1>3, <1>4 DEF ContinueUnpaused

LEMMA StateGood ==
    ASSUME Inv, SerialInv, NEW c \in Clients, State(c)
    PROVE  Good(c)
  <1> DEFINE kinds == IF server = "asgi" THEN {"state", "stream"} ELSE {"state"}
             docs == <<Doc(c, session.status, FALSE)>>
  <1>1. /\ During(c, "command", kinds) /\ kinds \subseteq OfSession
        /\ UNCHANGED <<session, copy>> /\ req[c].kind # "close"
        /\ Answers(c, docs, 0)
    BY DEF State, During, OfSession, work
  <1>2. session.status \in Status
    BY <1>1, SessionThere DEF Place
  <1>3. docs \in Seq(Document) /\ session.status \in Told
    BY <1>2, SaysStatus DEF Told
  <1>4. Step /\ Honest(c, docs, 0)
    BY <1>1, <1>3 DEF Step, Honest
  <1> HIDE DEF kinds, docs
  <1> QED
    BY <1>1, <1>3, <1>4, AnsweredGood

LEMMA StreamTurnGood ==
    ASSUME Inv, SerialInv, NEW c \in Clients, StreamTurn(c)
    PROVE  Good(c)
  <1>1. /\ During(c, "command", {"stream"}) /\ req[c].kind = "stream"
        /\ UNCHANGED session /\ {"stream"} \subseteq OfSession /\ server # "asgi"
    BY DEF StreamTurn, During, OfSession
  <1>2. session.status \in Status
    BY <1>1, SessionThere DEF Place
  <1>3. CASE GoTurn(c, session)
    <2>1. Step /\ req[c].kind \in TurnKinds
      BY <1>1 DEF Step, TurnKinds
    <2> QED
      BY <1>1, <1>2, <1>3, <2>1, TurnedGood
  <1>4. CASE Answers(c, <<>>, 1) /\ UNCHANGED copy
    BY <1>1, <1>4, SilentGood
  <1> QED
    BY <1>3, <1>4 DEF StreamTurn

LEMMA RunGood ==
    ASSUME Inv, SerialInv, NEW c \in Clients, RunOrRunbook(c)
    PROVE  Good(c)
  <1>1. /\ During(c, "command", {"run", "runbook"}) /\ req[c].kind # "close"
        /\ UNCHANGED <<session, copy>>
    BY DEF RunOrRunbook, During, work
  <1>2. CASE Answers(c, <<Doc(c, "ok", FALSE)>>, 0)
    <2>1. <<Doc(c, "ok", FALSE)>> \in Seq(Document) /\ "ok" \in Told /\ "ok" \notin Status
      BY DocsOK DEF Told, Status
    <2>2. Step /\ Honest(c, <<Doc(c, "ok", FALSE)>>, 0)
      BY <1>1, <2>1 DEF Step, Honest
    <2> QED
      BY <1>1, <1>2, <2>1, <2>2, AnsweredGood
  <1>3. CASE Answers(c, <<>>, 1) \/ Escapes(c, <<>>)
    BY <1>1, <1>3, SilentGood
  <1> QED
    BY <1>2, <1>3 DEF RunOrRunbook

-----------------------------------------------------------------------------
(* The turns.                                                              *)

LEMMA WorksOn ==
    ASSUME Inv, SerialInv, NEW c \in Clients, During(c, "turn", TurnKinds)
    PROVE  Working(c) /\ copy[c] \in Session /\ copy[c].status \in Status
  BY CopyThere DEF During, SerialInv, Served

(* What a turn that failed may answer for the session s it then saves.     *)
LEMMA ErrorsHonest ==
    ASSUME NEW c \in Clients, NEW s \in Session, s.status \in Status, session' = s,
           req[c].kind \in TurnKinds,
           session' = session \/ s.status \notin Over
    PROVE  Honest(c, ErrorDocs(c, s), 1)
  <1>1. req[c].kind # "close" /\ s.status \in Told
    BY DEF TurnKinds, Told
  <1> QED
    BY <1>1 DEF Honest, ErrorDocs

LEMMA RefusedGood ==
    ASSUME Inv, SerialInv, NEW c \in Clients, TurnRefused(c)
    PROVE  Good(c)
  <1> DEFINE s == AfterRefusal(copy[c])
  <1>1. /\ During(c, "turn", TurnKinds) /\ Refused(copy[c]) /\ UNCHANGED copy
        /\ AnswersThenSaves(c, s, ErrorDocs(c, s)) /\ req[c].kind \in TurnKinds
    BY DEF TurnRefused, During
  <1>2. Working(c) /\ copy[c] \in Session /\ copy[c].status \in Status
    BY <1>1, WorksOn
  <1>3. copy[c].turns \in Nat /\ MaxTurns \in Nat
    BY <1>2, BoundsAssumption DEF Session
  <1>4. copy[c] = session /\ s = session
    <2>1. CASE req[c].kind = "start"
      <3>1. copy[c].status = "active" /\ copy[c].turns < MaxTurns
        BY <1>2, <2>1, BornOK DEF Working
      <3> QED
        BY <1>1, <1>3, <3>1 DEF Refused
    <2>2. CASE req[c].kind # "start"
      <3>1. copy[c] = session
        BY <1>2, <2>2 DEF Working
      <3>2. session.status # "active"
        <4>1. session.status = "active" => session.turns < MaxTurns
          BY DEF SerialInv, SessionOK
        <4> QED
          BY <1>1, <1>3, <3>1, <4>1 DEF Refused
      <3> QED
        BY <3>1, <3>2 DEF AfterRefusal
    <2> QED
      BY <2>1, <2>2
  <1> HIDE DEF s
  <1>5. ASSUME session' = s PROVE Step /\ Honest(c, ErrorDocs(c, s), 1)
    BY <1>1, <1>2, <1>4, <1>5, ErrorsHonest DEF Step
  <1>6. ErrorDocs(c, s) \in Seq(Document)
    BY <1>2, <1>4, ErrorDocsOK
  <1> QED
    BY <1>1, <1>5, <1>6, FailedGood

LEMMA RaisesGood ==
    ASSUME Inv, SerialInv, NEW c \in Clients, TurnRaises(c)
    PROVE  Good(c)
  <1> DEFINE s == copy[c]
  <1>1. /\ During(c, "turn", TurnKinds) /\ ~Refused(s) /\ UNCHANGED copy
        /\ AnswersThenSaves(c, s, ErrorDocs(c, s)) /\ req[c].kind \in TurnKinds
    BY DEF TurnRaises, During
  <1>2. Working(c) /\ s \in Session /\ s.status \in Status
    BY <1>1, WorksOn
  <1>3. s.status = "active" /\ "active" \notin Over
    BY <1>1 DEF Refused, Over
  <1>4. ASSUME session' = s PROVE Step
    BY <1>2, <1>4 DEF Step, Working
  <1>5. ErrorDocs(c, s) \in Seq(Document)
    BY <1>2, ErrorDocsOK
  <1>6. session' = s => Step /\ Honest(c, ErrorDocs(c, s), 1)
    BY <1>1, <1>2, <1>3, <1>4, ErrorsHonest
  <1> QED
    BY <1>1, <1>5, <1>6, FailedGood

LEMMA RunsGood ==
    ASSUME Inv, SerialInv, NEW c \in Clients, TurnRuns(c)
    PROVE  Good(c)
  <1> DEFINE s == RecordTurn(copy[c])
             pause == GateFires(copy[c])
             docs == <<Doc(c, s.status, pause)>>
  <1>1. /\ During(c, "turn", TurnKinds) /\ ~Refused(copy[c]) /\ UNCHANGED copy
        /\ req[c].kind \in TurnKinds
    BY DEF TurnRuns, During
  <1>2. PICK code \in {0, 1, 3} : SavesThenAnswers(c, s, docs, code)
    BY DEF TurnRuns
  <1>3. /\ Working(c) /\ copy[c] \in Session /\ copy[c].status = "active"
    BY <1>1, WorksOn DEF Refused
  <1>4. pause \in BOOLEAN
    BY DEF GateFires
  <1>5. s \in Session /\ s.status \in Status /\ s.status \in Told
    BY <1>1, <1>3, RecordTurnOK DEF Told
  <1>6. docs \in Seq(Document)
    BY <1>4, <1>5, DocsOK
  <1>7. ASSUME session' = s PROVE Step /\ Honest(c, docs, code)
    <2>1. Step
      <3>1. CASE req[c].kind = "start"
        BY <1>3, <1>7, <3>1 DEF Step, Working
      <3>2. CASE req[c].kind # "start"
        BY <1>3, <1>7, <3>2 DEF Step, Working
      <3> QED
        BY <3>1, <3>2
    <2>2. req[c].kind # "close"
      BY <1>1 DEF TurnKinds
    <2>3. ASSUME session'.status \in Over, server = "asgi", MaxTurns > 1
          PROVE  req[c].kind = "turn"
      <3>1. CASE req[c].kind = "start"
        <4>1. /\ copy[c].turns = 0 /\ copy[c].turns < MaxTurns
          BY <1>3, <3>1, BornOK DEF Working
        <4>2. s.status = IF copy[c].turns + 1 >= MaxTurns THEN "at_limit"
                         ELSE IF GateFires(copy[c]) THEN "paused" ELSE "active"
          BY <1>1, <1>3, RecordTurnOK
        <4>3. ~(1 >= MaxTurns)
          BY <2>3, BoundsAssumption
        <4> QED
          BY <1>7, <2>3, <4>1, <4>2, <4>3 DEF Over
      <3>2. CASE req[c].kind # "start"
        BY <1>1, <1>3, <2>3, <3>2 DEF Working, TurnKinds
      <3> QED
        BY <3>1, <3>2
    <2> HIDE DEF s, pause
    <2> QED
      BY <1>4, <1>5, <1>7, <2>1, <2>2, <2>3 DEF Honest
  <1> HIDE DEF s, docs
  <1> QED
    BY <1>1, <1>2, <1>6, <1>7, SavedGood

LEMMA CommandGood ==
    ASSUME Inv, SerialInv, NEW c \in Clients, Command(c)
    PROVE  Good(c)
  <1>1. CASE NotLoaded(c)
    BY <1>1, SilentGood DEF NotLoaded, work
  <1>2. CASE Close(c)
    BY <1>2, ClosedGood DEF Close
  <1>3. CASE TurnNotBuilt(c)
    BY <1>3, SilentGood DEF TurnNotBuilt, work
  <1> QED
    BY <1>1, <1>2, <1>3, StartGood, ApprovedGood, PausedGood, UnpausedGood, StateGood,
       StreamTurnGood, RunGood, RefusedGood, RaisesGood, RunsGood DEF Command

-----------------------------------------------------------------------------
(* What the bus and the webhooks tell.                                     *)

HooksTell ==
    (\E i \in 1..Len(hooks) : hooks[i] = "SESSION_COMPLETE") => session.status \in Over

NoEnd == \A i \in 1..Len(log) : log[i].event # "session_closed"

(* The last ending on the bus is the one the session has.                  *)
Ended ==
    \E i \in 1..Len(log) :
        /\ log[i].event = "session_closed" /\ log[i].told = session.status
        /\ \A j \in 1..Len(log) : log[j].event = "session_closed" => j <= i

EndsTell ==
    server = "asgi" /\ MaxTurns > 1 =>
        IF session.status \in Over THEN Ended \/ \E c \in Clients : Owes(c) ELSE NoEnd

ToldInv == HooksTell /\ EndsTell

LEMMA HooksStay ==
    ASSUME Inv, HooksTell, UNCHANGED session, NEW h \in Hook,
           hooks' = hooks \/ hooks' = Append(hooks, h),
           h = "SESSION_COMPLETE" => session.status \in Over
    PROVE  HooksTell'
  <1>1. CASE hooks' = hooks
    BY <1>1 DEF HooksTell
  <1>2. CASE hooks' = Append(hooks, h)
    <2>1. /\ Len(hooks') = Len(hooks) + 1 /\ Len(hooks) \in Nat
          /\ hooks'[Len(hooks) + 1] = h
          /\ \A i \in 1..Len(hooks) : hooks'[i] = hooks[i]
      BY <1>2, AppendOK DEF Inv, TypeOK
    <2>2. ASSUME NEW i \in 1..Len(hooks'), hooks'[i] = "SESSION_COMPLETE"
          PROVE  session.status \in Over
      <3>1. i \in 1..Len(hooks) \/ i = Len(hooks) + 1
        BY <2>1
      <3> QED
        BY <2>1, <2>2, <3>1 DEF HooksTell
    <2> QED
      BY <2>2 DEF HooksTell
  <1> QED
    BY <1>1, <1>2

(* An event that is no ending, or none, while every debt stays.            *)
LEMMA EndsStay ==
    ASSUME Inv, EndsTell, UNCHANGED <<server, session>>,
           \A d \in Clients : Owes(d) => Owes(d)',
           NEW e \in Event, e.event # "session_closed",
           log' = log \/ log' = Append(log, e)
    PROVE  EndsTell'
  <1>1. CASE log' = log
    BY <1>1 DEF EndsTell, NoEnd, Ended
  <1>2. CASE log' = Append(log, e)
    <2>1. /\ Len(log') = Len(log) + 1 /\ Len(log) \in Nat
          /\ log'[Len(log) + 1] = e
          /\ \A i \in 1..Len(log) : log'[i] = log[i]
      BY <1>2, AppendOK DEF Inv, TypeOK
    <2>2. \A i \in 1..Len(log') :
              i \in 1..Len(log) \/ log'[i].event # "session_closed"
      BY <2>1
    <2>3. \A i \in 1..Len(log) : i \in 1..Len(log')
      BY <2>1
    <2>4. NoEnd => NoEnd'
      BY <2>1, <2>2 DEF NoEnd
    <2>5. Ended => Ended'
      BY <2>1, <2>2, <2>3 DEF Ended
    <2> QED
      BY <2>4, <2>5 DEF EndsTell
  <1> QED
    BY <1>1, <1>2

(* The ending that is owed is told.                                        *)
LEMMA EndingIsTold ==
    ASSUME Inv, UNCHANGED <<server, session>>, session.status \in Over,
           NEW e \in Event, e.event = "session_closed", e.told = session.status,
           log' = Append(log, e)
    PROVE  EndsTell'
  <1>1. /\ Len(log') = Len(log) + 1 /\ Len(log) \in Nat
        /\ log'[Len(log) + 1] = e
    BY AppendOK DEF Inv, TypeOK
  <1>2. Len(log) + 1 \in 1..Len(log') /\ \A j \in 1..Len(log') : j <= Len(log) + 1
    BY <1>1
  <1>3. Ended'
    BY <1>1, <1>2 DEF Ended
  <1> QED
    BY <1>3 DEF EndsTell

(* Only the request that is served may owe an announcement.                *)
LEMMA OthersOweNothing ==
    ASSUME Inv, SerialInv, NEW c \in Clients, pc[c] # "idle",
           NEW d \in Clients, d # c
    PROVE  ~Owes(d)
  BY DEF SerialInv, OneBusy, Owes, Inv, TypeOK

PlainEvent == [event |-> "turn_started", told |-> "none"]

LEMMA Plain == PlainEvent \in Event /\ PlainEvent.event # "session_closed"
  BY DEF PlainEvent, Event, Told

LEMMA NothingTold ==
    ASSUME Inv, ToldInv, UNCHANGED <<server, session, log, hooks>>,
           \A d \in Clients : Owes(d) => Owes(d)'
    PROVE  ToldInv'
  <1>1. EndsTell'
    BY Plain, EndsStay DEF ToldInv
  <1>2. HooksTell'
    BY DEF ToldInv, HooksTell
  <1> QED
    BY <1>1, <1>2 DEF ToldInv

LEMMA CommandTold ==
    ASSUME Inv, SerialInv, ToldInv, NEW c \in Clients, Command(c)
    PROVE  ToldInv'
  <1>1. SerialInv' /\ Step /\ Owing(c)
    BY CommandGood DEF Good
  <1>2. /\ pc[c] \in {"command", "turn"} /\ UNCHANGED <<server, log, hooks>>
    BY DEF Command, Start, NotLoaded, ContinueApproved, ContinuePaused,
           ContinueUnpaused, Close, State, StreamTurn, RunOrRunbook, TurnRefused,
           TurnRaises, TurnNotBuilt, TurnRuns, During, told
  <1>3. \A d \in Clients : ~Owes(d)
    BY <1>2, OthersOweNothing DEF Owes
  <1>4. session.status \in Over => session'.status \in Over
    BY <1>1, OverStays DEF Inv, TypeOK
  <1>5. HooksTell'
    BY <1>2, <1>4 DEF ToldInv, HooksTell
  <1>6. EndsTell'
    <2>1. CASE session' = session
      BY <1>2, <1>3, <2>1 DEF ToldInv, EndsTell, Ended, NoEnd
    <2>2. CASE session' # session
      BY <1>1, <1>2, <1>4, <2>2 DEF ToldInv, EndsTell, Owing, NoEnd
    <2> QED
      BY <2>1, <2>2
  <1> QED
    BY <1>5, <1>6 DEF ToldInv

-----------------------------------------------------------------------------
(* The servers' own steps.                                                 *)

LEMMA ArriveSerial ==
    ASSUME ~Overlap, Inv, SerialInv, ToldInv, NEW c \in Clients, NEW r \in Request,
           Arrive(c, r)
    PROVE  SerialInv' /\ ToldInv'
  <1>1. /\ \A d \in Clients : pc[d] = "idle"
        /\ UNCHANGED <<server, session, copy, stdout, exit, hooks>>
        /\ req'[c] = r /\ buf'[c] = <<>>
    BY DEF Arrive, Quiet, work, capture, Inv, TypeOK
  <1>2. PICK p \in {"invoke", "command"} :
            /\ pc' = [pc EXCEPT ![c] = p] /\ pc'[c] = p
            /\ p = "invoke" <=> server = "asgi"
    BY DEF Arrive, Inv, TypeOK
  <1>3. \A d \in Clients : d # c => pc'[d] = "idle"
    BY <1>1, <1>2 DEF Inv, TypeOK
  <1>4. r.kind = "start" => session.status = "absent"
    BY DEF Arrive
  <1>5. Served(c)'
    BY <1>1, <1>2, <1>4 DEF Served, Target, After
  <1>6. SerialInv'
    BY <1>1, <1>3, <1>5 DEF SerialInv, OneBusy, SessionOK, Served, After
  <1>7. HooksTell'
    BY <1>1 DEF ToldInv, HooksTell
  <1>8. EndsTell'
    <2>1. \A d \in Clients : ~Owes(d)
      BY <1>1 DEF Owes
    <2>2. log' = log \/ log' = Append(log, PlainEvent)
      BY DEF Arrive, PlainEvent
    <2> QED
      BY <1>1, <2>1, <2>2, Plain, EndsStay DEF ToldInv
  <1> QED
    BY <1>6, <1>7, <1>8 DEF ToldInv

(* A step of the request that is served, its command apart.                *)
LEMMA ServerStep ==
    ASSUME Inv, SerialInv, NEW c \in Clients, pc[c] # "idle", NEW p \in Place,
           pc' = [pc EXCEPT ![c] = p], UNCHANGED session, Served(c)'
    PROVE  /\ SerialInv' /\ pc'[c] = p
           /\ (Owes(c) => Owes(c)') => \A d \in Clients : Owes(d) => Owes(d)'
  <1>1. SerialInv'
    BY ServedOthers DEF SerialInv, SessionOK
  <1>2. pc'[c] = p
    BY DEF Inv, TypeOK
  <1>3. ASSUME Owes(c) => Owes(c)', NEW d \in Clients PROVE Owes(d) => Owes(d)'
    BY <1>3, OthersOweNothing
  <1> QED
    BY <1>1, <1>2, <1>3

LEMMA RedirectSerial ==
    ASSUME Inv, SerialInv, ToldInv, NEW c \in Clients, Redirect(c)
    PROVE  SerialInv' /\ ToldInv'
  <1>1. /\ pc[c] = "invoke" /\ pc' = [pc EXCEPT ![c] = "command"] /\ "command" \in Place
        /\ UNCHANGED <<server, session, copy, req, buf, exit, log, hooks>>
        /\ stdout' = c /\ Served(c)
    BY DEF Redirect, work, told, Place, SerialInv
  <1>2. pc'[c] = "command"
    BY <1>1 DEF Inv, TypeOK
  <1>3. Served(c)'
    BY <1>1, <1>2 DEF Served, Target, After
  <1>4. ~Owes(c)
    BY <1>1 DEF Owes
  <1>5. SerialInv' /\ \A d \in Clients : Owes(d) => Owes(d)'
    BY <1>1, <1>3, <1>4, ServerStep
  <1> QED
    BY <1>1, <1>5, NothingTold

LEMMA RestoreSerial ==
    ASSUME Inv, SerialInv, ToldInv, NEW c \in Clients, Restore(c)
    PROVE  SerialInv' /\ ToldInv'
  <1>1. /\ pc[c] = "restore" /\ pc' = [pc EXCEPT ![c] = "publish"] /\ "publish" \in Place
        /\ UNCHANGED <<server, session, copy, req, buf, exit, log, hooks>>
        /\ Served(c)
    BY DEF Restore, work, told, Place, SerialInv
  <1>2. pc'[c] = "publish"
    BY <1>1 DEF Inv, TypeOK
  <1>3. Answered(c)' /\ (Owes(c) => Owes(c)')
    BY <1>1, <1>2 DEF Served, After, Answered, Result, Owes, Complete
  <1>4. Served(c)'
    BY <1>1, <1>2, <1>3 DEF Served
  <1>5. SerialInv' /\ \A d \in Clients : Owes(d) => Owes(d)'
    BY <1>1, <1>3, <1>4, ServerStep
  <1> QED
    BY <1>1, <1>5, NothingTold

LEMMA PublishesSerial ==
    ASSUME Inv, SerialInv, ToldInv, NEW c \in Clients, Publishes(c)
    PROVE  SerialInv' /\ ToldInv'
  <1>1. /\ pc[c] = "publish"
        /\ UNCHANGED <<server, session, copy, req, buf, exit>> /\ Served(c)
    BY DEF Publishes, work, SerialInv
  <1>2. PICK p \in {"announce", "idle"} :
            /\ pc' = [pc EXCEPT ![c] = p]
            /\ p = "announce" <=> req[c].kind \in {"turn", "close"}
    BY DEF Publishes
  <1>3. p \in Place /\ pc'[c] = p
    BY <1>2 DEF Place, Inv, TypeOK
  <1>4. Answered(c)' /\ (Owes(c) => Owes(c)')
    BY <1>1, <1>2, <1>3 DEF Served, After, Answered, Result, Owes, Complete
  <1>5. Served(c)'
    BY <1>1, <1>2, <1>3, <1>4 DEF Served, After
  <1>6. SerialInv' /\ \A d \in Clients : Owes(d) => Owes(d)'
    BY <1>1, <1>2, <1>3, <1>4, <1>5, ServerStep
  <1>7. HooksTell'
    <2>1. hooks' = hooks \/ hooks' = Append(hooks, "RUNBOOK_COMPLETE")
      BY DEF Publishes
    <2> QED
      BY <1>1, <2>1, HooksStay DEF ToldInv, Hook
  <1>8. EndsTell'
    <2>1. ASSUME NEW name \in {"session_state", "turn_completed"}, NEW t \in Told,
                 log' = Publish(name, t)
          PROVE  EndsTell'
      <3> DEFINE e == [event |-> name, told |-> t]
      <3>1. e \in Event /\ e.event # "session_closed"
        BY EventOK
      <3>2. log' = Append(log, e)
        BY <2>1 DEF Publish
      <3> HIDE DEF e
      <3> QED
        BY <1>1, <1>6, <3>1, <3>2, EndsStay DEF ToldInv
    <2>2. CASE log' = log
      BY <1>1, <1>6, <2>2, Plain, EndsStay DEF ToldInv
    <2>3. Result(c).told \in Told /\ "ok" \in Told
      BY ResultType DEF Inv, Document, Told
    <2>4. \/ log' = Publish("turn_completed", Result(c).told)
          \/ log' = Publish("session_state", "ok")
          \/ log' = Publish("session_state", Result(c).told)
          \/ log' = log
      BY DEF Publishes
    <2> QED
      BY <2>1, <2>2, <2>3, <2>4
  <1> QED
    BY <1>6, <1>7, <1>8 DEF ToldInv

LEMMA AnnouncesSerial ==
    ASSUME Inv, SerialInv, ToldInv, NEW c \in Clients, Announces(c)
    PROVE  SerialInv' /\ ToldInv'
  <1> DEFINE r == Result(c)
             gate == req[c].kind = "turn" /\ r.told = "paused"
  <1>1. /\ pc[c] = "announce" /\ pc' = [pc EXCEPT ![c] = "idle"] /\ "idle" \in Place
        /\ UNCHANGED <<server, session, copy, req, buf, exit>>
        /\ Served(c) /\ Answered(c)
    BY DEF Announces, work, Place, SerialInv, Served, After
  <1>2. pc'[c] = "idle"
    BY <1>1 DEF Inv, TypeOK
  <1>3. Served(c)'
    BY <1>2 DEF Served, After
  <1>4. SerialInv' /\ ((Owes(c) => Owes(c)') => \A d \in Clients : Owes(d) => Owes(d)')
    BY <1>1, <1>3, ServerStep
  <1>5. r.told \in Told
    BY ResultType DEF Inv, Document
  <1>6. CASE gate
    <2>1. ~Owes(c)
      BY <1>1, <1>6 DEF Owes, Complete, Over
    <2>2. hooks' = Append(hooks, "STEWARD_GATE_TRIGGERED")
      BY <1>6 DEF Announces
    <2>3. HooksTell'
      BY <1>1, <2>2, HooksStay DEF ToldInv, Hook
    <2>4. EndsTell'
      <3> DEFINE e == [event |-> "steward_gate_triggered", told |-> r.told]
      <3>1. e \in Event /\ e.event # "session_closed"
        BY <1>5, EventOK
      <3>2. log' = Append(log, e)
        BY <1>6 DEF Announces, Publish
      <3> HIDE DEF e
      <3> QED
        BY <1>1, <1>4, <2>1, <3>1, <3>2, EndsStay DEF ToldInv
    <2> QED
      BY <1>4, <2>3, <2>4 DEF ToldInv
  <1>7. CASE ~gate /\ ~Complete(c)
    <2>1. ~Owes(c) /\ log' = log /\ hooks' = hooks
      BY <1>7 DEF Owes, Announces
    <2> QED
      BY <1>1, <1>4, <2>1, NothingTold
  <1>8. CASE ~gate /\ Complete(c)
    <2>1. r.told \in Over /\ r.told = session.status
      <3>1. CASE req[c].kind = "turn"
        BY <1>1, <1>8, <3>1 DEF Complete, Answered, Over, Status
      <3>2. CASE req[c].kind # "turn"
        <4>1. req[c].kind = "close"
          BY <1>1, <3>2 DEF Served
        <4>2. r.told = "closed"
          BY <1>1, <1>8, <3>2, <4>1 DEF Complete, Answered
        <4> QED
          BY <1>1, <4>2 DEF Answered, Over, Status
      <3> QED
        BY <3>1, <3>2
    <2>2. HooksTell'
      <3>1. hooks' = Append(hooks, "SESSION_COMPLETE")
        BY <1>8 DEF Announces
      <3> QED
        BY <1>1, <2>1, <3>1, HooksStay DEF ToldInv, Hook
    <2>3. EndsTell'
      <3> DEFINE e == [event |-> "session_closed", told |-> r.told]
      <3>1. e \in Event /\ e.event = "session_closed" /\ e.told = session.status
        BY <1>5, <2>1, EventOK
      <3>2. log' = Append(log, e)
        BY <1>8 DEF Announces, Publish
      <3> HIDE DEF e
      <3> QED
        BY <1>1, <2>1, <3>1, <3>2, EndingIsTold
    <2> QED
      BY <1>4, <2>2, <2>3 DEF ToldInv
  <1> QED
    BY <1>6, <1>7, <1>8

LEMMA ReplySerial ==
    ASSUME Inv, SerialInv, ToldInv, NEW c \in Clients, Reply(c)
    PROVE  SerialInv' /\ ToldInv'
  <1>1. /\ pc[c] = "reply"
        /\ UNCHANGED <<server, session, copy, req, buf, exit, log, hooks>>
        /\ Served(c)
    BY DEF Reply, work, told, SerialInv
  <1>2. PICK p \in {"hook", "idle"} : pc' = [pc EXCEPT ![c] = p]
    BY DEF Reply
  <1>3. p \in Place /\ pc'[c] = p /\ ~Owes(c)
    BY <1>1, <1>2 DEF Place, Owes, Inv, TypeOK
  <1>4. Answered(c)'
    BY <1>1 DEF Served, After, Answered, Result
  <1>5. Served(c)'
    BY <1>1, <1>2, <1>3, <1>4 DEF Served, After
  <1>6. SerialInv' /\ \A d \in Clients : Owes(d) => Owes(d)'
    BY <1>1, <1>2, <1>3, <1>5, ServerStep
  <1> QED
    BY <1>1, <1>6, NothingTold

LEMMA DispatchesSerial ==
    ASSUME Inv, SerialInv, ToldInv, NEW c \in Clients, Dispatches(c)
    PROVE  SerialInv' /\ ToldInv'
  <1>1. /\ pc[c] = "hook" /\ pc' = [pc EXCEPT ![c] = "idle"] /\ "idle" \in Place
        /\ UNCHANGED <<server, session, copy, req, buf, exit, log>>
        /\ Served(c) /\ Answered(c) /\ server # "asgi"
    BY DEF Dispatches, work, Place, SerialInv, Served, After
  <1>2. pc'[c] = "idle"
    BY <1>1 DEF Inv, TypeOK
  <1>3. Served(c)'
    BY <1>2 DEF Served, After
  <1>4. SerialInv'
    BY <1>1, <1>3, ServerStep
  <1>5. HooksTell'
    <2>1. CASE Result(c).told = "closed" /\ hooks' = Append(hooks, "SESSION_COMPLETE")
      <3>1. session.status \in Over
        BY <1>1, <2>1 DEF Answered, Status, Over
      <3> QED
        BY <1>1, <2>1, <3>1, HooksStay DEF ToldInv, Hook
    <2>2. ASSUME NEW h \in {"STEWARD_GATE_TRIGGERED", "RUNBOOK_COMPLETE"},
                 hooks' = hooks \/ hooks' = Append(hooks, h)
          PROVE  HooksTell'
      BY <1>1, <2>2, HooksStay DEF ToldInv, Hook
    <2> QED
      BY <2>1, <2>2 DEF Dispatches
  <1>6. EndsTell'
    BY <1>1 DEF EndsTell
  <1> QED
    BY <1>4, <1>5, <1>6 DEF ToldInv

(* The streams, and a step of nobody.                                      *)
LEMMA StreamsSerial ==
    ASSUME Inv, SerialInv, ToldInv,
           UNCHANGED vars \/ \E s \in Streams : Streaming(s) \/ Leave(s)
    PROVE  SerialInv' /\ ToldInv'
  <1>1. UNCHANGED <<server, session, copy, pc, req, stdout, buf, exit, log, hooks>>
    BY DEF vars, Streaming, Poll, Send, Leave, work, capture, told
  <1>2. SerialInv'
    <2>1. OneBusy' /\ SessionOK'
      BY <1>1 DEF SerialInv, OneBusy, SessionOK
    <2>2. ASSUME NEW c \in Clients PROVE Served(c)'
      <3>1. Served(c)
        BY DEF SerialInv
      <3>2. Target(c)' = Target(c) /\ Result(c)' = Result(c)
        BY <1>1 DEF Target, Result
      <3>3. (Working(c) => Working(c)') /\ (Answered(c) => Answered(c)')
        BY <1>1, <3>2 DEF Working, Answered
      <3> QED
        BY <1>1, <3>1, <3>2, <3>3 DEF Served
    <2> QED
      BY <2>1, <2>2 DEF SerialInv
  <1>3. ToldInv'
    BY <1>1 DEF ToldInv, HooksTell, EndsTell, NoEnd, Ended, Owes, Complete, Result
  <1> QED
    BY <1>2, <1>3

-----------------------------------------------------------------------------
(* The invariant.                                                          *)

LEMMA SerialInit == Init => SerialInv /\ ToldInv
  <1> SUFFICES ASSUME Init PROVE SerialInv /\ ToldInv
    OBVIOUS
  <1>1. \A c \in Clients : pc[c] = "idle"
    BY DEF Init
  <1>2. SerialInv
    BY <1>1 DEF SerialInv, OneBusy, SessionOK, Served, After, Init
  <1>3. log = <<>> /\ hooks = <<>> /\ session.status \notin Over
    BY DEF Init, Over
  <1> QED
    BY <1>2, <1>3 DEF ToldInv, HooksTell, EndsTell, NoEnd

LEMMA SerialNext ==
    ASSUME ~Overlap
    PROVE  Inv /\ SerialInv /\ ToldInv /\ [Next]_vars => SerialInv' /\ ToldInv' /\ Step
  <1> SUFFICES ASSUME Inv, SerialInv, ToldInv, [Next]_vars
               PROVE  SerialInv' /\ ToldInv' /\ Step
    OBVIOUS
  <1>1. ASSUME NEW c \in Clients, Command(c) PROVE SerialInv' /\ ToldInv' /\ Step
    BY <1>1, CommandGood, CommandTold DEF Good
  <1>2. ASSUME NEW c \in Clients, NEW r \in Request, Arrive(c, r)
        PROVE  SerialInv' /\ ToldInv' /\ Step
    BY <1>2, ArriveSerial DEF Arrive, work, Step
  <1>3. ASSUME NEW c \in Clients,
               \/ Redirect(c) \/ Restore(c) \/ Publishes(c) \/ Announces(c)
               \/ Reply(c) \/ Dispatches(c)
        PROVE  SerialInv' /\ ToldInv' /\ Step
    <2>1. Step
      BY <1>3 DEF Redirect, Restore, Publishes, Announces, Reply, Dispatches, work, Step
    <2> QED
      BY <1>3, <2>1, RedirectSerial, RestoreSerial, PublishesSerial, AnnouncesSerial,
         ReplySerial, DispatchesSerial
  <1>4. CASE UNCHANGED vars \/ \E s \in Streams : Streaming(s) \/ Leave(s)
    <2>1. Step
      BY <1>4 DEF vars, Streaming, Poll, Send, Leave, work, Step
    <2> QED
      BY <1>4, <2>1, StreamsSerial
  <1> QED
    BY <1>1, <1>2, <1>3, <1>4 DEF Next, Serve

LEMMA SerialInvariance ==
    ASSUME ~Overlap PROVE Spec => [](Inv /\ SerialInv /\ ToldInv)
  <1>1. Init => Inv /\ SerialInv /\ ToldInv
    BY InitInv, SerialInit
  <1>2. Inv /\ SerialInv /\ ToldInv /\ [Next]_vars => (Inv /\ SerialInv /\ ToldInv)'
    BY NextInv, SerialNext
  <1> QED
    BY <1>1, <1>2, PTL DEF Spec

-----------------------------------------------------------------------------
(* The theorems.                                                           *)

(* Once its command ended, no request is told a status the file does not   *)
(* hold, though error paths print before they save and saves fail.         *)
THEOREM AnswersAreTrue ==
    ASSUME ~Overlap PROVE Spec => []AnswersTrue
  <1>1. SerialInv => AnswersTrue
    BY DEF SerialInv, Served, After, Answered, AnswersTrue
  <1> QED
    BY <1>1, SerialInvariance, PTL

(* When the ASGI server is quiet, the bus tells of an ending exactly when  *)
(* the session has one, and the last it tells is the one it has.           *)
THEOREM EndingsAreTold ==
    ASSUME ~Overlap PROVE Spec => []EndingsTold
  <1>1. ASSUME Inv, ToldInv PROVE EndingsTold
    <2> DEFINE ends == {i \in 1..Len(log) : log[i].event = "session_closed"}
    <2> SUFFICES ASSUME server = "asgi", Quiet, MaxTurns > 1
                 PROVE  IF session.status \in Over
                        THEN \E i \in ends : /\ log[i].told = session.status
                                             /\ \A j \in ends : j <= i
                        ELSE ends = {}
      BY DEF EndingsTold
    <2>1. \A c \in Clients : ~Owes(c)
      BY DEF Quiet, Owes
    <2>2. IF session.status \in Over THEN Ended ELSE NoEnd
      BY <1>1, <2>1 DEF ToldInv, EndsTell
    <2> QED
      BY <2>2 DEF Ended, NoEnd
  <1> QED
    BY <1>1, SerialInvariance, PTL

(* A webhook that says a session is complete is the last word: the session *)
(* is over, and no turn is recorded in it afterwards, on either server.    *)
THEOREM CompleteStaysFinal ==
    ASSUME ~Overlap PROVE Spec => CompleteIsFinal
  <1>1. Inv /\ SerialInv /\ ToldInv /\ [Next]_vars =>
            ((\E i \in 1..Len(hooks) : hooks[i] = "SESSION_COMPLETE")
             => session.status \in Over /\ session'.turns = session.turns)
    <2> SUFFICES ASSUME Inv, SerialInv, ToldInv, [Next]_vars,
                        \E i \in 1..Len(hooks) : hooks[i] = "SESSION_COMPLETE"
                 PROVE  session.status \in Over /\ session'.turns = session.turns
      OBVIOUS
    <2>1. session.status \in Over
      BY DEF ToldInv, HooksTell
    <2>2. Step /\ session \in Session
      BY SerialNext DEF Inv, TypeOK
    <2> QED
      BY <2>1, <2>2, OverStays
  <1> QED
    BY <1>1, SerialInvariance, PTL DEF Spec, CompleteIsFinal

(* The history of n turns, as the lifecycle sees it.                       *)
LEMMA Histories ==
    ASSUME NEW n \in Nat
    PROVE  LET h == [i \in 1..n |-> i] IN
           /\ Len(h) = n /\ \A i \in 1..n : h[i] = i
           /\ Append(h, n + 1) = [i \in 1..(n + 1) |-> i]
  <1> DEFINE h == [i \in 1..n |-> i]
             k == [i \in 1..(n + 1) |-> i]
  <1>1. h \in Seq(Nat) /\ k \in Seq(Nat) /\ Len(h) = n /\ Len(k) = n + 1
    OBVIOUS
  <1>2. Append(h, n + 1) \in Seq(Nat) /\ Len(Append(h, n + 1)) = n + 1
    BY <1>1
  <1>3. \A i \in 1..(n + 1) : Append(h, n + 1)[i] = k[i]
    BY <1>1
  <1>4. Append(h, n + 1) = k
    BY <1>1, <1>2, <1>3, SeqEqual
  <1> QED
    BY <1>1, <1>4

LEMMA NoHistory == [i \in 1..0 |-> i] = <<>>
  <1>1. [i \in 1..0 |-> i] \in Seq(Nat) /\ Len([i \in 1..0 |-> i]) = 0
    OBVIOUS
  <1> QED
    BY <1>1

LEMMA SameBoundary ==
    ASSUME NEW s \in Session
    PROVE  (IF s.turns + 1 >= MaxTurns THEN "at_limit"
            ELSE IF GateFires(s) THEN "paused" ELSE "active")
           = LC!Boundary(s.mode, s.turns + 1)
  <1> DEFINE k == s.turns + 1
  <1>1. k - 1 = s.turns
    BY DEF Session
  <1> HIDE DEF k
  <1>2. GateFires(s) <=> LC!GateCheck(s.mode, Thresholds, k - 1, 0, {}) # LC!NoPause
    BY <1>1
       DEF GateFires, GateCheck, LC!GateCheck, EvaluateThresholds,
           LC!EvaluateThresholds, StepCountFires, LC!StepCountFires, TokenBudgetFires,
           LC!TokenBudgetFires, CapabilityFires, LC!CapabilityFires, Declared,
           LC!Declared, NoPause, LC!NoPause
  <1>3. (IF k >= MaxTurns THEN "at_limit" ELSE IF GateFires(s) THEN "paused" ELSE "active")
        = LC!Boundary(s.mode, k)
    BY <1>2 DEF LC!Boundary
  <1> QED
    BY <1>3 DEF k

LEMMA StepFollows ==
    ASSUME session \in Session, SessionOK, Step
    PROVE  [LC!Next]_(LC!lifecycle)
  <1>1. CASE session' = session
    BY <1>1 DEF LC!lifecycle
  <1>2. ASSUME NEW m \in SessionMode, session.status = "absent", session' = NewSession(m)
        PROVE  LC!Next
    <2>1. session'.status = "active" /\ session'.mode = m /\ session'.turns = 0
      BY <1>2, BornOK
    <2>2. LC!Start(m)
      BY <1>2, <2>1, NoHistory DEF LC!Start
    <2> QED
      BY <2>2 DEF LC!Next, LC!SessionMode, SessionMode
  <1>3. ASSUME NEW m \in SessionMode, session.status = "absent",
               session' = RecordTurn(NewSession(m))
        PROVE  LC!Next
    <2> DEFINE b == NewSession(m)
    <2>1. /\ b \in Session /\ b.status = "active" /\ b.turns = 0 /\ b.turns < MaxTurns
          /\ b.mode = m
      BY BornOK
    <2> HIDE DEF b
    <2>2. session' = RecordTurn(b)
      BY <1>3 DEF b
    <2>3. /\ session'.mode = m /\ session'.turns = 1
          /\ session'.status = IF b.turns + 1 >= MaxTurns THEN "at_limit"
                               ELSE IF GateFires(b) THEN "paused" ELSE "active"
      BY <2>1, <2>2, RecordedOK
    <2>4. session'.status = LC!Boundary(m, 1)
      BY <2>1, <2>3, SameBoundary
    <2>5. [i \in 1..session'.turns |-> i] = <<1>>
      <3>1. Append([i \in 1..0 |-> i], 0 + 1) = [i \in 1..(0 + 1) |-> i]
        BY Histories
      <3> QED
        BY <2>3, <3>1, NoHistory
    <2>6. LC!StartWithTurn(m, 1) /\ 1 \in 1..MaxTurns
      BY <1>3, <2>1, <2>3, <2>4, <2>5, BoundsAssumption DEF LC!StartWithTurn
    <2> QED
      BY <2>6 DEF LC!Next, LC!SessionMode, SessionMode
  <1>4. CASE session.status = "active" /\ session' = RecordTurn(session)
    <2>1. PICK n \in Nat : n = session.turns /\ n < MaxTurns
      BY <1>4 DEF SessionOK, Session
    <2>2. /\ session'.mode = session.mode /\ session'.turns = n + 1
          /\ session'.status = LC!Boundary(session.mode, n + 1)
      <3>1. session.mode \in SessionMode /\ session.turns < MaxTurns
        BY <1>4, <2>1 DEF SessionOK
      <3> QED
        BY <1>4, <2>1, <3>1, RecordedOK, SameBoundary
    <2>3. n + 1 \in 1..MaxTurns
      BY <2>1, BoundsAssumption
    <2>4. /\ Len([i \in 1..n |-> i]) = n /\ \A i \in 1..n : [j \in 1..n |-> j][i] = i
          /\ Append([i \in 1..n |-> i], n + 1) = [i \in 1..(n + 1) |-> i]
      BY <2>1, Histories
    <2>5. \A i \in 1..n : i # n + 1
      BY <2>1
    <2>6. LC!Turn(n + 1)
      BY <1>4, <2>1, <2>2, <2>4, <2>5 DEF LC!Turn
    <2>7. \E r \in 1..MaxTurns : LC!Turn(r)
      BY <2>3, <2>6
    <2> QED
      BY <2>7 DEF LC!Next
  <1>5. CASE session.status = "paused" /\ session' = [session EXCEPT !.status = "active"]
    <2>1. "active" \in Status
      BY DEF Status
    <2>2. session'.status = "active" /\ session'.mode = session.mode
          /\ session'.turns = session.turns
      BY <1>5, <2>1, StatusOK
    <2>3. LC!Resume
      BY <1>5, <2>2 DEF LC!Resume
    <2> QED
      BY <2>3 DEF LC!Next
  <1>6. CASE session.status \in Status /\ session' = [session EXCEPT !.status = "closed"]
    <2>1. "closed" \in Status
      BY DEF Status
    <2>2. session'.status = "closed" /\ session'.mode = session.mode
          /\ session'.turns = session.turns
      BY <1>6, <2>1, StatusOK
    <2>3. CASE session.status = "closed"
      BY <2>2, <2>3 DEF LC!lifecycle
    <2>4. CASE session.status # "closed"
      <3>1. LC!Close
        BY <1>6, <2>2, <2>4 DEF LC!Close, Status
      <3> QED
        BY <3>1 DEF LC!Next
    <2> QED
      BY <2>3, <2>4
  <1> QED
    BY <1>1, <1>2, <1>3, <1>4, <1>5, <1>6 DEF Step

(* Whichever server and route runs the turns, and whatever saves fail, the *)
(* session's file goes through the lifecycle that SessionLifecycle states. *)
THEOREM FollowsLifecycle ==
    ASSUME ~Overlap PROVE Spec => KeepsLifecycle
  <1>1. Init => LC!Init
    BY NoHistory DEF Init, LC!Init
  <1>2. Inv /\ SerialInv /\ ToldInv /\ [Next]_vars => [LC!Next]_(LC!lifecycle)
    BY SerialNext, StepFollows DEF Inv, TypeOK, SerialInv
  <1> QED
    BY <1>1, <1>2, SerialInvariance, PTL DEF Spec, KeepsLifecycle, LC!Spec
-----------------------------------------------------------------------------
(* Whose documents a request is given.                                     *)

OwnDocs(c, docs) ==
    docs \in Seq(Document) /\ \A i \in 1..Len(docs) : docs[i].by = c

LEMMA NoDocs == ASSUME NEW c \in Clients PROVE OwnDocs(c, <<>>)
  BY DEF OwnDocs

LEMMA OneDoc ==
    ASSUME NEW c \in Clients, NEW st \in Told, NEW p \in BOOLEAN
    PROVE  OwnDocs(c, <<Doc(c, st, p)>>)
  <1>1. Doc(c, st, p) \in Document /\ Doc(c, st, p).by = c
    BY DEF Doc, Document
  <1> QED
    BY <1>1 DEF OwnDocs

(* What is put into a request's own buffer leaves every buffer with its    *)
(* owner's documents.                                                      *)
LEMMA PutOwn ==
    ASSUME NEW b \in [Clients -> Seq(Document)], NEW c \in Clients, NEW docs,
           OwnDocs(c, docs), \A d \in Clients : OwnDocs(d, b[d])
    PROVE  /\ Put(b, c, docs) \in [Clients -> Seq(Document)]
           /\ \A d \in Clients : OwnDocs(d, Put(b, c, docs)[d])
  <1>1. c # Nobody
    BY NobodyAssumption
  <1>2. Put(b, c, docs) = [b EXCEPT ![c] = b[c] \o docs]
    BY <1>1 DEF Put
  <1>3. OwnDocs(c, b[c] \o docs)
    <2> DEFINE s == b[c]
    <2>1. s \in Seq(Document) /\ docs \in Seq(Document)
          /\ (\A i \in 1..Len(s) : s[i].by = c) /\ (\A i \in 1..Len(docs) : docs[i].by = c)
      BY DEF OwnDocs
    <2> HIDE DEF s
    <2>2. s \o docs \in Seq(Document)
      BY <2>1
    <2>3. ASSUME NEW i \in 1..Len(s \o docs) PROVE (s \o docs)[i].by = c
      <3>1. CASE i \in 1..Len(s)
        BY <2>1, <3>1
      <3>2. CASE i \notin 1..Len(s)
        <4>1. i - Len(s) \in 1..Len(docs) /\ (s \o docs)[i] = docs[i - Len(s)]
          BY <2>1, <3>2
        <4> QED
          BY <2>1, <4>1
      <3> QED
        BY <3>1, <3>2
    <2> QED
      BY <2>2, <2>3 DEF OwnDocs, s
  <1> QED
    BY <1>2, <1>3 DEF OwnDocs

LEMMA OwnIsOwn == TypeOK => (AnswersOwn <=> \A c \in Clients : OwnDocs(c, buf[c]))
  BY DEF TypeOK, AnswersOwn, OwnDocs

(* How a command that prints to its own buffer ends.                       *)
LEMMA EndsOwn ==
    ASSUME TypeOK, TypeOK', AnswersOwn, NEW c \in Clients, Target(c) = c,
           NEW docs, OwnDocs(c, docs), NEW code,
           Answers(c, docs, code) \/ Escapes(c, docs) \/ UNCHANGED buf
    PROVE  AnswersOwn'
  <1>1. buf \in [Clients -> Seq(Document)] /\ \A d \in Clients : OwnDocs(d, buf[d])
    BY OwnIsOwn DEF TypeOK
  <1>2. OwnDocs(c, <<Doc(c, "error", FALSE)>>)
    BY OneDoc DEF Told
  <1>3. /\ Put(buf, c, docs) \in [Clients -> Seq(Document)]
        /\ \A d \in Clients : OwnDocs(d, Put(buf, c, docs)[d])
    BY <1>1, PutOwn
  <1>4. \A d \in Clients :
            OwnDocs(d, Put(Put(buf, c, docs), c, <<Doc(c, "error", FALSE)>>)[d])
    BY <1>2, <1>3, PutOwn
  <1>5. \/ buf' = Put(buf, c, docs)
        \/ buf' = Put(Put(buf, c, docs), c, <<Doc(c, "error", FALSE)>>)
        \/ buf' = buf
    BY DEF Answers, Escapes
  <1>6. \A d \in Clients : OwnDocs(d, buf'[d])
    BY <1>1, <1>3, <1>4, <1>5
  <1> QED
    BY <1>6 DEF TypeOK, AnswersOwn, OwnDocs

LEMMA CommandOwn ==
    ASSUME Inv, Inv', AnswersOwn, NEW c \in Clients, Target(c) = c, Command(c)
    PROVE  AnswersOwn'
  <1> DEFINE Quietly(docs) ==
                 \E code : Answers(c, docs, code) \/ Escapes(c, docs) \/ UNCHANGED buf
  <1>1. ASSUME NEW docs, OwnDocs(c, docs), Quietly(docs) PROVE AnswersOwn'
    BY <1>1, EndsOwn DEF Inv
  <1>2. ASSUME NEW st \in Told, NEW p \in BOOLEAN, Quietly(<<Doc(c, st, p)>>)
        PROVE  AnswersOwn'
    BY <1>1, <1>2, OneDoc
  <1>3. ASSUME Quietly(<<>>) PROVE AnswersOwn'
    BY <1>1, <1>3, NoDocs
  <1>4. {"active", "closed", "paused", "ok"} \subseteq Told
    BY DEF Told, Status
  <1>5. CASE Start(c)
    <2>1. Quietly(<<Doc(c, "active", FALSE)>>) \/ Quietly(<<>>)
      BY <1>5 DEF Start, SavesThenAnswers, GoTurn
    <2> QED
      BY <1>2, <1>3, <1>4, <2>1
  <1>6. CASE NotLoaded(c) \/ ContinueUnpaused(c) \/ StreamTurn(c) \/ TurnNotBuilt(c)
    <2>1. Quietly(<<>>)
      BY <1>6 DEF NotLoaded, ContinueUnpaused, StreamTurn, TurnNotBuilt, GoTurn
    <2> QED
      BY <1>3, <2>1
  <1>7. CASE ContinueApproved(c)
    <2>1. Quietly(<<Doc(c, "active", FALSE)>>) \/ Quietly(<<>>)
      BY <1>7 DEF ContinueApproved, GoTurn
    <2> QED
      BY <1>2, <1>3, <1>4, <2>1
  <1>8. CASE ContinuePaused(c)
    <2>1. \/ Quietly(<<Doc(c, "closed", FALSE)>>) \/ Quietly(<<>>)
          \/ Quietly(<<Doc(c, "paused", FALSE)>>)
      BY <1>8 DEF ContinuePaused, SavesThenAnswers
    <2> QED
      BY <1>2, <1>3, <1>4, <2>1
  <1>9. CASE Close(c)
    <2>1. Quietly(<<Doc(c, "closed", FALSE)>>) \/ Quietly(<<>>)
      BY <1>9 DEF Close, SavesThenAnswers
    <2> QED
      BY <1>2, <1>3, <1>4, <2>1
  <1>10. CASE State(c)
    <2> DEFINE kinds == IF server = "asgi" THEN {"state", "stream"} ELSE {"state"}
    <2>0. /\ During(c, "command", kinds) /\ "command" \in Place \ {"idle"}
          /\ kinds \subseteq OfSession
      BY <1>10 DEF State, Place, OfSession
    <2> HIDE DEF kinds
    <2>1. session.status \in Status
      BY <2>0, SessionThere
    <2>2. session.status \in Told /\ Quietly(<<Doc(c, session.status, FALSE)>>)
      BY <1>10, <2>1 DEF State, Told
    <2> QED
      BY <1>2, <2>2
  <1>11. CASE RunOrRunbook(c)
    <2>1. Quietly(<<Doc(c, "ok", FALSE)>>) \/ Quietly(<<>>)
      BY <1>11 DEF RunOrRunbook
    <2> QED
      BY <1>2, <1>3, <1>4, <2>1
  <1>12. ASSUME NEW s \in Session, s.status \in Status, Quietly(ErrorDocs(c, s))
         PROVE  AnswersOwn'
    <2>1. CASE server = "asgi" /\ req[c].kind = "turn"
      BY <1>2, <1>12, <2>1 DEF ErrorDocs, Told
    <2>2. CASE ~(server = "asgi" /\ req[c].kind = "turn")
      BY <1>3, <1>12, <2>2 DEF ErrorDocs
    <2> QED
      BY <2>1, <2>2
  <1>13. CASE TurnRefused(c)
    <2> DEFINE s == AfterRefusal(copy[c])
    <2>1. s \in Session /\ s.status \in Status
      BY <1>13, CopyThere, AfterRefusalOK DEF TurnRefused, During
    <2>2. Quietly(ErrorDocs(c, s))
      BY <1>13 DEF TurnRefused, AnswersThenSaves
    <2> QED
      BY <1>12, <2>1, <2>2
  <1>14. CASE TurnRaises(c)
    <2>1. copy[c] \in Session /\ copy[c].status \in Status
      BY <1>14, CopyThere DEF TurnRaises, During
    <2>2. Quietly(ErrorDocs(c, copy[c]))
      BY <1>14 DEF TurnRaises, AnswersThenSaves
    <2> QED
      BY <1>12, <2>1, <2>2
  <1>15. CASE TurnRuns(c)
    <2> DEFINE s == RecordTurn(copy[c])
               p == GateFires(copy[c])
    <2>1. s.status \in Told /\ p \in BOOLEAN
      BY <1>15, CopyThere DEF TurnRuns, During, RecordTurn, Told, Status, Session, GateFires
    <2>2. Quietly(<<Doc(c, s.status, p)>>) \/ Quietly(<<>>)
      BY <1>15 DEF TurnRuns, SavesThenAnswers
    <2> QED
      BY <1>2, <1>3, <2>1, <2>2
  <1> QED
    BY <1>5, <1>6, <1>7, <1>8, <1>9, <1>10, <1>11, <1>13, <1>14, <1>15 DEF Command

(* A request begins with an empty buffer, and nobody but a command prints. *)
LEMMA NextOwn ==
    ASSUME Inv, Inv', AnswersOwn, [Next]_vars,
           \A c \in Clients : pc[c] \in {"command", "turn"} => Target(c) = c
    PROVE  AnswersOwn'
  <1>1. ASSUME NEW c \in Clients, Command(c) PROVE AnswersOwn'
    <2>1. pc[c] \in {"command", "turn"}
      BY <1>1 DEF Command, Start, NotLoaded, ContinueApproved, ContinuePaused,
                  ContinueUnpaused, Close, State, StreamTurn, RunOrRunbook, TurnRefused,
                  TurnRaises, TurnNotBuilt, TurnRuns, During
    <2> QED
      BY <1>1, <2>1, CommandOwn
  <1>2. ASSUME NEW c \in Clients, NEW r \in Request, Arrive(c, r) PROVE AnswersOwn'
    <2>1. buf' = [buf EXCEPT ![c] = <<>>]
      BY <1>2 DEF Arrive
    <2> QED
      BY <2>1 DEF AnswersOwn, Inv, TypeOK
  <1>3. CASE UNCHANGED buf
    BY <1>3 DEF AnswersOwn
  <1>4. ASSUME NEW c \in Clients,
               \/ Redirect(c) \/ Restore(c) \/ Publishes(c) \/ Announces(c)
               \/ Reply(c) \/ Dispatches(c)
        PROVE  UNCHANGED buf
    BY <1>4 DEF Redirect, Restore, Publishes, Announces, Reply, Dispatches
  <1>5. ASSUME UNCHANGED vars \/ \E s \in Streams : Streaming(s) \/ Leave(s)
        PROVE  UNCHANGED buf
    BY <1>5 DEF vars, Streaming, Poll, Send, Leave
  <1> QED
    BY <1>1, <1>2, <1>3, <1>4, <1>5 DEF Next, Serve

LEMMA ServerStays == [Next]_vars => server' = server
  <1>1. ASSUME NEW c \in Clients, Serve(c) PROVE server' = server
    BY <1>1 DEF Serve, Arrive, Redirect, Command, Restore, Publishes, Announces, Reply,
                Dispatches, Start, NotLoaded, ContinueApproved, ContinuePaused,
                ContinueUnpaused, Close, State, StreamTurn, RunOrRunbook, TurnRefused,
                TurnRaises, TurnNotBuilt, TurnRuns, During
  <1>2. ASSUME NEW s \in Streams, Streaming(s) \/ Leave(s) PROVE server' = server
    BY <1>2 DEF Streaming, Poll, Send, Leave
  <1> QED
    BY <1>1, <1>2 DEF Next, vars

(* It takes overlapping requests of the ASGI server to give a request what *)
(* another one printed.                                                    *)
THEOREM OnlyOverlapCrosses ==
    Spec => [](server = "stdlib" \/ ~Overlap => AnswersOwn)
  <1>1. Init => AnswersOwn
    BY DEF Init, AnswersOwn
  <1>2. CASE ~Overlap
    <2>1. Inv /\ Inv' /\ SerialInv /\ AnswersOwn /\ [Next]_vars => AnswersOwn'
      BY NextOwn DEF SerialInv, Served
    <2>2. Spec => []AnswersOwn
      BY <1>1, <1>2, <2>1, SerialInvariance, PTL DEF Spec
    <2> QED
      BY <2>2, PTL
  <1>3. CASE Overlap
    <2> DEFINE Own == server = "stdlib" => AnswersOwn
    <2>1. Inv /\ Inv' /\ Own /\ [Next]_vars => Own'
      <3> SUFFICES ASSUME Inv, Inv', Own, [Next]_vars, server' = "stdlib" PROVE AnswersOwn'
        OBVIOUS
      <3>1. server = "stdlib"
        BY ServerStays
      <3>2. \A c \in Clients : Target(c) = c
        BY <3>1 DEF Target
      <3> QED
        BY <3>1, <3>2, NextOwn
    <2>2. Init => Own
      BY <1>1
    <2> HIDE DEF Own
    <2>3. Spec => []Own
      BY <2>1, <2>2, Invariance, PTL DEF Spec
    <2>4. Own => (server = "stdlib" \/ ~Overlap => AnswersOwn)
      BY <1>3 DEF Own
    <2> QED
      BY <2>3, <2>4, PTL
  <1> QED
    BY <1>2, <1>3
=============================================================================
