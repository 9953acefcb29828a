---------------------------- MODULE Transport_proofs ----------------------------
(***************************************************************************)
(* Theorems about Transport, for every number of clients and streams, turn *)
(* ceiling and threshold.                                                  *)
(***************************************************************************)
EXTENDS Transport, SequenceTheorems, TLAPS

Place == {"idle", "invoke", "command", "turn", "restore", "publish", "announce",
          "reply", "hook"}

(* Kinds of requests that are about a session that is there.               *)
OfSession == {"turn", "close", "state", "stream"}

(* A request that is served is one, and it and its copy are about a        *)
(* session that is there.                                                  *)
Asked(c) ==
    pc[c] # "idle" =>
        /\ req[c] \in Request
        /\ req[c].kind \in OfSession => session.status \in Status
        /\ pc[c] = "turn" => copy[c].status \in Status

(* What a stream has sent and read is the bus up to there.                 *)
StreamOK(s) ==
    /\ Len(got[s]) + Len(batch[s]) <= Len(log)
    /\ \A i \in 1..Len(got[s]) : got[s][i] = log[i]
    /\ \A i \in 1..Len(batch[s]) : batch[s][i] = log[Len(got[s]) + i]

Inv == TypeOK /\ (\A c \in Clients : Asked(c)) /\ (\A s \in Streams : StreamOK(s))

-----------------------------------------------------------------------------
(* Operators.                                                              *)

LEMMA AppendOK ==
    ASSUME NEW S, NEW q \in Seq(S), NEW e \in S
    PROVE  /\ Append(q, e) \in Seq(S)
           /\ Len(Append(q, e)) = Len(q) + 1
           /\ Append(q, e)[Len(q) + 1] = e
           /\ \A i \in 1..Len(q) : Append(q, e)[i] = q[i]
  OBVIOUS

LEMMA DocOK ==
    ASSUME NEW c \in Clients, NEW status \in Told, NEW pause \in BOOLEAN
    PROVE  Doc(c, status, pause) \in Document /\ Doc(c, status, pause).told = status
  BY DEF Doc, Document

LEMMA DocsOK ==
    ASSUME NEW c \in Clients, NEW status \in Told, NEW pause \in BOOLEAN
    PROVE  <<Doc(c, status, pause)>> \in Seq(Document)
  <1> DEFINE d == Doc(c, status, pause)
  <1>1. d \in Document
    BY DocOK
  <1> HIDE DEF d
  <1>2. <<d>> \in Seq(Document)
    BY <1>1
  <1> QED
    BY <1>2 DEF d

LEMMA PutOK ==
    ASSUME NEW b \in [Clients -> Seq(Document)], NEW where \in Clients \cup {Nobody},
           NEW docs \in Seq(Document)
    PROVE  Put(b, where, docs) \in [Clients -> Seq(Document)]
  BY DEF Put

LEMMA ResultType ==
    ASSUME TypeOK, NEW c \in Clients
    PROVE  Result(c) \in Document
  <1>1. Doc(c, "none", FALSE) \in Document /\ Doc(c, "error", FALSE) \in Document
    BY DocOK DEF Told
  <1>2. Len(buf[c]) = 1 => buf[c][1] \in Document
    <2>1. buf[c] \in Seq(Document)
      BY DEF TypeOK
    <2> QED
      BY <2>1
  <1> QED
    BY <1>1, <1>2 DEF Result

(* A command that answers, or whose exception leaves it.                   *)
LEMMA AnswersType ==
    ASSUME TypeOK, NEW c \in Clients, NEW docs \in Seq(Document),
           NEW code \in {0, 1, 3}, Answers(c, docs, code)
    PROVE  /\ buf' \in [Clients -> Seq(Document)]
           /\ exit' \in [Clients -> {0, 1, 3}]
           /\ \E p \in {"restore", "reply"} : pc' = [pc EXCEPT ![c] = p]
  <1>1. Target(c) \in Clients \cup {Nobody}
    BY DEF Target, TypeOK
  <1> QED
    BY <1>1, PutOK DEF Answers, Ends, TypeOK

LEMMA EscapesType ==
    ASSUME TypeOK, NEW c \in Clients, NEW docs \in Seq(Document), Escapes(c, docs)
    PROVE  /\ buf' \in [Clients -> Seq(Document)]
           /\ exit' \in [Clients -> {0, 1, 3}]
           /\ \E p \in {"idle", "restore", "reply"} : pc' = [pc EXCEPT ![c] = p]
  <1>1. Target(c) \in Clients \cup {Nobody}
    BY DEF Target, TypeOK
  <1>2. <<Doc(c, "error", FALSE)>> \in Seq(Document)
    <2>1. "error" \in Told /\ FALSE \in BOOLEAN
      BY DEF Told
    <2> QED
      BY <2>1, DocsOK
  <1>3. Put(buf, Target(c), docs) \in [Clients -> Seq(Document)]
    BY <1>1, PutOK DEF TypeOK
  <1>4. Put(Put(buf, Target(c), docs), c, <<Doc(c, "error", FALSE)>>)
            \in [Clients -> Seq(Document)]
    BY <1>2, <1>3, PutOK
  <1> QED
    BY <1>4 DEF Escapes, Ends, TypeOK

LEMMA RecordTurnOK ==
    ASSUME NEW s \in Session, ~Refused(s)
    PROVE  RecordTurn(s) \in Session /\ RecordTurn(s).status \in Status
           /\ RecordTurn(s).mode = s.mode /\ RecordTurn(s).turns = s.turns + 1
           /\ RecordTurn(s).status = IF s.turns + 1 >= MaxTurns THEN "at_limit"
                         ELSE IF GateFires(s) THEN "paused" ELSE "active"
  <1> DEFINE st == IF s.turns + 1 >= MaxTurns THEN "at_limit"
                   ELSE IF GateFires(s) THEN "paused" ELSE "active"
             t == [s EXCEPT !.turns = @ + 1]
  <1>1. /\ s.turns \in 0..MaxTurns /\ MaxTurns \in Nat
        /\ s.turns < MaxTurns /\ st \in Status
    BY BoundsAssumption DEF Session, Refused, Status
  <1>2. t \in Session /\ t.turns = s.turns + 1 /\ t.mode = s.mode
    BY <1>1 DEF Session
  <1>3. RecordTurn(s) = [t EXCEPT !.status = st]
    BY DEF RecordTurn
  <1> HIDE DEF t, st
  <1>4. [t EXCEPT !.status = st] \in Session
    BY <1>1, <1>2 DEF Session
  <1>5. /\ [t EXCEPT !.status = st].status = st
        /\ [t EXCEPT !.status = st].mode = t.mode
        /\ [t EXCEPT !.status = st].turns = t.turns
    BY <1>2 DEF Session
  <1> QED
    BY <1>1, <1>2, <1>3, <1>4, <1>5 DEF st

LEMMA NewSessionOK ==
    ASSUME NEW m \in SessionMode
    PROVE  NewSession(m) \in Session
  BY BoundsAssumption DEF NewSession, Session, Status

LEMMA StatusOK ==
    ASSUME NEW s \in Session, NEW st \in Status
    PROVE  [s EXCEPT !.status = st] \in Session /\ [s EXCEPT !.status = st].status = st
           /\ [s EXCEPT !.status = st].mode = s.mode
           /\ [s EXCEPT !.status = st].turns = s.turns
  BY DEF Session

-----------------------------------------------------------------------------
(* How the moves that commands share keep the invariant.                   *)

(* No move of a command loses the session.                                 *)
Stays == session' \in Session /\ (session.status \in Status => session'.status \in Status)

LEMMA CommandInv ==
    ASSUME Inv, NEW c \in Clients, NEW kinds, NEW place \in Place \ {"idle"},
           During(c, place, kinds), Stays,
           copy' \in [Clients -> Session], \A d \in Clients : d # c => copy'[d] = copy[d],
           buf' \in [Clients -> Seq(Document)], exit' \in [Clients -> {0, 1, 3}],
           NEW p \in Place, pc' = [pc EXCEPT ![c] = p],
           p = "turn" => copy'[c].status \in Status
    PROVE  Inv'
  <1>1. TypeOK'
    BY DEF During, capture, told, streams, Inv, TypeOK, Stays, Place
  <1>2. \A d \in Clients : Asked(d)'
    BY DEF During, Inv, TypeOK, Asked, Stays
  <1>3. \A s \in Streams : StreamOK(s)'
    BY DEF During, told, streams, Inv, StreamOK
  <1> QED
    BY <1>1, <1>2, <1>3 DEF Inv

LEMMA AnsweredInv ==
    ASSUME Inv, NEW c \in Clients, NEW kinds, NEW place \in Place \ {"idle"},
           During(c, place, kinds), Stays, UNCHANGED copy,
           NEW docs \in Seq(Document), NEW code \in {0, 1, 3}, Answers(c, docs, code)
    PROVE  Inv'
  <1>1. PICK p \in {"restore", "reply"} : pc' = [pc EXCEPT ![c] = p]
    BY AnswersType DEF Inv
  <1>2. buf' \in [Clients -> Seq(Document)] /\ exit' \in [Clients -> {0, 1, 3}]
    BY AnswersType DEF Inv
  <1>3. copy' \in [Clients -> Session] /\ p \in Place /\ p # "turn"
    BY DEF Inv, TypeOK, Place
  <1> QED
    BY <1>1, <1>2, <1>3, CommandInv

LEMMA EscapedInv ==
    ASSUME Inv, NEW c \in Clients, NEW kinds, NEW place \in Place \ {"idle"},
           During(c, place, kinds), Stays, UNCHANGED copy,
           NEW docs \in Seq(Document), Escapes(c, docs)
    PROVE  Inv'
  <1>1. PICK p \in {"idle", "restore", "reply"} : pc' = [pc EXCEPT ![c] = p]
    BY EscapesType DEF Inv
  <1>2. buf' \in [Clients -> Seq(Document)] /\ exit' \in [Clients -> {0, 1, 3}]
    BY EscapesType DEF Inv
  <1>3. copy' \in [Clients -> Session] /\ p \in Place /\ p # "turn"
    BY DEF Inv, TypeOK, Place
  <1> QED
    BY <1>1, <1>2, <1>3, CommandInv

LEMMA GoTurnInv ==
    ASSUME Inv, NEW c \in Clients, NEW kinds, NEW place \in Place \ {"idle"},
           During(c, place, kinds), Stays,
           NEW s \in Session, s.status \in Status, GoTurn(c, s)
    PROVE  Inv'
  <1>1. /\ copy' \in [Clients -> Session] /\ copy'[c] = s
        /\ \A d \in Clients : d # c => copy'[d] = copy[d]
        /\ pc' = [pc EXCEPT ![c] = "turn"] /\ "turn" \in Place
        /\ buf' \in [Clients -> Seq(Document)] /\ exit' \in [Clients -> {0, 1, 3}]
    BY DEF GoTurn, Inv, TypeOK, Place
  <1> QED
    BY <1>1, CommandInv

LEMMA SameStays == ASSUME Inv, UNCHANGED session PROVE Stays
  BY DEF Stays, Inv, TypeOK

LEMMA SavedInv ==
    ASSUME Inv, NEW c \in Clients, NEW kinds, NEW place \in Place \ {"idle"},
           During(c, place, kinds), UNCHANGED copy,
           NEW s \in Session, s.status \in Status,
           NEW docs \in Seq(Document), NEW code \in {0, 1, 3},
           SavesThenAnswers(c, s, docs, code)
    PROVE  Inv'
  <1>1. CASE session' = s /\ Answers(c, docs, code)
    BY <1>1, AnsweredInv DEF Stays
  <1>2. CASE session' = session /\ Escapes(c, <<>>)
    <2>1. <<>> \in Seq(Document)
      OBVIOUS
    <2> QED
      BY <1>2, <2>1, SameStays, EscapedInv
  <1> QED
    BY <1>1, <1>2 DEF SavesThenAnswers

LEMMA FailedInv ==
    ASSUME Inv, NEW c \in Clients, NEW kinds, NEW place \in Place \ {"idle"},
           During(c, place, kinds), UNCHANGED copy,
           NEW s \in Session, s.status \in Status, NEW docs \in Seq(Document),
           AnswersThenSaves(c, s, docs)
    PROVE  Inv'
  <1>1. CASE session' = s /\ Answers(c, docs, 1)
    <2>1. Stays
      BY <1>1 DEF Stays
    <2> QED
      BY <1>1, <2>1, AnsweredInv
  <1>2. CASE session' = session /\ Escapes(c, docs)
    BY <1>2, SameStays, EscapedInv
  <1> QED
    BY <1>1, <1>2 DEF AnswersThenSaves

-----------------------------------------------------------------------------
(* The commands keep the invariant.                                        *)

LEMMA StartInv ==
    ASSUME Inv, NEW c \in Clients, Start(c)
    PROVE  Inv'
  <1> DEFINE s == NewSession(req[c].mode)
             docs == <<Doc(c, "active", FALSE)>>
  <1>1. During(c, "command", {"start"}) /\ "command" \in Place \ {"idle"}
    BY DEF Start, Place
  <1>2. s \in Session /\ s.status \in Status
    <2>1. req[c].mode \in SessionMode
      BY <1>1 DEF During, Inv, Asked, Request
    <2> QED
      BY <2>1, NewSessionOK DEF NewSession, Status
  <1>3. docs \in Seq(Document)
    BY DocsOK DEF Told, Status
  <1> HIDE DEF s, docs
  <1>4. CASE GoTurn(c, s) /\ UNCHANGED session
    BY <1>1, <1>2, <1>4, SameStays, GoTurnInv
  <1>5. CASE SavesThenAnswers(c, s, docs, 0) /\ UNCHANGED copy
    BY <1>1, <1>2, <1>3, <1>5, SavedInv
  <1> QED
    BY <1>4, <1>5 DEF Start, s, docs

LEMMA NothingToSay == <<>> \in Seq(Document)
  OBVIOUS

(* What a command may say of a session that is there.                      *)
LEMMA SaysStatus ==
    ASSUME NEW c \in Clients, NEW st \in Status, NEW pause \in BOOLEAN
    PROVE  <<Doc(c, st, pause)>> \in Seq(Document)
  BY DocsOK DEF Told

LEMMA SessionThere ==
    ASSUME Inv, NEW c \in Clients, NEW kinds, NEW place \in Place \ {"idle"},
           During(c, place, kinds), kinds \subseteq OfSession
    PROVE  session \in Session /\ session.status \in Status
  BY DEF During, Inv, Asked, TypeOK

LEMMA NotLoadedInv ==
    ASSUME Inv, NEW c \in Clients, NotLoaded(c)
    PROVE  Inv'
  <1>1. /\ During(c, "command", {"turn", "close", "state", "stream"})
        /\ "command" \in Place \ {"idle"} /\ UNCHANGED <<session, copy>>
    BY DEF NotLoaded, Place, work
  <1> QED
    BY <1>1, SameStays, NothingToSay, AnsweredInv, EscapedInv DEF NotLoaded

LEMMA ContinueApprovedInv ==
    ASSUME Inv, NEW c \in Clients, ContinueApproved(c)
    PROVE  Inv'
  <1>1. /\ During(c, "command", {"turn"}) /\ "command" \in Place \ {"idle"}
        /\ {"turn"} \subseteq OfSession
    BY DEF ContinueApproved, Place, OfSession
  <1>2. session \in Session /\ "active" \in Status
    BY <1>1, SessionThere DEF Status
  <1>3. CASE session' = [session EXCEPT !.status = "active"]
    <2>1. session' \in Session /\ session'.status \in Status /\ Stays
      BY <1>2, <1>3, StatusOK DEF Stays
    <2>2. CASE GoTurn(c, session')
      BY <1>1, <2>1, <2>2, GoTurnInv
    <2>3. ASSUME NEW docs \in Seq(Document), NEW code \in {0, 1, 3},
                 Answers(c, docs, code), UNCHANGED copy
          PROVE  Inv'
      BY <1>1, <2>1, <2>3, AnsweredInv
    <2>4. <<Doc(c, "active", FALSE)>> \in Seq(Document)
      BY <1>2, SaysStatus
    <2>5. CASE Escapes(c, <<>>) /\ UNCHANGED work
      BY <1>1, <2>1, <2>5, NothingToSay, EscapedInv DEF work
    <2> QED
      BY <2>2, <2>3, <2>4, <2>5, NothingToSay DEF ContinueApproved
  <1>4. CASE Escapes(c, <<>>) /\ UNCHANGED work
    BY <1>1, <1>4, SameStays, NothingToSay, EscapedInv DEF work
  <1> QED
    BY <1>3, <1>4 DEF ContinueApproved

LEMMA ContinuePausedInv ==
    ASSUME Inv, NEW c \in Clients, ContinuePaused(c)
    PROVE  Inv'
  <1>1. /\ During(c, "command", {"turn"}) /\ "command" \in Place \ {"idle"}
        /\ {"turn"} \subseteq OfSession /\ UNCHANGED copy
    BY DEF ContinuePaused, Place, OfSession
  <1>2. session \in Session /\ "closed" \in Status /\ "paused" \in Status
    BY <1>1, SessionThere DEF Status
  <1>3. CASE SavesThenAnswers(c, [session EXCEPT !.status = "closed"],
                              <<Doc(c, "closed", FALSE)>>, 0)
    <2>1. /\ [session EXCEPT !.status = "closed"] \in Session
          /\ [session EXCEPT !.status = "closed"].status \in Status
      BY <1>2, StatusOK
    <2>2. <<Doc(c, "closed", FALSE)>> \in Seq(Document)
      BY <1>2, SaysStatus
    <2> QED
      BY <1>1, <1>3, <2>1, <2>2, SavedInv
  <1>4. CASE Answers(c, <<Doc(c, "paused", FALSE)>>, 3) /\ UNCHANGED session
    <2>1. <<Doc(c, "paused", FALSE)>> \in Seq(Document)
      BY <1>2, SaysStatus
    <2> QED
      BY <1>1, <1>4, <2>1, SameStays, AnsweredInv
  <1> QED
    BY <1>3, <1>4 DEF ContinuePaused

LEMMA ContinueUnpausedInv ==
    ASSUME Inv, NEW c \in Clients, ContinueUnpaused(c)
    PROVE  Inv'
  <1>1. /\ During(c, "command", {"turn"}) /\ "command" \in Place \ {"idle"}
        /\ {"turn"} \subseteq OfSession /\ UNCHANGED session
    BY DEF ContinueUnpaused, Place, OfSession
  <1>2. session \in Session /\ session.status \in Status /\ Stays
    BY <1>1, SessionThere, SameStays
  <1>3. CASE GoTurn(c, session)
    BY <1>1, <1>2, <1>3, GoTurnInv
  <1>4. CASE Answers(c, <<>>, 1) /\ UNCHANGED copy
    BY <1>1, <1>2, <1>4, NothingToSay, AnsweredInv
  <1> QED
    BY <1>3, <1>4 DEF ContinueUnpaused

LEMMA CloseInv ==
    ASSUME Inv, NEW c \in Clients, Close(c)
    PROVE  Inv'
  <1>1. /\ During(c, "command", {"close"}) /\ "command" \in Place \ {"idle"}
        /\ {"close"} \subseteq OfSession /\ UNCHANGED copy
    BY DEF Close, Place, OfSession
  <1>2. session \in Session /\ "closed" \in Status
    BY <1>1, SessionThere DEF Status
  <1>3. /\ [session EXCEPT !.status = "closed"] \in Session
        /\ [session EXCEPT !.status = "closed"].status \in Status
    BY <1>2, StatusOK
  <1>4. <<Doc(c, "closed", FALSE)>> \in Seq(Document)
    BY <1>2, SaysStatus
  <1> QED
    BY <1>1, <1>3, <1>4, SavedInv DEF Close

LEMMA StateInv ==
    ASSUME Inv, NEW c \in Clients, State(c)
    PROVE  Inv'
  <1> DEFINE kinds == IF server = "asgi" THEN {"state", "stream"} ELSE {"state"}
  <1>1. /\ During(c, "command", kinds) /\ "command" \in Place \ {"idle"}
        /\ kinds \subseteq OfSession /\ UNCHANGED <<session, copy>>
    BY DEF State, Place, OfSession, work
  <1> HIDE DEF kinds
  <1>2. session.status \in Status /\ Stays
    BY <1>1, SessionThere, SameStays
  <1>3. <<Doc(c, session.status, FALSE)>> \in Seq(Document)
    BY <1>2, SaysStatus
  <1> QED
    BY <1>1, <1>2, <1>3, AnsweredInv DEF State

LEMMA StreamTurnInv ==
    ASSUME Inv, NEW c \in Clients, StreamTurn(c)
    PROVE  Inv'
  <1>1. /\ During(c, "command", {"stream"}) /\ "command" \in Place \ {"idle"}
        /\ {"stream"} \subseteq OfSession /\ UNCHANGED session
    BY DEF StreamTurn, Place, OfSession
  <1>2. session \in Session /\ session.status \in Status /\ Stays
    BY <1>1, SessionThere, SameStays
  <1>3. CASE GoTurn(c, session)
    BY <1>1, <1>2, <1>3, GoTurnInv
  <1>4. CASE Answers(c, <<>>, 1) /\ UNCHANGED copy
    BY <1>1, <1>2, <1>4, NothingToSay, AnsweredInv
  <1> QED
    BY <1>3, <1>4 DEF StreamTurn

LEMMA RunOrRunbookInv ==
    ASSUME Inv, NEW c \in Clients, RunOrRunbook(c)
    PROVE  Inv'
  <1>1. /\ During(c, "command", {"run", "runbook"}) /\ "command" \in Place \ {"idle"}
        /\ UNCHANGED <<session, copy>>
    BY DEF RunOrRunbook, Place, work
  <1>2. <<Doc(c, "ok", FALSE)>> \in Seq(Document)
    BY DocsOK DEF Told
  <1> QED
    BY <1>1, <1>2, SameStays, NothingToSay, AnsweredInv, EscapedInv DEF RunOrRunbook

(* The copy a turn works on.                                               *)
LEMMA CopyThere ==
    ASSUME Inv, NEW c \in Clients, During(c, "turn", TurnKinds)
    PROVE  /\ copy[c] \in Session /\ copy[c].status \in Status
           /\ "turn" \in Place \ {"idle"}
  BY DEF During, Inv, Asked, TypeOK, Place

LEMMA ErrorDocsOK ==
    ASSUME NEW c \in Clients, NEW s \in Session, s.status \in Status
    PROVE  ErrorDocs(c, s) \in Seq(Document)
  BY SaysStatus, NothingToSay DEF ErrorDocs

LEMMA AfterRefusalOK ==
    ASSUME NEW s \in Session, s.status \in Status
    PROVE  AfterRefusal(s) \in Session /\ AfterRefusal(s).status \in Status
  <1>1. "at_limit" \in Status
    BY DEF Status
  <1> QED
    BY <1>1, StatusOK DEF AfterRefusal

LEMMA TurnInv ==
    ASSUME Inv, NEW c \in Clients,
           TurnRefused(c) \/ TurnRaises(c) \/ TurnNotBuilt(c) \/ TurnRuns(c)
    PROVE  Inv'
  <1>1. During(c, "turn", TurnKinds) /\ UNCHANGED copy
    BY DEF TurnRefused, TurnRaises, TurnNotBuilt, TurnRuns, work
  <1>2. /\ copy[c] \in Session /\ copy[c].status \in Status
        /\ "turn" \in Place \ {"idle"}
    BY <1>1, CopyThere
  <1>3. CASE TurnRefused(c)
    <2> DEFINE s == AfterRefusal(copy[c])
    <2>1. s \in Session /\ s.status \in Status
      BY <1>2, AfterRefusalOK
    <2> HIDE DEF s
    <2>2. ErrorDocs(c, s) \in Seq(Document)
      BY <2>1, ErrorDocsOK
    <2> QED
      BY <1>1, <1>2, <1>3, <2>1, <2>2, FailedInv DEF TurnRefused, s
  <1>4. CASE TurnRaises(c)
    <2>1. ErrorDocs(c, copy[c]) \in Seq(Document)
      BY <1>2, ErrorDocsOK
    <2> QED
      BY <1>1, <1>2, <1>4, <2>1, FailedInv DEF TurnRaises
  <1>5. CASE TurnNotBuilt(c)
    BY <1>1, <1>2, <1>5, SameStays, NothingToSay, EscapedInv DEF TurnNotBuilt, work
  <1>6. CASE TurnRuns(c)
    <2> DEFINE s == RecordTurn(copy[c])
               docs == <<Doc(c, s.status, GateFires(copy[c]))>>
    <2>1. s \in Session /\ s.status \in Status
      BY <1>2, <1>6, RecordTurnOK DEF TurnRuns
    <2>2. docs \in Seq(Document)
      BY <2>1, SaysStatus DEF GateFires
    <2>3. PICK code \in {0, 1, 3} : SavesThenAnswers(c, s, docs, code)
      BY <1>6 DEF TurnRuns
    <2> HIDE DEF s, docs
    <2> QED
      BY <1>1, <1>2, <2>1, <2>2, <2>3, SavedInv
  <1> QED
    BY <1>3, <1>4, <1>5, <1>6

-----------------------------------------------------------------------------
(* The servers' own steps keep the invariant.                              *)

(* A step of a request that is served, outside its command.                *)
LEMMA ServedInv ==
    ASSUME Inv, NEW c \in Clients, NEW p \in Place, p # "turn", pc[c] # "idle",
           pc' = [pc EXCEPT ![c] = p],
           UNCHANGED <<server, work, requests, req, buf, exit, log, got, batch>>,
           stdout' \in Clients \cup {Nobody},
           saved' \in [Clients -> Clients \cup {Nobody}],
           hooks' \in Seq(Hook), conn' \in [Streams -> {"none", "open", "gone"}]
    PROVE  Inv'
  <1>1. TypeOK'
    BY DEF work, Inv, TypeOK, Place
  <1>2. \A d \in Clients : Asked(d)'
    BY DEF work, Inv, TypeOK, Asked
  <1>3. \A s \in Streams : StreamOK(s)'
    BY DEF Inv, StreamOK
  <1> QED
    BY <1>1, <1>2, <1>3 DEF Inv

LEMMA Within ==
    ASSUME NEW g \in Nat, NEW b \in Nat, NEW l \in Nat, g + b <= l
    PROVE  /\ g + b <= l + 1
           /\ \A i \in 1..g : i \in 1..l
           /\ \A i \in 1..b : g + i \in 1..l
  OBVIOUS

(* Publishing one event leaves what the streams hold a part of the log.    *)
LEMMA PublishedInv ==
    ASSUME Inv, NEW e \in Event, log' = Append(log, e), UNCHANGED <<got, batch>>
    PROVE  log' \in Seq(Event) /\ \A s \in Streams : StreamOK(s)'
  <1>1. /\ log' \in Seq(Event) /\ Len(log') = Len(log) + 1
        /\ \A i \in 1..Len(log) : log'[i] = log[i]
    BY AppendOK DEF Inv, TypeOK
  <1>2. ASSUME NEW s \in Streams PROVE StreamOK(s)'
    <2>1. /\ Len(got[s]) \in Nat /\ Len(batch[s]) \in Nat /\ Len(log) \in Nat
      BY DEF Inv, TypeOK
    <2>2. StreamOK(s)
      BY DEF Inv
    <2>3. /\ Len(got[s]) + Len(batch[s]) <= Len(log')
          /\ \A i \in 1..Len(got[s]) : i \in 1..Len(log)
          /\ \A i \in 1..Len(batch[s]) : Len(got[s]) + i \in 1..Len(log)
      <3>1. Len(got[s]) + Len(batch[s]) <= Len(log)
        BY <2>2 DEF StreamOK
      <3> QED
        BY <1>1, <2>1, <3>1, Within
    <2>4. \A i \in 1..Len(got[s]) : got[s][i] = log'[i]
      BY <1>1, <2>2, <2>3 DEF StreamOK
    <2>5. \A i \in 1..Len(batch[s]) : batch[s][i] = log'[Len(got[s]) + i]
      BY <1>1, <2>2, <2>3 DEF StreamOK
    <2>6. UNCHANGED <<got, batch>>
      OBVIOUS
    <2> QED
      BY <2>3, <2>4, <2>5, <2>6 DEF StreamOK
  <1> QED
    BY <1>1, <1>2

(* The same step of a request when it publishes.                           *)
LEMMA ServedPublishingInv ==
    ASSUME Inv, NEW c \in Clients, NEW p \in Place, p # "turn", pc[c] # "idle",
           pc' = [pc EXCEPT ![c] = p], NEW e \in Event, log' = Append(log, e),
           UNCHANGED <<server, work, requests, req, capture, buf, exit, got, batch>>,
           hooks' \in Seq(Hook), conn' \in [Streams -> {"none", "open", "gone"}]
    PROVE  Inv'
  <1>1. log' \in Seq(Event) /\ \A s \in Streams : StreamOK(s)'
    BY PublishedInv
  <1>2. TypeOK'
    BY <1>1 DEF work, capture, Inv, TypeOK, Place
  <1>3. \A d \in Clients : Asked(d)'
    BY DEF work, Inv, TypeOK, Asked
  <1> QED
    BY <1>1, <1>2, <1>3 DEF Inv

LEMMA ArriveInv ==
    ASSUME Inv, NEW c \in Clients, NEW r \in Request, Arrive(c, r)
    PROVE  Inv'
  <1> DEFINE e == [event |-> "turn_started", told |-> "none"]
  <1>1. log' \in Seq(Event) /\ \A s \in Streams : StreamOK(s)'
    <2>1. e \in Event
      BY DEF Event, Told
    <2>2. CASE log' = Append(log, e)
      BY <2>1, <2>2, PublishedInv DEF Arrive, streams
    <2>3. CASE log' = log
      BY <2>3 DEF Arrive, streams, Inv, TypeOK, StreamOK
    <2> QED
      BY <2>2, <2>3 DEF Arrive
  <1>2. requests' \in 0..RequestBound
    BY BoundsAssumption DEF Arrive, Inv, TypeOK
  <1>3. buf' \in [Clients -> Seq(Document)]
    BY NothingToSay DEF Arrive, Inv, TypeOK
  <1>4. PICK p \in {"invoke", "command"} : pc' = [pc EXCEPT ![c] = p]
    BY DEF Arrive
  <1>5. TypeOK'
    BY <1>1, <1>2, <1>3, <1>4 DEF Arrive, work, capture, streams, Inv, TypeOK
  <1>6. ASSUME NEW d \in Clients PROVE Asked(d)'
    <2>1. /\ req' = [req EXCEPT ![c] = r] /\ UNCHANGED <<session, copy>>
          /\ r.kind \in OfSession => session.status # "absent"
          /\ session.status # "absent" => session.status \in Status
      BY DEF Arrive, work, OfSession, Inv, TypeOK, Session
    <2> QED
      BY <1>4, <2>1 DEF Inv, TypeOK, Asked
  <1> QED
    BY <1>1, <1>5, <1>6 DEF Inv

LEMMA RedirectInv ==
    ASSUME Inv, NEW c \in Clients, Redirect(c)
    PROVE  Inv'
  <1>1. "command" \in Place /\ pc[c] # "idle"
    BY DEF Redirect, Place
  <1>2. /\ stdout' \in Clients \cup {Nobody}
        /\ saved' \in [Clients -> Clients \cup {Nobody}]
    BY DEF Redirect, Inv, TypeOK
  <1>3. hooks' \in Seq(Hook) /\ conn' \in [Streams -> {"none", "open", "gone"}]
    BY DEF Redirect, told, streams, Inv, TypeOK
  <1> QED
    BY <1>1, <1>2, <1>3, ServedInv DEF Redirect, told, streams

LEMMA RestoreInv ==
    ASSUME Inv, NEW c \in Clients, Restore(c)
    PROVE  Inv'
  <1>1. "publish" \in Place /\ pc[c] # "idle"
    BY DEF Restore, Place
  <1>2. /\ stdout' \in Clients \cup {Nobody}
        /\ saved' \in [Clients -> Clients \cup {Nobody}]
    BY DEF Restore, Inv, TypeOK
  <1>3. hooks' \in Seq(Hook) /\ conn' \in [Streams -> {"none", "open", "gone"}]
    BY DEF Restore, told, streams, Inv, TypeOK
  <1> QED
    BY <1>1, <1>2, <1>3, ServedInv DEF Restore, told, streams

LEMMA ReplyInv ==
    ASSUME Inv, NEW c \in Clients, Reply(c)
    PROVE  Inv'
  <1>1. PICK p \in {"hook", "idle"} : pc' = [pc EXCEPT ![c] = p]
    BY DEF Reply
  <1>2. p \in Place /\ p # "turn" /\ pc[c] # "idle"
    BY <1>1 DEF Reply, Place
  <1>3. /\ stdout' \in Clients \cup {Nobody}
        /\ saved' \in [Clients -> Clients \cup {Nobody}]
        /\ hooks' \in Seq(Hook) /\ conn' \in [Streams -> {"none", "open", "gone"}]
    BY DEF Reply, capture, told, streams, Inv, TypeOK
  <1> QED
    BY <1>1, <1>2, <1>3, ServedInv DEF Reply, capture, told, streams

(* A webhook more.                                                         *)
LEMMA HookOK ==
    ASSUME Inv, NEW h \in Hook
    PROVE  Append(hooks, h) \in Seq(Hook)
  BY DEF Inv, TypeOK

LEMMA HooksOK ==
    ASSUME Inv
    PROVE  /\ hooks \in Seq(Hook) /\ Append(hooks, "SESSION_COMPLETE") \in Seq(Hook)
           /\ Append(hooks, "RUNBOOK_COMPLETE") \in Seq(Hook)
           /\ Append(hooks, "STEWARD_GATE_TRIGGERED") \in Seq(Hook)
  BY HookOK DEF Inv, TypeOK, Hook

LEMMA DispatchesInv ==
    ASSUME Inv, NEW c \in Clients, Dispatches(c)
    PROVE  Inv'
  <1>1. "idle" \in Place /\ pc[c] # "idle"
    BY DEF Dispatches, Place
  <1>2. hooks' \in Seq(Hook)
    BY HooksOK DEF Dispatches
  <1>3. /\ stdout' \in Clients \cup {Nobody}
        /\ saved' \in [Clients -> Clients \cup {Nobody}]
        /\ conn' \in [Streams -> {"none", "open", "gone"}]
    BY DEF Dispatches, capture, streams, Inv, TypeOK
  <1> QED
    BY <1>1, <1>2, <1>3, ServedInv DEF Dispatches, capture, streams

LEMMA EventOK ==
    ASSUME NEW name \in {"session_state", "turn_completed", "steward_gate_triggered",
                         "session_closed"}, NEW t \in Told
    PROVE  [event |-> name, told |-> t] \in Event
  BY DEF Event

LEMMA PublishesInv ==
    ASSUME Inv, NEW c \in Clients, Publishes(c)
    PROVE  Inv'
  <1>1. Result(c).told \in Told
    BY ResultType DEF Inv, Document
  <1>2. PICK p \in {"announce", "idle"} : pc' = [pc EXCEPT ![c] = p]
    BY DEF Publishes
  <1>3. p \in Place /\ p # "turn" /\ pc[c] # "idle"
    BY DEF Publishes, Place
  <1>4. hooks' \in Seq(Hook)
    BY HooksOK DEF Publishes
  <1>5. conn' \in [Streams -> {"none", "open", "gone"}]
    BY DEF Publishes, Inv, TypeOK
  <1>6. /\ stdout' \in Clients \cup {Nobody}
        /\ saved' \in [Clients -> Clients \cup {Nobody}]
    BY DEF Publishes, capture, Inv, TypeOK
  <1>7. ASSUME NEW name \in {"session_state", "turn_completed"}, NEW t \in Told,
               log' = Publish(name, t)
        PROVE  Inv'
    <2>1. [event |-> name, told |-> t] \in Event
      BY EventOK
    <2> QED
      BY <1>2, <1>3, <1>4, <1>5, <1>7, <2>1, ServedPublishingInv DEF Publishes, Publish
  <1>8. CASE log' = log
    BY <1>2, <1>3, <1>4, <1>5, <1>6, <1>8, ServedInv DEF Publishes
  <1> QED
    <2>1. "ok" \in Told
      BY DEF Told
    <2>2. \/ log' = Publish("turn_completed", Result(c).told)
          \/ log' = Publish("session_state", "ok")
          \/ log' = Publish("session_state", Result(c).told)
          \/ log' = log
      BY DEF Publishes
    <2> QED
      BY <1>1, <1>7, <1>8, <2>1, <2>2

LEMMA AnnouncesInv ==
    ASSUME Inv, NEW c \in Clients, Announces(c)
    PROVE  Inv'
  <1>1. Result(c).told \in Told
    BY ResultType DEF Inv, Document
  <1>2. /\ pc' = [pc EXCEPT ![c] = "idle"] /\ "idle" \in Place /\ pc[c] # "idle"
    BY DEF Announces, Place
  <1>3. hooks' \in Seq(Hook)
    BY HooksOK DEF Announces
  <1>4. /\ stdout' \in Clients \cup {Nobody}
        /\ saved' \in [Clients -> Clients \cup {Nobody}]
        /\ conn' \in [Streams -> {"none", "open", "gone"}]
    BY DEF Announces, capture, streams, Inv, TypeOK
  <1>5. ASSUME NEW name \in {"steward_gate_triggered", "session_closed"},
               log' = Publish(name, Result(c).told)
        PROVE  Inv'
    <2>1. [event |-> name, told |-> Result(c).told] \in Event
      BY <1>1, EventOK
    <2> QED
      BY <1>2, <1>3, <1>4, <1>5, <2>1, ServedPublishingInv
         DEF Announces, Publish, streams
  <1>6. CASE log' = log
    BY <1>2, <1>3, <1>4, <1>6, ServedInv DEF Announces, streams
  <1> QED
    BY <1>5, <1>6 DEF Announces

-----------------------------------------------------------------------------
(* The streams' steps keep the invariant.                                  *)

LEMMA PollInv ==
    ASSUME Inv, NEW s \in Streams, Poll(s)
    PROVE  Inv'
  <1> DEFINE n == Len(got[s])
             b == SubSeq(log, n + 1, Len(log))
  <1>1. /\ n \in Nat /\ Len(log) \in Nat /\ n < Len(log)
        /\ log \in Seq(Event)
    BY DEF Poll, Inv, TypeOK
  <1>2. /\ b \in Seq(Event) /\ Len(b) = Len(log) - n
        /\ \A i \in 1..Len(b) : b[i] = log[n + i]
    <2> DEFINE k == Len(log)
    <2>1. n + 1 \in 1..(k + 1) /\ k \in (n + 1) - 1..k /\ k - (n + 1) + 1 = k - n
      <3>1. n \in Nat /\ k \in Nat /\ n < k
        BY <1>1
      <3> HIDE DEF n, k
      <3> QED
        BY <3>1
    <2>2. /\ SubSeq(log, n + 1, k) \in Seq(Event)
          /\ Len(SubSeq(log, n + 1, k)) = k - n
          /\ \A i \in 1..(k - n) : SubSeq(log, n + 1, k)[i] = log[n + i]
      <3>1. n \in Nat /\ k \in Nat /\ n < k /\ log \in Seq(Event)
        BY <1>1
      <3>2. \A i \in (n + 1)..k : log[i] \in Event
        BY <3>1
      <3> HIDE DEF n
      <3> QED
        BY <3>1, <3>2
    <2> QED
      BY <2>2
  <1>3. batch' = [batch EXCEPT ![s] = b]
    BY DEF Poll
  <1> HIDE DEF b
  <1>4. TypeOK'
    BY <1>2, <1>3 DEF Poll, work, capture, told, Inv, TypeOK
  <1>5. \A d \in Clients : Asked(d)'
    BY DEF Poll, work, Inv, Asked
  <1>6. ASSUME NEW t \in Streams PROVE StreamOK(t)'
    <2>1. StreamOK(t) /\ batch \in [Streams -> Seq(Event)] /\ UNCHANGED <<got, log>>
      BY DEF Inv, TypeOK, Poll, told
    <2>2. CASE t = s
      <3>1. batch'[s] = b /\ got'[s] = got[s]
        BY <1>3, <2>1
      <3>2. n + Len(b) <= Len(log)
        BY <1>1, <1>2
      <3> QED
        BY <1>2, <2>1, <2>2, <3>1, <3>2 DEF StreamOK
    <2>3. CASE t # s
      BY <1>3, <2>1, <2>3 DEF StreamOK
    <2> QED
      BY <2>2, <2>3
  <1> QED
    BY <1>4, <1>5, <1>6 DEF Inv

LEMMA SendInv ==
    ASSUME Inv, NEW s \in Streams, Send(s)
    PROVE  Inv'
  <1> DEFINE b == batch[s]
             g == got[s]
  <1>1. b \in Seq(Event) /\ b # <<>> /\ g \in Seq(Event) /\ log \in Seq(Event)
    BY DEF Send, Inv, TypeOK
  <1>2. /\ Len(b) \in Nat /\ Len(b) > 0 /\ Head(b) = b[1] /\ b[1] \in Event
        /\ Tail(b) \in Seq(Event) /\ Len(Tail(b)) = Len(b) - 1
        /\ \A i \in 1..Len(Tail(b)) : Tail(b)[i] = b[i + 1]
    BY <1>1
  <1>3. /\ got' = [got EXCEPT ![s] = Append(g, b[1])]
        /\ batch' = [batch EXCEPT ![s] = Tail(b)]
    BY <1>2 DEF Send
  <1>4. /\ Append(g, b[1]) \in Seq(Event) /\ Len(Append(g, b[1])) = Len(g) + 1
        /\ Append(g, b[1])[Len(g) + 1] = b[1]
        /\ \A i \in 1..Len(g) : Append(g, b[1])[i] = g[i]
    BY <1>1, <1>2, AppendOK
  <1>5. TypeOK'
    BY <1>2, <1>3, <1>4 DEF Send, work, capture, told, Inv, TypeOK
  <1>6. \A d \in Clients : Asked(d)'
    BY DEF Send, work, Inv, Asked
  <1>7. ASSUME NEW t \in Streams PROVE StreamOK(t)'
    <2>1. /\ StreamOK(t) /\ UNCHANGED log
          /\ got \in [Streams -> Seq(Event)] /\ batch \in [Streams -> Seq(Event)]
      BY DEF Inv, TypeOK, Send, told
    <2>2. CASE t = s
      <3>1. Len(g) \in Nat /\ Len(log) \in Nat
        BY <1>1
      <3>2. /\ got'[s] = Append(g, b[1]) /\ batch'[s] = Tail(b)
        BY <1>3, <2>1
      <3>3. b[1] = log[Len(g) + 1]
        BY <1>2, <2>1, <2>2 DEF StreamOK
      <3>4. \A i \in 1..Len(Tail(b)) : Tail(b)[i] = log[Len(g) + 1 + i]
        <4>1. \A i \in 1..Len(b) : b[i] = log[Len(g) + i]
          BY <2>1, <2>2 DEF StreamOK
        <4> TAKE i \in 1..Len(Tail(b))
        <4>2. i \in Nat /\ i + 1 \in 1..Len(b) /\ Len(g) + (i + 1) = Len(g) + 1 + i
          <5> DEFINE k == Len(b)
                     j == Len(g)
          <5>1. k \in Nat /\ j \in Nat /\ i \in 1..(k - 1)
            BY <1>2, <3>1
          <5> HIDE DEF k, j
          <5>2. i \in Nat /\ i + 1 \in 1..k /\ j + (i + 1) = j + 1 + i
            BY <5>1
          <5> QED
            BY <5>2 DEF k, j
        <4> QED
          BY <1>2, <4>1, <4>2
      <3>5. \A i \in 1..(Len(g) + 1) : Append(g, b[1])[i] = log[i]
        BY <1>4, <2>1, <2>2, <3>1, <3>3 DEF StreamOK
      <3>6. Len(g) + Len(b) <= Len(log)
        BY <2>1, <2>2 DEF StreamOK
      <3> QED
        BY <1>2, <1>4, <2>1, <2>2, <3>1, <3>2, <3>4, <3>5, <3>6 DEF StreamOK
    <2>3. CASE t # s
      BY <1>3, <2>1, <2>3 DEF StreamOK
    <2> QED
      BY <2>2, <2>3
  <1> QED
    BY <1>5, <1>6, <1>7 DEF Inv

LEMMA LeaveInv ==
    ASSUME Inv, NEW s \in Streams, Leave(s)
    PROVE  Inv'
  <1>1. TypeOK'
    BY DEF Leave, work, capture, told, Inv, TypeOK
  <1>2. \A d \in Clients : Asked(d)'
    BY DEF Leave, work, Inv, Asked
  <1>3. \A t \in Streams : StreamOK(t)'
    BY DEF Leave, told, Inv, StreamOK
  <1> QED
    BY <1>1, <1>2, <1>3 DEF Inv

-----------------------------------------------------------------------------
(* The theorems.                                                           *)

LEMMA InitInv == Init => Inv
  <1> SUFFICES ASSUME Init PROVE Inv
    OBVIOUS
  <1>1. session \in Session
    BY BoundsAssumption DEF Init, Session
  <1>2. TypeOK
    BY <1>1, BoundsAssumption DEF Init, TypeOK
  <1>3. \A c \in Clients : Asked(c)
    BY DEF Init, Asked
  <1>4. \A s \in Streams : StreamOK(s)
    BY DEF Init, StreamOK
  <1> QED
    BY <1>2, <1>3, <1>4 DEF Inv

LEMMA NextInv == Inv /\ [Next]_vars => Inv'
  <1> SUFFICES ASSUME Inv, [Next]_vars PROVE Inv'
    OBVIOUS
  <1>1. ASSUME NEW c \in Clients, Command(c) PROVE Inv'
    BY <1>1, StartInv, NotLoadedInv, ContinueApprovedInv, ContinuePausedInv,
       ContinueUnpausedInv, CloseInv, StateInv, StreamTurnInv, RunOrRunbookInv, TurnInv
       DEF Command
  <1>2. ASSUME NEW c \in Clients, Serve(c) PROVE Inv'
    BY <1>1, <1>2, ArriveInv, RedirectInv, RestoreInv, PublishesInv, AnnouncesInv,
       ReplyInv, DispatchesInv DEF Serve
  <1>3. ASSUME NEW s \in Streams, Streaming(s) \/ Leave(s) PROVE Inv'
    BY <1>3, PollInv, SendInv, LeaveInv DEF Streaming
  <1>4. CASE UNCHANGED vars
    BY <1>4 DEF vars, work, capture, told, streams, Inv, TypeOK, Asked, StreamOK
  <1> QED
    BY <1>2, <1>3, <1>4 DEF Next

LEMMA Invariance == Spec => []Inv
  BY InitInv, NextInv, PTL DEF Spec

(* Whatever the servers do, the state is one of the model's.               *)
THEOREM TypeCorrect == Spec => []TypeOK
  <1>1. Inv => TypeOK
    BY DEF Inv
  <1> QED
    BY <1>1, Invariance, PTL

(* What a stream has sent is the bus from its beginning, without a gap or a*)
(* repetition, whatever is published while it sends (_bus.py, app.py), for *)
(* overlapping requests as well and with any number of streams.            *)
THEOREM StreamsStayInOrder == Spec => []StreamsInOrder
  <1>1. ASSUME Inv PROVE StreamsInOrder
    <2> SUFFICES ASSUME NEW s \in Streams
                 PROVE  /\ Len(got[s]) <= Len(log)
                        /\ got[s] = SubSeq(log, 1, Len(got[s]))
      BY DEF StreamsInOrder
    <2> DEFINE n == Len(got[s])
               l == SubSeq(log, 1, n)
    <2>1. /\ got[s] \in Seq(Event) /\ log \in Seq(Event) /\ batch[s] \in Seq(Event)
          /\ StreamOK(s)
      BY <1>1 DEF Inv, TypeOK
    <2>2. n \in Nat /\ Len(log) \in Nat /\ n <= Len(log)
      <3>1. n \in Nat /\ Len(log) \in Nat /\ Len(batch[s]) \in Nat
        BY <2>1
      <3>2. n + Len(batch[s]) <= Len(log)
        BY <2>1 DEF StreamOK
      <3> HIDE DEF n
      <3> QED
        BY <3>1, <3>2
    <2>3. l \in Seq(Event) /\ Len(l) = n /\ \A i \in 1..n : l[i] = log[i]
      BY <2>1, <2>2
    <2>4. \A i \in 1..n : got[s][i] = log[i]
      BY <2>1 DEF StreamOK
    <2> HIDE DEF l
    <2>5. got[s] = l
      BY <2>1, <2>3, <2>4, SeqEqual
    <2> QED
      BY <2>2, <2>5 DEF l
  <1> QED
    BY <1>1, Invariance, PTL
=============================================================================
