------------------------------- MODULE Transport -------------------------------
(***************************************************************************)
(* The two HTTP servers in front of the commands, and what they tell about *)
(* a session: the ASGI application (api/app.py), which captures what a     *)
(* command prints, publishes events to a bus that streams read (_bus.py)   *)
(* and dispatches webhooks (_webhooks.py), and the standard-library server *)
(* (api/server.py, _handlers.py, _sse.py), which serves one request after  *)
(* the other and dispatches webhooks of its own. The session is what its   *)
(* file holds; how it gets there is DialogueSession's concern.             *)
(***************************************************************************)
EXTENDS Naturals, Sequences, StewardGate

CONSTANTS
    Servers,        \* which of the servers may run: "asgi", "stdlib"
    Clients,        \* requests that may be in flight
    Overlap,        \* may the ASGI server's requests overlap?
    Streams,        \* event streams that may be open (ASGI)
    MaxTurns,       \* session_max_turns
    Thresholds,     \* steward_thresholds
    RequestBound,   \* bound on the number of requests of a behaviour
    Nobody,         \* the process's own stdout, or a buffer nobody reads
    NoRequest       \* nothing is asked

Status == {"active", "paused", "closed", "at_limit"}
Over == {"closed", "at_limit"}

Session == [status : Status \cup {"absent"}, mode : SessionMode \cup {"none"},
            turns : 0..MaxTurns]

(* Start a session, a turn, a close, a look at the state, a stream, and    *)
(* run and runbook, which touch no session.                                *)
Request ==
    [kind : {"start"}, mode : SessionMode, prompt : BOOLEAN]
    \cup [kind : {"turn"}, action : {"none", "approve", "redirect", "close"},
          prompt : BOOLEAN]
    \cup [kind : {"close", "state", "stream", "run", "runbook"}]

(* What a document says: a session's status, "ok" for a run or a runbook   *)
(* that ended well, "error", or nothing of the kind; and whether it holds  *)
(* a pause. by is the request whose command printed it.                    *)
Told == Status \cup {"ok", "error", "none"}
Document == [told : Told, pause : BOOLEAN, by : Clients]

Event == [event : {"session_state", "turn_started", "turn_completed",
                   "steward_gate_triggered", "session_closed"}, told : Told]
Hook == {"SESSION_COMPLETE", "RUNBOOK_COMPLETE", "STEWARD_GATE_TRIGGERED"}

ASSUME BoundsAssumption == MaxTurns \in Nat \ {0} /\ RequestBound \in Nat
ASSUME ServersAssumption == Servers \subseteq {"asgi", "stdlib"} /\ Overlap \in BOOLEAN
ASSUME ThresholdsAssumption ==
    Thresholds.step_count \in Nat /\ Thresholds.token_budget \in Nat
ASSUME NobodyAssumption == Nobody \notin Clients /\ NoRequest \notin Request

VARIABLES
    server,     \* the server that runs
    session,    \* what the session's file holds
    requests,   \* requests so far
    pc, req,    \* where each request stands, and what it asks for
    copy,       \* the session each request holds in memory
    stdout,     \* whose buffer print writes to
    saved,      \* what each redirect_stdout will restore
    buf,        \* the documents captured for, or answered to, each request
    exit,       \* the command's exit code
    log,        \* the session's events on the bus
    hooks,      \* the webhooks dispatched
    conn,       \* the streams: "none", "open" or "gone"
    got,        \* what each stream has sent
    batch       \* what each stream has read from the bus and not sent

work    == <<session, copy>>
capture == <<stdout, saved>>
told    == <<log, hooks>>
streams == <<conn, got, batch>>
vars    == <<server, session, requests, pc, req, copy, stdout, saved, buf, exit,
             log, hooks, conn, got, batch>>

LC == INSTANCE SessionLifecycle WITH
          status <- session.status, mode <- session.mode,
          history <- [i \in 1..session.turns |-> i], RunIds <- 1..MaxTurns

-----------------------------------------------------------------------------
Init ==
    /\ server \in Servers
    /\ session = [status |-> "absent", mode |-> "none", turns |-> 0]
    /\ requests = 0
    /\ pc = [c \in Clients |-> "idle"]
    /\ req = [c \in Clients |-> NoRequest]
    /\ copy = [c \in Clients |-> session]
    /\ stdout = Nobody /\ saved = [c \in Clients |-> Nobody]
    /\ buf = [c \in Clients |-> <<>>]
    /\ exit = [c \in Clients |-> 0]
    /\ log = <<>> /\ hooks = <<>>
    /\ conn = [s \in Streams |-> "none"]
    /\ got = [s \in Streams |-> <<>>]
    /\ batch = [s \in Streams |-> <<>>]

Quiet == \A c \in Clients : pc[c] = "idle"

(* A request arrives. The standard-library server takes one at a time; the *)
(* ASGI server announces a turn before anything else.                      *)
Arrive(c, r) ==
    /\ pc[c] = "idle" /\ requests < RequestBound
    /\ Quiet \/ (server = "asgi" /\ Overlap)
    /\ IF r.kind = "start"
       THEN /\ session.status = "absent"
            /\ \A d \in Clients : pc[d] # "idle" => req[d].kind # "start"
       ELSE r.kind \in {"run", "runbook"} \/ session.status # "absent"
    /\ requests' = requests + 1
    /\ req' = [req EXCEPT ![c] = r]
    /\ buf' = [buf EXCEPT ![c] = <<>>]
    /\ log' = IF server = "asgi" /\ r.kind = "turn"
              THEN Append(log, [event |-> "turn_started", told |-> "none"])
              ELSE log
    /\ pc' = [pc EXCEPT ![c] = IF server = "asgi" THEN "invoke" ELSE "command"]
    /\ UNCHANGED <<server, work, capture, exit, hooks, streams>>

(* _invoke enters redirect_stdout, which replaces sys.stdout for all.      *)
Redirect(c) ==
    /\ pc[c] = "invoke"
    /\ saved' = [saved EXCEPT ![c] = stdout]
    /\ stdout' = c
    /\ pc' = [pc EXCEPT ![c] = "command"]
    /\ UNCHANGED <<server, work, requests, req, buf, exit, told, streams>>

-----------------------------------------------------------------------------
(* How a command ends. It prints to whatever stdout is then; a handler of  *)
(* the other server returns its document.                                  *)

Doc(c, status, pause) == [told |-> status, pause |-> pause, by |-> c]
Target(c) == IF server = "asgi" THEN stdout ELSE c
Put(b, where, docs) == IF where = Nobody THEN b ELSE [b EXCEPT ![where] = @ \o docs]

Ends(c, code) ==
    /\ exit' = [exit EXCEPT ![c] = code]
    /\ pc' = [pc EXCEPT ![c] = IF server = "asgi" THEN "restore" ELSE "reply"]

Answers(c, docs, code) ==
    /\ buf' = Put(buf, Target(c), docs)
    /\ Ends(c, code)

(* An exception leaves the command after it printed docs: _invoke writes   *)
(* an error document to the request's own buffer; the other server drops   *)
(* the connection.                                                         *)
Escapes(c, docs) ==
    IF server = "asgi"
    THEN /\ buf' = Put(Put(buf, Target(c), docs), c, <<Doc(c, "error", FALSE)>>)
         /\ Ends(c, 1)
    ELSE /\ pc' = [pc EXCEPT ![c] = "idle"]
         /\ UNCHANGED <<buf, exit>>

(* Mutant: a save that fails is not noticed.                               *)
SavesThenAnswersAnyway(c, s, docs, code) ==
    /\ session' \in {s, session}
    /\ Answers(c, docs, code)

(* save_session succeeds and the command answers, or it raises.            *)
SavesThenAnswers(c, s, docs, code) ==
    \/ session' = s /\ Answers(c, docs, code)
    \/ session' = session /\ Escapes(c, <<>>)

(* The error paths of a turn answer first and save afterwards.             *)
AnswersThenSaves(c, s, docs) ==
    \/ session' = s /\ Answers(c, docs, 1)
    \/ session' = session /\ Escapes(c, docs)

During(c, place, kinds) ==
    /\ pc[c] = place /\ req[c].kind \in kinds
    /\ UNCHANGED <<server, requests, req, capture, told, streams>>

-----------------------------------------------------------------------------
(* The commands.                                                           *)

NewSession(mode) == [status |-> "active", mode |-> mode, turns |-> 0]

GoTurn(c, s) ==
    /\ copy' = [copy EXCEPT ![c] = s]
    /\ pc' = [pc EXCEPT ![c] = "turn"]
    /\ UNCHANGED <<buf, exit>>

Start(c) ==
    /\ During(c, "command", {"start"})
    /\ IF req[c].prompt
       THEN GoTurn(c, NewSession(req[c].mode)) /\ UNCHANGED session
       ELSE /\ SavesThenAnswers(c, NewSession(req[c].mode),
                                <<Doc(c, "active", FALSE)>>, 0)
            /\ UNCHANGED copy

(* The file cannot be loaded, or the configuration: the command ends with  *)
(* a line on stderr, or raises.                                            *)
NotLoaded(c) ==
    /\ During(c, "command", {"turn", "close", "state", "stream"})
    /\ Answers(c, <<>>, 1) \/ (server = "asgi" /\ Escapes(c, <<>>))
    /\ UNCHANGED work

(* Mutant: the action is not tied to a pause.                              *)
ContinueAnyAction(c) ==
    /\ During(c, "command", {"turn"})
    /\ req[c].action \in {"approve", "redirect"}
    /\ \/ /\ session' = [session EXCEPT !.status = "active"]
          /\ IF req[c].prompt
             THEN GoTurn(c, session')
             ELSE /\ Answers(c, <<Doc(c, "active", FALSE)>>, 0)
                  /\ UNCHANGED copy
       \/ /\ Escapes(c, <<>>)
          /\ UNCHANGED work

(* An approval is saved before its turn runs. Without a prompt an approval *)
(* is answered and a redirect is refused.                                  *)
ContinueApproved(c) ==
    /\ During(c, "command", {"turn"})
    /\ session.status = "paused" /\ req[c].action \in {"approve", "redirect"}
    /\ \/ /\ session' = [session EXCEPT !.status = "active"]
          /\ IF req[c].prompt
             THEN GoTurn(c, session')
             ELSE /\ IF req[c].action = "approve"
                     THEN Answers(c, <<Doc(c, "active", FALSE)>>, 0)
                     ELSE Answers(c, <<>>, 1)
                  /\ UNCHANGED copy
       \/ /\ Escapes(c, <<>>)
          /\ UNCHANGED work

ContinuePaused(c) ==
    /\ During(c, "command", {"turn"})
    /\ session.status = "paused" /\ req[c].action \notin {"approve", "redirect"}
    /\ IF req[c].action = "close"
       THEN SavesThenAnswers(c, [session EXCEPT !.status = "closed"],
                             <<Doc(c, "closed", FALSE)>>, 0)
       ELSE Answers(c, <<Doc(c, "paused", FALSE)>>, 3) /\ UNCHANGED session
    /\ UNCHANGED copy

ContinueUnpaused(c) ==
    /\ During(c, "command", {"turn"})
    /\ session.status # "paused"
    /\ IF req[c].prompt THEN GoTurn(c, session)
                        ELSE Answers(c, <<>>, 1) /\ UNCHANGED copy
    /\ UNCHANGED session

Close(c) ==
    /\ During(c, "command", {"close"})
    /\ SavesThenAnswers(c, [session EXCEPT !.status = "closed"],
                        <<Doc(c, "closed", FALSE)>>, 0)
    /\ UNCHANGED copy

State(c) ==
    /\ During(c, "command",
              IF server = "asgi" THEN {"state", "stream"} ELSE {"state"})
    /\ Answers(c, <<Doc(c, session.status, FALSE)>>, 0)
    /\ UNCHANGED work

(* A stream of the standard-library server runs a turn of its own.         *)
StreamTurn(c) ==
    /\ server = "stdlib" /\ During(c, "command", {"stream"})
    /\ IF session.status = "active" THEN GoTurn(c, session)
                                    ELSE Answers(c, <<>>, 1) /\ UNCHANGED copy
    /\ UNCHANGED session

RunOrRunbook(c) ==
    /\ During(c, "command", {"run", "runbook"})
    /\ \/ Answers(c, <<Doc(c, "ok", FALSE)>>, 0)
       \/ Answers(c, <<>>, 1)
       \/ Escapes(c, <<>>)
    /\ UNCHANGED work

-----------------------------------------------------------------------------
(* A turn on the request's copy.                                           *)

TurnKinds == {"start", "turn", "stream"}

GateFires(s) == GateCheck(s.mode, Thresholds, s.turns, 0, {}) # NoPause

RecordTurn(s) ==
    [s EXCEPT !.turns = @ + 1,
              !.status = IF s.turns + 1 >= MaxTurns THEN "at_limit"
                         ELSE IF GateFires(s) THEN "paused" ELSE "active"]

(* Mutant: only a closed session refuses turns.                            *)
RefusedWhenClosed(s) == s.status = "closed"

Refused(s) == s.status # "active" \/ s.turns >= MaxTurns
AfterRefusal(s) == IF s.status = "active" THEN [s EXCEPT !.status = "at_limit"] ELSE s

(* What a turn that failed answers: session continue prints the status,    *)
(* session start a line on stderr, a handler an error code.                *)
ErrorDocs(c, s) ==
    IF server = "asgi" /\ req[c].kind = "turn"
    THEN <<Doc(c, s.status, FALSE)>> ELSE <<>>

TurnRefused(c) ==
    /\ During(c, "turn", TurnKinds)
    /\ Refused(copy[c])
    /\ LET s == AfterRefusal(copy[c]) IN AnswersThenSaves(c, s, ErrorDocs(c, s))
    /\ UNCHANGED copy

TurnRaises(c) ==
    /\ During(c, "turn", TurnKinds)
    /\ ~Refused(copy[c])
    /\ AnswersThenSaves(c, copy[c], ErrorDocs(c, copy[c]))
    /\ UNCHANGED copy

TurnNotBuilt(c) ==
    /\ During(c, "turn", TurnKinds)
    /\ Escapes(c, <<>>)
    /\ UNCHANGED work

TurnRuns(c) ==
    /\ During(c, "turn", TurnKinds)
    /\ ~Refused(copy[c])
    /\ LET s == RecordTurn(copy[c])
           pause == GateFires(copy[c])
       IN SavesThenAnswers(c, s, <<Doc(c, s.status, pause)>>,
                           IF pause /\ req[c].kind = "turn" THEN 3 ELSE 0)
    /\ UNCHANGED copy

-----------------------------------------------------------------------------
(* The ASGI server after the command.                                      *)

(* redirect_stdout restores what it found; a buffer whose request is over  *)
(* is read by nobody from then on.                                         *)
Restore(c) ==
    /\ pc[c] = "restore"
    /\ stdout' = IF saved[c] = c THEN Nobody ELSE saved[c]
    /\ saved' = [d \in Clients |-> IF d = c \/ saved[d] = c THEN Nobody ELSE saved[d]]
    /\ pc' = [pc EXCEPT ![c] = "publish"]
    /\ UNCHANGED <<server, work, requests, req, buf, exit, told, streams>>

(* Nothing, one JSON document, or text that is none.                       *)
Result(c) ==
    CASE buf[c] = <<>> -> Doc(c, "none", FALSE)
      [] Len(buf[c]) = 1 -> buf[c][1]
      [] OTHER -> Doc(c, "error", FALSE)

Publish(e, t) == Append(log, [event |-> e, told |-> t])

(* What is published as soon as the result is there. The first event of a  *)
(* session born with a turn carries that turn's status, "ok". Streams      *)
(* beyond Streams are not followed.                                        *)
Publishes(c) ==
    /\ pc[c] = "publish"
    /\ LET r == Result(c) k == req[c].kind IN
       /\ log' = CASE k = "turn" -> Publish("turn_completed", r.told)
                   [] k = "start" /\ r.told \in Status ->
                          Publish("session_state",
                                  IF req[c].prompt THEN "ok" ELSE r.told)
                   [] OTHER -> log
       /\ hooks' = IF k = "runbook" THEN Append(hooks, "RUNBOOK_COMPLETE") ELSE hooks
       /\ IF k = "stream"
          THEN \/ \E s \in Streams : /\ conn[s] = "none"
                                    /\ conn' = [conn EXCEPT ![s] = "open"]
               \/ (\A s \in Streams : conn[s] # "none") /\ UNCHANGED conn
          ELSE UNCHANGED conn
       /\ pc' = [pc EXCEPT ![c] = IF k \in {"turn", "close"} THEN "announce" ELSE "idle"]
    /\ UNCHANGED <<server, work, requests, req, capture, buf, exit, got, batch>>

(* Mutant: only a closed session counts as complete.                       *)
CompleteWhenClosed(c) ==
    IF req[c].kind = "turn" THEN Result(c).told = "closed" ELSE exit[c] = 0

(* Mutant: the exit code of a close is not looked at.                      *)
CompleteWhateverExit(c) ==
    IF req[c].kind = "turn" THEN Result(c).told \in Over ELSE TRUE

(* A turn is announced by what it tells, a close by its exit code.         *)
Complete(c) ==
    IF req[c].kind = "turn" THEN Result(c).told \in Over ELSE exit[c] = 0

Announces(c) ==
    /\ pc[c] = "announce"
    /\ LET r == Result(c)
           gate == req[c].kind = "turn" /\ r.told = "paused" IN
       /\ log' = IF gate THEN Publish("steward_gate_triggered", r.told)
                 ELSE IF Complete(c) THEN Publish("session_closed", r.told)
                 ELSE log
       /\ hooks' = IF gate THEN Append(hooks, "STEWARD_GATE_TRIGGERED")
                   ELSE IF Complete(c) THEN Append(hooks, "SESSION_COMPLETE")
                   ELSE hooks
    /\ pc' = [pc EXCEPT ![c] = "idle"]
    /\ UNCHANGED <<server, work, requests, req, capture, buf, exit, streams>>

-----------------------------------------------------------------------------
(* The standard-library server after the handler.                          *)

(* The answer is sent, or the client is gone and the exception ends the    *)
(* request before its webhook.                                             *)
Reply(c) ==
    /\ pc[c] = "reply"
    /\ pc' \in {[pc EXCEPT ![c] = "hook"], [pc EXCEPT ![c] = "idle"]}
    /\ UNCHANGED <<server, work, requests, req, capture, buf, exit, told, streams>>

Dispatches(c) ==
    /\ pc[c] = "hook"
    /\ LET r == Result(c) k == req[c].kind IN
       hooks' = IF k \in {"turn", "close"} /\ r.told = "closed"
                THEN Append(hooks, "SESSION_COMPLETE")
                ELSE IF k = "turn" /\ r.pause
                THEN Append(hooks, "STEWARD_GATE_TRIGGERED")
                ELSE IF k = "runbook" /\ r.told = "ok"
                THEN Append(hooks, "RUNBOOK_COMPLETE")
                ELSE hooks
    /\ pc' = [pc EXCEPT ![c] = "idle"]
    /\ UNCHANGED <<server, work, requests, req, capture, buf, exit, log, streams>>

-----------------------------------------------------------------------------
(* A stream polls the bus from its cursor, which is the number of events   *)
(* it has sent, and sends what it read one by one; others publish meanwhile.*)

Poll(s) ==
    /\ conn[s] = "open" /\ batch[s] = <<>> /\ Len(got[s]) < Len(log)
    /\ batch' = [batch EXCEPT ![s] = SubSeq(log, Len(got[s]) + 1, Len(log))]
    /\ UNCHANGED <<server, work, requests, pc, req, capture, buf, exit, told, conn, got>>

(* Mutant: the stream ends itself at session_closed.                       *)
SendUntilClosed(s) ==
    /\ conn[s] = "open" /\ batch[s] # <<>>
    /\ got' = [got EXCEPT ![s] = Append(@, Head(batch[s]))]
    /\ batch' = [batch EXCEPT ![s] = Tail(@)]
    /\ conn' = IF Head(batch[s]).event = "session_closed"
               THEN [conn EXCEPT ![s] = "none"] ELSE conn
    /\ UNCHANGED <<server, work, requests, pc, req, capture, buf, exit, told>>

(* Mutant: the last event read is taken for the last one there is.         *)
SendNewest(s) ==
    /\ conn[s] = "open" /\ batch[s] # <<>>
    /\ got' = [got EXCEPT ![s] = Append(@, log[Len(log)])]
    /\ batch' = [batch EXCEPT ![s] = Tail(@)]
    /\ UNCHANGED <<server, work, requests, pc, req, capture, buf, exit, told, conn>>

Send(s) ==
    /\ conn[s] = "open" /\ batch[s] # <<>>
    /\ got' = [got EXCEPT ![s] = Append(@, Head(batch[s]))]
    /\ batch' = [batch EXCEPT ![s] = Tail(@)]
    /\ UNCHANGED <<server, work, requests, pc, req, capture, buf, exit, told, conn>>

Leave(s) ==
    /\ conn[s] = "open"
    /\ conn' = [conn EXCEPT ![s] = "gone"]
    /\ UNCHANGED <<server, work, requests, pc, req, capture, buf, exit, told, got, batch>>

-----------------------------------------------------------------------------
Command(c) ==
    \/ Start(c) \/ NotLoaded(c)
    \/ ContinueApproved(c) \/ ContinuePaused(c) \/ ContinueUnpaused(c)
    \/ Close(c) \/ State(c) \/ StreamTurn(c) \/ RunOrRunbook(c)
    \/ TurnRefused(c) \/ TurnRaises(c) \/ TurnNotBuilt(c) \/ TurnRuns(c)

Serve(c) ==
    \/ \E r \in Request : Arrive(c, r)
    \/ Redirect(c)
    \/ Command(c)
    \/ Restore(c) \/ Publishes(c) \/ Announces(c)
    \/ Reply(c) \/ Dispatches(c)

Streaming(s) == Poll(s) \/ Send(s)

Next ==
    \/ \E c \in Clients : Serve(c)
    \/ \E s \in Streams : Streaming(s) \/ Leave(s)

Spec == Init /\ [][Next]_vars

(* The event loop comes back to every open stream; nothing makes requests  *)
(* come, and a command may take as long as it likes.                       *)
FairSpec == Spec /\ \A s \in Streams : WF_vars(Streaming(s))

-----------------------------------------------------------------------------
TypeOK ==
    /\ server \in Servers
    /\ session \in Session /\ copy \in [Clients -> Session]
    /\ requests \in 0..RequestBound
    /\ pc \in [Clients -> {"idle", "invoke", "command", "turn", "restore",
                           "publish", "announce", "reply", "hook"}]
    /\ req \in [Clients -> Request \cup {NoRequest}]
    /\ stdout \in Clients \cup {Nobody}
    /\ saved \in [Clients -> Clients \cup {Nobody}]
    /\ buf \in [Clients -> Seq(Document)]
    /\ exit \in [Clients -> {0, 1, 3}]
    /\ log \in Seq(Event) /\ hooks \in Seq(Hook)
    /\ conn \in [Streams -> {"none", "open", "gone"}]
    /\ got \in [Streams -> Seq(Event)] /\ batch \in [Streams -> Seq(Event)]

(* A client is never told a status of its session that the file does not   *)
(* hold, though error paths print it before they save, and saves fail.     *)
AnswersTrue ==
    ~Overlap => \A c \in Clients :
        pc[c] \in {"publish", "announce", "reply", "hook"} /\ Result(c).told \in Status
        => Result(c).told = session.status

(* Once the ASGI server has answered, the bus says that the session is     *)
(* over exactly when it is, with the status it ended in. A session that    *)
(* its first turn ends is the exception: session start announces nothing.  *)
EndingsTold ==
    server = "asgi" /\ ~Overlap /\ Quiet /\ MaxTurns > 1 =>
        LET ends == {i \in 1..Len(log) : log[i].event = "session_closed"} IN
        IF session.status \in Over
        THEN \E i \in ends : /\ log[i].told = session.status
                             /\ \A j \in ends : j <= i
        ELSE ends = {}

(* No webhook says that a session is complete while it can take a turn,    *)
(* and a turn never follows one, on either server.                         *)
CompleteIsFinal ==
    [][(\E i \in 1..Len(hooks) : hooks[i] = "SESSION_COMPLETE")
       => session.status \in Over /\ session'.turns = session.turns]_vars

(* Both servers take a session through ADR-024's lifecycle, whatever saves *)
(* fail and whichever of the routes runs its turns.                        *)
KeepsLifecycle == LC!Spec

(* What a stream has sent is the bus from its beginning, in order, without *)
(* gaps or repetitions, though events are published while it sends.        *)
StreamsInOrder ==
    \A s \in Streams : /\ Len(got[s]) <= Len(log)
                       /\ got[s] = SubSeq(log, 1, Len(got[s]))

(* An open stream sends everything, unless its client leaves.              *)
StreamsCatchUp ==
    \A s \in Streams : conn[s] = "open" ~> got[s] = log \/ conn[s] = "gone"

(* _invoke: "result_dict is parsed from the captured JSON output": what is *)
(* captured for a request was printed by its own command.                  *)
AnswersOwn == \A c \in Clients : \A i \in 1..Len(buf[c]) : buf[c][i].by = c
=============================================================================
