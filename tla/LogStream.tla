----------------------------- MODULE LogStream ------------------------------
(***************************************************************************)
(* How the log of a run reaches the dashboard: the WebSocket loop and the  *)
(* log and run requests of backend/app/api/routes.py, and the hook         *)
(* useRunPolling of the dashboard with its socket, its reconnect timer,    *)
(* its HTTP fallback and its status poll, as App.tsx uses it.              *)
(*                                                                         *)
(* A log line is its number within the run, from 1; the sentinel __DONE__  *)
(* is 0.  A request is the statements of its handler and the callback that *)
(* gets its answer; answers arrive in any order or not at all.             *)
(***************************************************************************)
EXTENDS Naturals, Sequences, FiniteSets

CONSTANTS
  Runs,
  Conns,     \* bound: WebSockets that exist at once
  MaxLog,    \* bound: lines of a run's log
  MaxShown,  \* bound: lines that the dashboard shows
  NoRun, NoConn

ASSUME NamesOK == NoRun \notin Runs /\ NoConn \notin Conns /\ MaxLog \in Nat

VARIABLES
  log,     \* per run: lines logged, whether its status is terminal, the lines
           \* there were when it became so
  sock,    \* per WebSocket: its run, the client's side, the server's loop,
           \* last_id, the messages under way
  active,  \* the run the dashboard follows, its activeRunId
  created, \* the runs it created
  lines,   \* the lines it shows
  done,    \* doneRef
  ref,     \* wsRef, pollRef and reconnectTimer, the timers by their run
  cancelling,  \* the cancel request that the user waits for
  call,        \* the HTTP requests
  reconnecting \* history: a socket closed before the run was done

shown == <<active, created, lines, done>>
vars == <<log, sock, shown, ref, cancelling, call, reconnecting>>

\* bound: one request of the status poll and one of the fallback in flight.
Calls == {"status", "poll"}
Idle == [run |-> NoRun, stage |-> "idle", value |-> 0]
Free == [run |-> NoRun, link |-> "free", server |-> "off", lastId |-> 0,
         inbox |-> <<>>]
NoRef == [ws |-> NoConn, poll |-> NoRun, timer |-> NoRun]
DONE == 0

Init ==
  /\ log = [r \in Runs |-> [lines |-> 0, over |-> FALSE, atEnd |-> 0]]
  /\ sock = [c \in Conns |-> Free]
  /\ active = NoRun /\ created = {} /\ lines = <<>> /\ done = FALSE
  /\ ref = NoRef /\ cancelling = NoRun
  /\ call = [q \in Calls |-> Idle] /\ reconnecting = FALSE

-----------------------------------------------------------------------------
(* The run: lines are committed before its status is terminal and after it *)

LogLine(r) ==
  /\ r \in created /\ log[r].lines < MaxLog
  /\ log' = [log EXCEPT ![r].lines = @ + 1]
  /\ UNCHANGED <<sock, shown, ref, cancelling, call, reconnecting>>

Finish(r) ==
  log' = [log EXCEPT ![r].over = TRUE,
                     ![r].atEnd = IF log[r].over THEN @ ELSE log[r].lines]

FinishRun(r) ==
  /\ r \in created /\ ~log[r].over /\ Finish(r)
  /\ UNCHANGED <<sock, shown, ref, cancelling, call, reconnecting>>

-----------------------------------------------------------------------------
(* websocket_logs *)

\* The lines that are new to the loop.
New(c) ==
  LET from == sock[c].lastId
  IN  [i \in 1..(log[sock[c].run].lines - from) |-> from + i]

ServerStep(c, from, to, messages, lastId) ==
  /\ sock[c].server = from
  /\ sock' = [sock EXCEPT ![c].server = to, ![c].inbox = @ \o messages,
                          ![c].lastId = lastId]
  /\ UNCHANGED <<log, shown, ref, cancelling, call, reconnecting>>

\* Mutant of SendNew: last_id stays what it was.
SendAgain(c) == ServerStep(c, "read", "status", New(c), sock[c].lastId)

SendNew(c) == ServerStep(c, "read", "status", New(c), log[sock[c].run].lines)

CheckRun(c) ==
  ServerStep(c, "status", IF log[sock[c].run].over THEN "final" ELSE "read",
             <<>>, sock[c].lastId)

\* Mutant of SendFinal: the sentinel without the last read.
SendDone(c) == ServerStep(c, "final", "ended", <<DONE>>, sock[c].lastId)

\* 0.5 s later: what was logged since, then the sentinel, then close.
SendFinal(c) ==
  ServerStep(c, "final", "ended", Append(New(c), DONE), log[sock[c].run].lines)

-----------------------------------------------------------------------------
(* The hook *)

\* cleanup(): the socket that wsRef names is closed, the timers are cleared.
Cleanup ==
  /\ sock' = [c \in Conns |-> IF c # ref.ws THEN sock[c]
                              ELSE [Free EXCEPT !.run = sock[c].run,
                                                !.link = "closing"]]
  /\ ref' = NoRef

\* setActiveRunId(null): the effect is torn down.
StopFollowing ==
  /\ active' = NoRun
  /\ IF active = NoRun THEN UNCHANGED <<sock, ref>> ELSE Cleanup

\* connectWs, when the run is not done.
Connect(r, cleared) ==
  \E c \in Conns :
    /\ sock[c].link = "free"
    /\ sock' = [sock EXCEPT ![c] = [Free EXCEPT !.run = r, !.link = "opening"]]
    /\ ref' = [cleared EXCEPT !.ws = c]

\* A new run is created and followed.
Follow(r) ==
  /\ active = NoRun /\ r \notin created /\ cancelling = NoRun
  /\ active' = r /\ created' = created \cup {r}
  /\ lines' = <<>> /\ done' = FALSE
  /\ Connect(r, ref)
  /\ UNCHANGED <<log, cancelling, call, reconnecting>>

\* The user cancels the run; when the answer arrives it is not followed more.
UserCancels ==
  /\ active # NoRun /\ cancelling = NoRun /\ ~log[active].over
  /\ cancelling' = active /\ Finish(active)
  /\ UNCHANGED <<sock, shown, ref, call, reconnecting>>

CancelAnswered ==
  /\ cancelling # NoRun /\ cancelling' = NoRun
  /\ StopFollowing
  /\ UNCHANGED <<log, created, lines, done, call, reconnecting>>

Opened(c) ==
  /\ sock[c].link = "opening"
  /\ sock' = [sock EXCEPT ![c].link = "open", ![c].server = "read"]
  /\ ref' = [ref EXCEPT !.poll = NoRun]
  /\ UNCHANGED <<log, shown, cancelling, call, reconnecting>>

\* The connection breaks, or cannot be opened.
Break(c) ==
  /\ sock[c].link \in {"opening", "open"}
  /\ sock' = [sock EXCEPT ![c] = [Free EXCEPT !.run = sock[c].run,
                                             !.link = "closing"]]
  /\ UNCHANGED <<log, shown, ref, cancelling, call, reconnecting>>

\* Mutant of OnClose: it connects again at once, the timer on top.
OnCloseTwice(c) ==
  /\ sock[c].link = "closing" /\ ~done
  /\ sock' = [sock EXCEPT ![c].link = "opening"]
  /\ ref' = [ref EXCEPT !.ws = c, !.timer = sock[c].run]
  /\ UNCHANGED <<log, shown, cancelling, call, reconnecting>>

\* Mutant of OnClose: the server's loop goes on.
OnCloseKeeps(c) ==
  /\ sock[c].link = "closing" \/ sock[c].server = "ended"
  /\ sock' = [sock EXCEPT ![c].link = "free"]
  /\ ref' = [ref EXCEPT !.ws = NoConn]
  /\ UNCHANGED <<log, shown, cancelling, call, reconnecting>>

\* onclose: unless the run is done, fall back to HTTP and reconnect, for the
\* run that the socket was opened for.
OnClose(c) ==
  LET r == sock[c].run IN
  /\ \/ sock[c].link = "closing"
     \/ sock[c].server = "ended" /\ sock[c].inbox = <<>>
  /\ sock' = [sock EXCEPT ![c] = Free]
  /\ ref' = IF done THEN [ref EXCEPT !.ws = NoConn]
            ELSE [ws |-> NoConn, timer |-> r,
                  poll |-> IF ref.poll = NoRun THEN r ELSE ref.poll]
  /\ reconnecting' = (reconnecting \/ ~done)
  /\ UNCHANGED <<log, shown, cancelling, call>>

TimerFires ==
  /\ ref.timer # NoRun
  /\ LET cleared == [ref EXCEPT !.timer = NoRun] IN
     IF done THEN ref' = cleared /\ UNCHANGED sock
             ELSE Connect(ref.timer, cleared)
  /\ UNCHANGED <<log, shown, cancelling, call, reconnecting>>

Issue(q, r) ==
  call[q] = Idle /\ call' = [call EXCEPT ![q] = [Idle EXCEPT !.run = r,
                                                           !.stage = "sent"]]

\* onmessage
OnLine(c) ==
  /\ sock[c].inbox # <<>> /\ Head(sock[c].inbox) # DONE
  /\ sock' = [sock EXCEPT ![c].inbox = Tail(@)]
  /\ lines' = IF Len(lines) = MaxShown THEN lines
              ELSE Append(lines, <<sock[c].run, Head(sock[c].inbox)>>)
  /\ UNCHANGED <<log, active, created, done, ref, cancelling, call,
                 reconnecting>>

OnDone(c) ==
  /\ sock[c].inbox # <<>> /\ Head(sock[c].inbox) = DONE
  /\ sock' = [sock EXCEPT ![c].inbox = Tail(@)]
  /\ Issue("status", sock[c].run)
  /\ UNCHANGED <<log, shown, ref, cancelling, reconnecting>>

\* Mutant of StatusTick: there is no status poll.
StatusNever == FALSE /\ UNCHANGED vars

StatusTick ==
  /\ active # NoRun /\ ~done /\ Issue("status", active)
  /\ UNCHANGED <<log, sock, shown, ref, cancelling, reconnecting>>

PollTick ==
  /\ ref.poll # NoRun
  /\ IF done THEN Cleanup /\ UNCHANGED call
             ELSE Issue("poll", ref.poll) /\ UNCHANGED <<sock, ref>>
  /\ UNCHANGED <<log, shown, cancelling, reconnecting>>

-----------------------------------------------------------------------------
(* The requests *)

Serve(q, from, to, value) ==
  /\ call[q].stage = from
  /\ call' = [call EXCEPT ![q].stage = to, ![q].value = value]
  /\ UNCHANGED <<log, sock, shown, ref, cancelling, reconnecting>>

\* get_run: 1 for a terminal status.
GetRun(q) == Serve(q, "sent", "run", IF log[call[q].run].over THEN 1 ELSE 0)

\* get_run_logs
GetLogs(q) == Serve(q, "log", "lines", log[call[q].run].lines)

CallFails(q) ==
  /\ call[q].stage \in {"sent", "log"}
  /\ call' = [call EXCEPT ![q] = Idle]
  /\ UNCHANGED <<log, sock, shown, ref, cancelling, reconnecting>>

\* fetchRunAndCheckDone, whatever run is followed by now.
RunAnswered(q) ==
  /\ call[q].stage = "run"
  /\ IF call[q].value = 1
     THEN /\ done' = TRUE /\ Cleanup
          /\ call' = [call EXCEPT ![q].stage = "reports"]
     ELSE /\ UNCHANGED <<done, sock, ref>>
          /\ call' = [call EXCEPT
                        ![q] = IF q = "poll" THEN [@ EXCEPT !.stage = "log"]
                                             ELSE Idle]
  /\ UNCHANGED <<log, active, created, lines, cancelling, reconnecting>>

LogsAnswered(q) ==
  /\ call[q].stage = "lines"
  /\ lines' = IF call[q].value = 0 THEN lines
              ELSE [i \in 1..call[q].value |-> <<call[q].run, i>>]
  /\ call' = [call EXCEPT ![q] = Idle]
  /\ UNCHANGED <<log, sock, active, created, done, ref, cancelling,
                 reconnecting>>

\* The list of reports came or failed: onRunComplete, which follows no run.
OnRunComplete(q) ==
  /\ call[q].stage = "reports"
  /\ call' = [call EXCEPT ![q] = Idle]
  /\ StopFollowing
  /\ UNCHANGED <<log, created, lines, done, cancelling, reconnecting>>

-----------------------------------------------------------------------------
Socket(c) ==
  \/ SendNew(c) \/ CheckRun(c) \/ SendFinal(c)
  \/ Opened(c) \/ Break(c) \/ OnClose(c) \/ OnLine(c) \/ OnDone(c)

Answer(q) == RunAnswered(q) \/ LogsAnswered(q) \/ OnRunComplete(q)

Next ==
  \/ \E r \in Runs : LogLine(r) \/ FinishRun(r) \/ Follow(r)
  \/ \E c \in Conns : Socket(c)
  \/ UserCancels \/ CancelAnswered \/ TimerFires \/ StatusTick \/ PollTick
  \/ \E q \in Calls : GetRun(q) \/ GetLogs(q) \/ CallFails(q) \/ Answer(q)

Spec == Init /\ [][Next]_vars

\* The status poll fires, a status request that is repeated again and again is
\* served at last, and answers are delivered.  Nothing is asked of the sockets,
\* the fallback and the runs.
FairSpec ==
  /\ Spec
  /\ WF_vars(StatusTick) /\ WF_vars(CancelAnswered)
  /\ SF_vars(GetRun("status"))
  /\ \A q \in Calls : WF_vars(Answer(q))

-----------------------------------------------------------------------------
TypeOK ==
  /\ log \in [Runs -> [lines : 0..MaxLog, over : BOOLEAN, atEnd : 0..MaxLog]]
  /\ \A c \in Conns :
       /\ sock[c].run \in Runs \cup {NoRun}
       /\ sock[c].link \in {"free", "opening", "open", "closing"}
       /\ sock[c].server \in {"off", "read", "status", "final", "ended"}
       /\ sock[c].link = "free" => sock[c] = Free
       /\ Len(sock[c].inbox) <= MaxLog + 1
  /\ active \in Runs \cup {NoRun} /\ created \subseteq Runs
  /\ done \in BOOLEAN /\ ref.ws \in Conns \cup {NoConn}
  /\ {ref.poll, ref.timer, cancelling} \subseteq Runs \cup {NoRun}
  /\ \A q \in Calls : (call[q].run = NoRun) <=> (call[q] = Idle)

(***************************************************************************)
(* Until it has to reconnect, the dashboard shows the log of the run it    *)
(* follows: its first lines, each once and in order, although the server   *)
(* reads it in slices (REQ-MON-001).  A reconnect starts again at the      *)
(* first line.                                                             *)
(***************************************************************************)
ShownIsPrefix ==
  active # NoRun /\ ~reconnecting =>
    \A i \in DOMAIN lines : lines[i] = <<active, i>>

(***************************************************************************)
(* A stream that ends with the sentinel has sent everything that was       *)
(* logged before the run became terminal, although the server reads the    *)
(* log and the status in two statements (REQ-MON-002, the final drain).    *)
(***************************************************************************)
SentinelIsLast ==
  \A c \in Conns :
    sock[c].server = "ended" => sock[c].lastId >= log[sock[c].run].atEnd

(***************************************************************************)
(* A run never has two sockets: a reconnect does not run beside the socket *)
(* it replaces.                                                            *)
(***************************************************************************)
OneSocket ==
  \A r \in Runs :
    Cardinality({c \in Conns : sock[c].run = r
                               /\ sock[c].link \in {"opening", "open"}}) <= 1

(***************************************************************************)
(* The end of a followed run is noticed, whatever happens to the socket:   *)
(* the status poll catches it (useRunPolling.tsx:145).                     *)
(***************************************************************************)
EndIsNoticed ==
  \A r \in Runs : active = r /\ log[r].over ~> active # r
=============================================================================
