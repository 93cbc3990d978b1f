-------------------------- MODULE LogStreamProofs ---------------------------
(***************************************************************************)
(* Proofs about LogStream, for any runs, connections and bounds: a run has *)
(* one socket, the sentinel comes last, and until a reconnect the lines    *)
(* shown are the log.                                                      *)
(*                                                                         *)
(* A socket that is not free, or the reconnect timer that takes its place, *)
(* belongs to one created run (Apart), a stream is never ahead of the log  *)
(* (Behind), and until the first reconnect the only open socket is the one *)
(* of the followed run, whose lines and messages count up (Straight).      *)
(***************************************************************************)
EXTENDS LogStream, FiniteSetTheorems, SequenceTheorems, TLAPS

Sock == [run : Runs \cup {NoRun},
         link : {"free", "opening", "open", "closing"},
         server : {"off", "read", "status", "final", "ended"},
         lastId : Nat, inbox : Seq(Nat)]

Request == [run : Runs \cup {NoRun}, value : Nat,
            stage : {"idle", "sent", "run", "log", "lines", "reports"}]

Types ==
  /\ log \in [Runs -> [lines : 0..MaxLog, over : BOOLEAN, atEnd : 0..MaxLog]]
  /\ sock \in [Conns -> Sock]
  /\ active \in Runs \cup {NoRun} /\ created \in SUBSET Runs
  /\ lines \in Seq(Runs \X Nat) /\ done \in BOOLEAN /\ reconnecting \in BOOLEAN
  /\ ref \in [ws : Conns \cup {NoConn}, poll : Runs \cup {NoRun},
              timer : Runs \cup {NoRun}]
  /\ cancelling \in Runs \cup {NoRun}
  /\ call \in [Calls -> Request]

\* Requests have a run, and the status poll reads no lines.
Requests ==
  /\ \A q \in Calls : (call[q].run = NoRun) <=> (call[q] = Idle)
  /\ call["status"].stage \notin {"log", "lines"}
  /\ \A q \in Calls : call[q] = Idle \/ call[q].stage # "idle"

Sound(s) ==
  /\ s.link = "free" => s = Free
  /\ s.link # "free" => s.run \in created
  /\ s.server # "off" <=> s.link = "open"
  /\ s.link # "open" => s.lastId = 0 /\ s.inbox = <<>>

Sockets == \A c \in Conns : Sound(sock[c])

Apart ==
  /\ \A c, d \in Conns :
       c # d /\ sock[c].link # "free" /\ sock[d].link # "free"
         => sock[c].run # sock[d].run
  /\ \A c \in Conns : sock[c].link # "free" => sock[c].run # ref.timer
  /\ ref.ws # NoConn => sock[ref.ws].link # "free"
  /\ {ref.timer, ref.poll, active} \subseteq created \cup {NoRun}

\* How much of a log a server's loop may have sent.
Lags(s, l) ==
  /\ s.lastId <= l.lines
  /\ Len(s.inbox) <= IF s.server = "ended" THEN s.lastId + 1 ELSE s.lastId
  /\ s.server \in {"final", "ended"} => l.over
  /\ s.server = "ended" => s.lastId >= l.atEnd

Behind ==
  /\ \A r \in Runs : log[r].atEnd <= log[r].lines
  /\ \A c \in Conns :
       sock[c].link = "open" => Lags(sock[c], log[sock[c].run])

\* The messages under way follow the n lines that are shown.
Counts(s, n) ==
  /\ \A k \in DOMAIN s.inbox :
       \/ s.inbox[k] = n + k
       \/ s.inbox[k] = DONE /\ s.server = "ended" /\ k = Len(s.inbox)
  /\ s.server # "ended" => s.lastId = n + Len(s.inbox)

Straight ==
  ~reconnecting =>
    /\ ref.timer = NoRun /\ ref.poll = NoRun /\ call["poll"] = Idle
    /\ active # NoRun => \A i \in DOMAIN lines : lines[i] = <<active, i>>
    /\ \A c \in Conns : sock[c].link \in {"opening", "open"} =>
         /\ c = ref.ws /\ sock[c].run = active /\ ~done
         /\ sock[c].link = "opening" => lines = <<>>
         /\ sock[c].link = "open" /\ Len(lines) # MaxShown
              => Counts(sock[c], Len(lines))

IInv == Types /\ Requests /\ Sockets /\ Apart /\ Behind /\ Straight

USE DEF shown

-----------------------------------------------------------------------------
LEMMA FreeIsSock == Free \in Sock
BY DEF Free, Sock

LEMMA InitInv == Init => IInv
<1> SUFFICES ASSUME Init PROVE IInv
  OBVIOUS
<1>1. Types
  <2>1. sock \in [Conns -> Sock]
    BY FreeIsSock DEF Init
  <2>2. log \in [Runs -> [lines : 0..MaxLog, over : BOOLEAN,
                         atEnd : 0..MaxLog]]
    BY NamesOK DEF Init
  <2>3. ref \in [ws : Conns \cup {NoConn}, poll : Runs \cup {NoRun},
                timer : Runs \cup {NoRun}]
    BY DEF Init, NoRef
  <2>4. call \in [Calls -> Request]
    BY DEF Init, Idle, Request
  <2>5. /\ lines \in Seq(Runs \X Nat) /\ active \in Runs \cup {NoRun}
        /\ created \in SUBSET Runs /\ cancelling \in Runs \cup {NoRun}
        /\ done \in BOOLEAN /\ reconnecting \in BOOLEAN
    BY EmptySeq DEF Init
  <2> QED BY <2>1, <2>2, <2>3, <2>4, <2>5 DEF Types
<1>2. Requests
  <2>1. \A q \in Calls : call[q] = Idle
    BY DEF Init
  <2> QED BY <2>1 DEF Requests, Idle, Calls
<1>3. Sockets /\ Apart /\ Behind /\ Straight
  BY DEF Init, Sockets, Sound, Apart, Behind, Straight, Free, NoRef, Calls
<1> QED BY <1>1, <1>2, <1>3 DEF IInv

\* What a socket knows.
LEMMA Facts ==
  ASSUME IInv, NEW c \in Conns
  PROVE  /\ sock[c] \in Sock
         /\ sock[c].link # "free" => /\ sock[c].run \in Runs
                                     /\ sock[c].run \in created
                                     /\ sock[c].run # NoRun
         /\ sock[c].server # "off" => sock[c].link = "open"
         /\ sock[c].inbox # <<>> => sock[c].link = "open"
BY NamesOK DEF IInv, Types, Sockets, Sound, Sock, Free

-----------------------------------------------------------------------------
\* The run.
Grows(r) ==
  log[r].lines < MaxLog /\ log' = [log EXCEPT ![r].lines = @ + 1]

LEMMA LogInv ==
  ASSUME IInv, NEW r \in Runs, Grows(r) \/ Finish(r),
         cancelling' \in Runs \cup {NoRun},
         UNCHANGED <<sock, shown, ref, call, reconnecting>>
  PROVE  IInv'
<1>1. /\ log' \in [Runs -> [lines : 0..MaxLog, over : BOOLEAN,
                            atEnd : 0..MaxLog]]
      /\ \A x \in Runs : /\ log'[x].atEnd <= log'[x].lines
                         /\ log'[x].lines >= log[x].lines
                         /\ log[x].over => /\ log'[x].over
                                           /\ log'[x].atEnd = log[x].atEnd
  <2> DEFINE L == [lines : 0..MaxLog, over : BOOLEAN, atEnd : 0..MaxLog]
  <2>1. PICK l \in L :
          /\ log' = [log EXCEPT ![r] = l]
          /\ l.atEnd <= l.lines /\ l.lines >= log[r].lines
          /\ log[r].over => l.over /\ l.atEnd = log[r].atEnd
    <3>1. log[r] \in L /\ log[r].atEnd <= log[r].lines
      BY DEF IInv, Types, Behind
    <3>2. CASE Grows(r)
      <4> DEFINE l == [log[r] EXCEPT !.lines = @ + 1]
      <4>1. l \in L /\ l.lines = log[r].lines + 1 /\ l.over = log[r].over
            /\ l.atEnd = log[r].atEnd
        BY <3>1, <3>2, NamesOK DEF Grows
      <4>2. log' = [log EXCEPT ![r] = l]
        BY <3>2 DEF Grows
      <4>3. /\ l.atEnd <= l.lines /\ l.lines >= log[r].lines
            /\ log[r].over => l.over /\ l.atEnd = log[r].atEnd
        <5> HIDE DEF l
        <5> QED BY <3>1, <4>1, NamesOK
      <4> HIDE DEF l, L
      <4> QED BY <4>1, <4>2, <4>3
    <3>3. CASE Finish(r)
      <4> DEFINE l == [log[r] EXCEPT !.over = TRUE,
                                     !.atEnd = IF log[r].over THEN @
                                               ELSE log[r].lines]
      <4>1. l \in L /\ l.lines = log[r].lines /\ l.over
            /\ l.atEnd = IF log[r].over THEN log[r].atEnd ELSE log[r].lines
        BY <3>1, <3>3, NamesOK
      <4>2. log' = [log EXCEPT ![r] = l]
        BY <3>3 DEF Finish
      <4>3. /\ l.atEnd <= l.lines /\ l.lines >= log[r].lines
            /\ log[r].over => l.over /\ l.atEnd = log[r].atEnd
        <5> HIDE DEF l
        <5> QED BY <3>1, <4>1, NamesOK
      <4> HIDE DEF l, L
      <4> QED BY <4>1, <4>2, <4>3
    <3> QED BY <3>2, <3>3
  <2>2. log \in [Runs -> L] /\ \A x \in Runs : log[x].lines \in Nat
    BY NamesOK DEF IInv, Types
  <2> HIDE DEF L
  <2>3. log' \in [Runs -> L]
    BY <2>1, <2>2
  <2>4. \A x \in Runs : log'[x] = IF x = r THEN l ELSE log[x]
    BY <2>1, <2>2
  <2> QED BY <2>1, <2>2, <2>3, <2>4 DEF IInv, Behind, L
<1>2. UNCHANGED <<sock, shown, ref, call, reconnecting>>
  OBVIOUS
<1>3. Types' /\ Requests' /\ Sockets' /\ Apart'
  BY <1>1, <1>2 DEF IInv, Types, Requests, Sockets, Sound, Apart
<1>4. Straight'
  BY <1>2 DEF IInv, Straight, Counts
<1>5. Behind'
  <2>1. ASSUME NEW c \in Conns, sock[c].link = "open"
        PROVE  Lags(sock[c], log[sock[c].run])'
    <3>1. PICK x \in Runs : x = sock[c].run
      BY <2>1, Facts
    <3>2. Lags(sock[c], log[x])
      BY <2>1, <3>1 DEF IInv, Behind
    <3>3. Lags(sock[c], log'[x])
      <4>1. /\ sock[c].lastId \in Nat /\ log[x].lines \in Nat
            /\ log'[x].lines \in Nat /\ log'[x].lines >= log[x].lines
            /\ log[x].over => log'[x].over /\ log'[x].atEnd = log[x].atEnd
        BY <1>1, Facts, NamesOK DEF IInv, Types, Sock
      <4> QED BY <3>2, <4>1 DEF Lags
    <3> QED BY <1>2, <3>1, <3>3 DEF Lags
  <2> QED BY <1>1, <1>2, <2>1 DEF Behind
<1> QED BY <1>3, <1>4, <1>5 DEF IInv

LEMMA RunInv ==
  ASSUME IInv, NEW r \in Runs, LogLine(r) \/ FinishRun(r)
  PROVE  IInv'
<1>1. cancelling' \in Runs \cup {NoRun}
  BY DEF LogLine, FinishRun, IInv, Types
<1> QED BY <1>1, LogInv DEF LogLine, FinishRun, Grows

\* A server's loop goes on, and may send messages.
Sent(c, to, ms, last) ==
  /\ sock' = [sock EXCEPT ![c].server = to, ![c].inbox = @ \o ms,
                          ![c].lastId = last]
  /\ UNCHANGED <<log, shown, ref, cancelling, call, reconnecting>>

\* Its messages are the next lines, or the last ones and the sentinel.
NextMessages(c, to, ms, last) ==
  LET l == log[sock[c].run] IN
  /\ to \in {"final", "ended"} => l.over
  /\ to = "ended" => last = l.lines
  /\ last <= l.lines
  /\ to # "ended" => last = sock[c].lastId + Len(ms)
  /\ to = "ended" => last + 1 = sock[c].lastId + Len(ms)
  /\ \A k \in 1..Len(ms) :
       \/ ms[k] = sock[c].lastId + k
       \/ to = "ended" /\ k = Len(ms) /\ ms[k] = DONE

LEMMA Sends ==
  ASSUME IInv, NEW c \in Conns, sock[c].link = "open",
         sock[c].server # "ended",
         NEW to \in {"read", "status", "final", "ended"},
         NEW ms \in Seq(Nat), NEW last \in Nat,
         Sent(c, to, ms, last), NextMessages(c, to, ms, last)
  PROVE  IInv'
<1>1. /\ sock[c] \in Sock /\ Lags(sock[c], log[sock[c].run])
      /\ sock[c].run \in Runs
  BY Facts DEF IInv, Behind
<1>2. PICK r \in Runs : r = sock[c].run
  BY <1>1
<1>3. PICK old \in Seq(Nat) : old = sock[c].inbox
  BY <1>1 DEF Sock
<1>4. PICK in \in Seq(Nat) : in = old \o ms
  BY ConcatProperties
<1>5. /\ Len(in) = Len(old) + Len(ms) /\ Len(ms) \in Nat /\ Len(old) \in Nat
      /\ \A k \in 1..Len(old) : in[k] = old[k]
      /\ \A m \in 1..Len(ms) : in[Len(old) + m] = ms[m]
      /\ DOMAIN in = 1..Len(in) /\ DOMAIN old = 1..Len(old)
  BY <1>4, ConcatProperties
<1>6. PICK o \in Sock : o = sock[c]
  BY <1>1
<1> DEFINE s == [o EXCEPT !.server = to, !.inbox = in, !.lastId = last]
<1>7. /\ s \in Sock /\ s.server = to /\ s.inbox = in /\ s.lastId = last
      /\ s.run = r /\ s.link = "open"
  <2>1. o.link = "open" /\ o.run = r
    BY <1>2, <1>6
  <2>2. s \in Sock
    BY DEF Sock
  <2>3. s.server = to /\ s.inbox = in /\ s.lastId = last
    BY DEF Sock
  <2>4. s.run = o.run /\ s.link = o.link
    BY DEF Sock
  <2> QED BY <2>1, <2>2, <2>3, <2>4
<1>8. /\ sock' \in [Conns -> Sock] /\ sock'[c] = s
      /\ \A d \in Conns : d # c => sock'[d] = sock[d]
  <2>1. sock' = [sock EXCEPT ![c] = s]
    <3>1. sock \in [Conns -> Sock]
      BY DEF IInv, Types
    <3>2. sock' = [sock EXCEPT ![c] =
                     [sock[c] EXCEPT !.server = to,
                                     !.inbox = sock[c].inbox \o ms,
                                     !.lastId = last]]
      BY <3>1 DEF Sock, Sent
    <3>3. sock[c].inbox \o ms = in
      BY <1>3, <1>4
    <3> QED BY <1>6, <3>2, <3>3
  <2> HIDE DEF s
  <2> QED BY <1>7, <2>1 DEF IInv, Types
<1> HIDE DEF s
<1>9. Types' /\ Requests'
  BY <1>8 DEF Sent, IInv, Types, Requests
<1>10. Apart'
  <2>1. \A d \in Conns : /\ sock'[d].run = sock[d].run
                         /\ sock'[d].link = sock[d].link
    BY <1>2, <1>7, <1>8
  <2>2. \A d, e \in Conns :
          d # e /\ sock'[d].link # "free" /\ sock'[e].link # "free"
            => sock'[d].run # sock'[e].run
    <3>1. \A d, e \in Conns :
            d # e /\ sock[d].link # "free" /\ sock[e].link # "free"
              => sock[d].run # sock[e].run
      BY DEF IInv, Apart
    <3> QED BY <2>1, <3>1
  <2>3. \A d \in Conns : sock'[d].link # "free" => sock'[d].run # ref.timer
    BY <2>1 DEF IInv, Apart
  <2>4. /\ {ref.timer, ref.poll, active} \subseteq created \cup {NoRun}
        /\ ref.ws # NoConn => ref.ws \in Conns /\ sock[ref.ws].link # "free"
    BY DEF IInv, Apart, Types
  <2>5. ref' = ref /\ active' = active /\ created' = created
    BY DEF Sent
  <2> QED BY <2>1, <2>2, <2>3, <2>4, <2>5 DEF Apart
<1>11. Sockets'
  BY <1>1, <1>2, <1>7, <1>8, Facts DEF Sent, IInv, Sockets, Sound
<1>12. Behind'
  <2>1. /\ sock[c].lastId \in Nat /\ log[r].lines \in Nat
        /\ log[r].atEnd <= log[r].lines
    BY <1>1, NamesOK DEF Sock, IInv, Types, Behind
  <2>2. Len(old) <= sock[c].lastId
    BY <1>1, <1>3 DEF Lags
  <2>3. Lags(s, log[r])
    BY <1>2, <1>5, <1>7, <2>1, <2>2, SMTT(20) DEF Lags, NextMessages
  <2>4. ASSUME NEW d \in Conns, sock'[d].link = "open"
        PROVE  Lags(sock'[d], log[sock'[d].run])
    BY <1>7, <1>8, <2>3, <2>4 DEF IInv, Behind
  <2>5. log' = log
    BY DEF Sent
  <2> QED BY <2>4, <2>5 DEF IInv, Behind, Lags
<1>13. Straight'
  <2>1. ASSUME ~reconnecting, Len(lines) # MaxShown
        PROVE  Counts(s, Len(lines))
    <3>1. PICK n \in Nat : n = Len(lines)
      BY LenProperties DEF IInv, Types
    <3>2. Counts(sock[c], n)
      BY <2>1, <3>1 DEF IInv, Straight
    <3>3. /\ sock[c].lastId = n + Len(old)
          /\ \A k \in 1..Len(old) : old[k] = n + k
      BY <1>3, <1>5, <3>2 DEF Counts
    <3>4. ASSUME NEW k \in 1..Len(in)
          PROVE  \/ in[k] = n + k
                 \/ in[k] = DONE /\ to = "ended" /\ k = Len(in)
      <4>1. CASE k <= Len(old)
        BY <1>5, <3>3, <4>1
      <4>2. CASE ~(k <= Len(old))
        <5>1. PICK m \in 1..Len(ms) : k = Len(old) + m
          <6>1. k - Len(old) \in 1..Len(ms) /\ k = Len(old) + (k - Len(old))
            BY <1>5, <4>2
          <6> QED BY <6>1
        <5>2. in[k] = ms[m]
          BY <1>5, <5>1
        <5>3. CASE ms[m] = sock[c].lastId + m
          BY <1>5, <3>3, <5>1, <5>2, <5>3
        <5>4. CASE to = "ended" /\ m = Len(ms) /\ ms[m] = DONE
          BY <1>5, <5>1, <5>2, <5>4
        <5> QED BY <5>3, <5>4 DEF NextMessages
      <4> QED BY <4>1, <4>2
    <3>5. to # "ended" => last = n + Len(in)
      BY <1>5, <3>3 DEF NextMessages
    <3> QED BY <1>5, <1>7, <3>1, <3>4, <3>5 DEF Counts
  <2> SUFFICES ASSUME ~reconnecting PROVE Straight'
    BY DEF Sent, Straight
  <2>2. /\ ref.timer = NoRun /\ ref.poll = NoRun /\ call["poll"] = Idle
        /\ active # NoRun => \A i \in DOMAIN lines : lines[i] = <<active, i>>
        /\ c = ref.ws /\ r = active /\ ~done
    BY <1>2 DEF IInv, Straight
  <2>3. \A d \in Conns : d # c => sock[d].link \notin {"opening", "open"}
    BY <2>2 DEF IInv, Straight
  <2>4. \A d \in Conns : sock'[d].link \in {"opening", "open"} => d = c
    BY <1>8, <2>3
  <2> QED BY <1>7, <1>8, <2>1, <2>2, <2>4 DEF Sent, Straight
<1> QED BY <1>9, <1>10, <1>11, <1>12, <1>13 DEF IInv
LEMMA ServerInv ==
  ASSUME IInv, NEW c \in Conns, SendNew(c) \/ CheckRun(c) \/ SendFinal(c)
  PROVE  IInv'
<1> DEFINE r == sock[c].run
           new == New(c)
<1>1. /\ sock[c].link = "open" /\ sock[c].server # "ended" /\ r \in Runs
      /\ Lags(sock[c], log[r]) /\ sock[c] \in Sock
  BY Facts DEF SendNew, CheckRun, SendFinal, ServerStep, IInv, Behind
<1>2. /\ log[r].lines \in Nat /\ log[r].lines - sock[c].lastId \in Nat
      /\ sock[c].lastId \in Nat
  BY <1>1, NamesOK DEF IInv, Types, Lags, Sock
<1>3. /\ new \in Seq(Nat) /\ Len(new) = log[r].lines - sock[c].lastId
      /\ \A k \in 1..Len(new) : new[k] = sock[c].lastId + k
  BY <1>2 DEF New
<1>4. CASE SendNew(c)
  <2>1. Sent(c, "status", new, log[r].lines)
    BY <1>4 DEF SendNew, ServerStep, Sent
  <2> HIDE DEF new
  <2>2. NextMessages(c, "status", new, log[r].lines)
    BY <1>2, <1>3 DEF NextMessages
  <2> QED BY <1>1, <1>2, <1>3, <2>1, <2>2, Sends
<1>5. CASE CheckRun(c)
  <2>1. PICK to \in {"read", "final"} :
          Sent(c, to, <<>>, sock[c].lastId) /\ (to = "final" => log[r].over)
    BY <1>5 DEF CheckRun, ServerStep, Sent
  <2>2. <<>> \in Seq(Nat) /\ Len(<<>>) = 0
    BY EmptySeq
  <2>3. NextMessages(c, to, <<>>, sock[c].lastId)
    BY <1>2, <2>1, <2>2 DEF NextMessages
  <2> QED BY <1>1, <1>2, <2>1, <2>2, <2>3, Sends
<1>6. CASE SendFinal(c)
  <2> DEFINE ms == Append(new, DONE)
  <2>1. Sent(c, "ended", ms, log[r].lines) /\ sock[c].server = "final"
    BY <1>6 DEF SendFinal, ServerStep, Sent
  <2>2. log[r].over
    BY <1>1, <2>1 DEF Lags
  <2> HIDE DEF new
  <2>3. /\ ms \in Seq(Nat) /\ Len(ms) = Len(new) + 1
        /\ \A k \in 1..Len(new) : ms[k] = new[k]
        /\ ms[Len(new) + 1] = DONE
    BY <1>3, AppendProperties DEF DONE
  <2> HIDE DEF ms
  <2>4. NextMessages(c, "ended", ms, log[r].lines)
    <3>1. \A k \in 1..Len(ms) : ms[k] = sock[c].lastId + k
                                 \/ (k = Len(ms) /\ ms[k] = DONE)
      BY <1>2, <1>3, <2>3
    <3>2. log[r].lines + 1 = sock[c].lastId + Len(ms)
      BY <1>2, <1>3, <2>3
    <3> QED BY <1>2, <2>2, <3>1, <3>2 DEF NextMessages
  <2> QED BY <1>1, <1>2, <2>1, <2>3, <2>4, Sends
<1> QED BY <1>4, <1>5, <1>6

-----------------------------------------------------------------------------
\* Sockets that close: the server's loop and the messages are gone.
ClosedSock(s) == [Free EXCEPT !.run = s.run, !.link = "closing"]

Closes(D) ==
  /\ sock' = [c \in Conns |-> IF c \in D THEN ClosedSock(sock[c]) ELSE sock[c]]
  /\ UNCHANGED <<log, created>>

LEMMA ClosesFacts ==
  ASSUME IInv, NEW D \in SUBSET Conns, Closes(D),
         \A c \in D : sock[c].link # "free"
  PROVE  /\ sock' \in [Conns -> Sock]
         /\ \A c \in Conns :
              /\ sock'[c].run = sock[c].run
              /\ (sock'[c].link = "free") <=> (sock[c].link = "free")
              /\ sock'[c].link \in {"opening", "open"}
                   => c \notin D /\ sock'[c] = sock[c]
         /\ Sockets' /\ Behind'
<1>1. ASSUME NEW c \in D
      PROVE  /\ ClosedSock(sock[c]) \in Sock
             /\ ClosedSock(sock[c]).run = sock[c].run
             /\ ClosedSock(sock[c]).link = "closing"
             /\ Sound(ClosedSock(sock[c]))
  <2>1. PICK r \in Runs : r = sock[c].run /\ r \in created
    BY Facts
  <2> DEFINE s == [Free EXCEPT !.run = r, !.link = "closing"]
  <2>2. /\ s \in Sock /\ s.run = r /\ s.link = "closing" /\ s.server = "off"
        /\ s.lastId = 0 /\ s.inbox = <<>>
    BY EmptySeq DEF Free, Sock
  <2> HIDE DEF s
  <2>3. ClosedSock(sock[c]) = s
    BY <2>1 DEF ClosedSock, s
  <2> QED BY <2>1, <2>2, <2>3 DEF Sound
<1>2. ASSUME NEW c \in Conns
      PROVE  \/ sock'[c] = sock[c] /\ c \notin D
             \/ /\ c \in D /\ sock'[c] = ClosedSock(sock[c])
  BY DEF Closes
<1>3. sock' \in [Conns -> Sock]
  <2>1. \A c \in Conns : sock'[c] \in Sock
    <3>1. \A c \in Conns : sock[c] \in Sock
      BY DEF IInv, Types
    <3> QED BY <1>1, <1>2, <3>1
  <2> QED BY <2>1 DEF Closes
<1>4. \A c \in Conns :
              /\ sock'[c].run = sock[c].run
              /\ (sock'[c].link = "free") <=> (sock[c].link = "free")
              /\ sock'[c].link \in {"opening", "open"}
                   => c \notin D /\ sock'[c] = sock[c]
  BY <1>1, <1>2
<1>5. log' = log /\ created' = created
  BY DEF Closes
<1>6. Sockets'
  BY <1>1, <1>2, <1>5 DEF IInv, Sockets, Sound
<1>7. Behind'
  BY <1>4, <1>5 DEF IInv, Behind, Lags
<1> QED BY <1>3, <1>4, <1>6, <1>7

\* cleanup() closes the socket that wsRef names.
LEMMA CleanupFacts ==
  ASSUME IInv, Cleanup, UNCHANGED <<log, created>>
  PROVE  /\ sock' \in [Conns -> Sock] /\ ref' = NoRef
         /\ \A c \in Conns :
              /\ sock'[c].run = sock[c].run
              /\ (sock'[c].link = "free") <=> (sock[c].link = "free")
              /\ sock'[c].link \in {"opening", "open"}
                   => c # ref.ws /\ sock'[c] = sock[c]
         /\ Sockets' /\ Behind'
<1>1. PICK D \in SUBSET Conns : D = {c \in Conns : c = ref.ws}
  OBVIOUS
<1>2. Closes(D) /\ ref' = NoRef
  BY <1>1 DEF Cleanup, Closes, ClosedSock
<1>3. \A c \in D : sock[c].link # "free"
  BY <1>1, NamesOK DEF IInv, Apart
<1> QED BY <1>1, <1>2, <1>3, ClosesFacts

\* What of the invariant a cleanup cannot disturb.
LEMMA CleanupInv ==
  ASSUME IInv, Cleanup, UNCHANGED <<log, created, lines, reconnecting>>,
         cancelling' \in Runs \cup {NoRun}, done' \in BOOLEAN,
         active' \in {active, NoRun}, Requests',
         call' \in [Calls -> Request],
         call["poll"] = Idle => call'["poll"] = Idle
  PROVE  IInv'
<1>1. /\ NoRef \in [ws : Conns \cup {NoConn}, poll : Runs \cup {NoRun},
                     timer : Runs \cup {NoRun}]
      /\ NoRef.ws = NoConn /\ NoRef.poll = NoRun /\ NoRef.timer = NoRun
  BY DEF NoRef
<1>2. Types'
  <2>1. ref' = NoRef /\ sock' \in [Conns -> Sock]
    BY CleanupFacts
  <2> QED BY <1>1, <2>1 DEF IInv, Types
<1>3. Apart'
  <2>1. /\ ref' = NoRef /\ created' = created /\ created \subseteq Runs
        /\ \A c \in Conns :
              /\ sock'[c].run = sock[c].run
              /\ (sock'[c].link = "free") <=> (sock[c].link = "free")
              /\ sock[c].link # "free" => sock[c].run \in Runs
    BY CleanupFacts, Facts DEF IInv, Types
  <2>2. \A c, d \in Conns :
          c # d /\ sock'[c].link # "free" /\ sock'[d].link # "free"
            => sock'[c].run # sock'[d].run
    BY <2>1 DEF IInv, Apart
  <2>3. active' \in created \cup {NoRun}
    BY DEF IInv, Apart
  <2> QED BY <1>1, <2>1, <2>2, <2>3, NamesOK DEF Apart
<1>4. Straight'
  <2> SUFFICES ASSUME ~reconnecting PROVE Straight'
    BY DEF Straight
  <2>1. \A c \in Conns : sock'[c].link \notin {"opening", "open"}
    BY CleanupFacts DEF IInv, Straight
  <2>2. active' # NoRun => \A i \in DOMAIN lines : lines[i] = <<active', i>>
    BY DEF IInv, Straight
  <2>3. call'["poll"] = Idle
    BY DEF IInv, Straight
  <2>4. ref'.timer = NoRun /\ ref'.poll = NoRun
    BY <1>1, CleanupFacts
  <2> QED BY <2>1, <2>2, <2>3, <2>4 DEF Straight
<1> QED BY <1>2, <1>3, <1>4, CleanupFacts DEF IInv

-----------------------------------------------------------------------------
\* The requests: one of them changes, the other stays.
Moves(q, s) == call' = [call EXCEPT ![q] = s]

LEMMA MovesFacts ==
  ASSUME IInv, NEW q \in Calls, NEW s \in Request, Moves(q, s),
         s = Idle \/ (s.run # NoRun /\ s.stage # "idle"),
         s.stage \in {"log", "lines"} => q = "poll"
  PROVE  /\ call' \in [Calls -> Request] /\ Requests'
         /\ q = "status" => call'["poll"] = call["poll"]
<1>1. call \in [Calls -> Request] /\ Requests
  BY DEF IInv, Types
<1>2. call' \in [Calls -> Request] /\ call'[q] = s
  BY <1>1 DEF Moves
<1>3. \A p \in Calls : p # q => call'[p] = call[p]
  BY <1>1 DEF Moves
<1>4. s.run = NoRun <=> s = Idle
  BY DEF Idle
<1> QED BY <1>1, <1>2, <1>3, <1>4 DEF Requests, Calls, Idle

\* The four ways in which an action moves a request.
LEMMA IdleMoves ==
  ASSUME IInv, NEW q \in Calls, call' = [call EXCEPT ![q] = Idle]
  PROVE  /\ call' \in [Calls -> Request] /\ Requests'
         /\ call["poll"] = Idle => call'["poll"] = Idle
<1>1. Idle \in Request /\ Idle.stage = "idle"
  BY DEF Idle, Request
<1>2. /\ call' \in [Calls -> Request] /\ Requests'
      /\ q = "status" => call'["poll"] = call["poll"]
  BY <1>1, MovesFacts DEF Moves
<1>3. q = "poll" => call'["poll"] = Idle
  BY DEF IInv, Types, Calls
<1> QED BY <1>2, <1>3 DEF Calls

LEMMA StageMoves ==
  ASSUME IInv, NEW q \in Calls, call[q] # Idle,
         NEW to \in {"sent", "run", "log", "lines", "reports"}, NEW v \in Nat,
         call' = [call EXCEPT ![q].stage = to, ![q].value = v],
         to \in {"log", "lines"} => q = "poll"
  PROVE  /\ call' \in [Calls -> Request] /\ Requests'
         /\ call["poll"] = Idle => call'["poll"] = Idle
<1>1. PICK o \in Request : o = call[q]
  BY DEF IInv, Types
<1> DEFINE s == [o EXCEPT !.stage = to, !.value = v]
<1>2. s \in Request /\ s.stage = to /\ s.run = o.run
  BY DEF Request
<1>3. s.run # NoRun
  BY <1>1, <1>2 DEF IInv, Requests
<1>4. Moves(q, s)
  BY <1>1 DEF Moves, IInv, Types, Request
<1> HIDE DEF s
<1>5. /\ call' \in [Calls -> Request] /\ Requests'
      /\ q = "status" => call'["poll"] = call["poll"]
  BY <1>2, <1>3, <1>4, MovesFacts
<1> QED BY <1>5 DEF Calls

LEMMA IssueMoves ==
  ASSUME IInv, NEW q \in Calls, NEW r \in Runs, Issue(q, r)
  PROVE  /\ call' \in [Calls -> Request] /\ Requests'
         /\ q = "status" => call'["poll"] = call["poll"]
<1> DEFINE s == [Idle EXCEPT !.run = r, !.stage = "sent"]
<1>1. s \in Request /\ s.stage = "sent" /\ s.run = r
  BY DEF Idle, Request
<1>2. Moves(q, s) /\ r # NoRun
  BY NamesOK DEF Issue, Moves
<1> HIDE DEF s
<1> QED BY <1>1, <1>2, MovesFacts

\* A step of the requests, or of the user.
LEMMA RequestInv ==
  ASSUME IInv, call' \in [Calls -> Request], Requests',
         cancelling' \in Runs \cup {NoRun},
         reconnecting \/ call'["poll"] = Idle,
         UNCHANGED <<log, sock, shown, ref, reconnecting>>
  PROVE  IInv'
<1>1. Types' /\ Sockets' /\ Behind' /\ Apart'
  BY DEF IInv, Types, Sockets, Sound, Behind, Lags, Apart
<1>2. Straight'
  BY DEF IInv, Straight, Counts
<1> QED BY <1>1, <1>2 DEF IInv

LEMMA CallInv ==
  ASSUME IInv, \/ StatusTick
               \/ \E q \in Calls : GetRun(q) \/ GetLogs(q) \/ CallFails(q)
  PROVE  IInv'
<1>0. reconnecting \/ call["poll"] = Idle
  BY DEF IInv, Straight
<1>1. CASE StatusTick
  <2>1. active \in Runs /\ Issue("status", active) /\ "status" \in Calls
    BY <1>1 DEF StatusTick, IInv, Types, Calls
  <2>2. UNCHANGED <<log, sock, shown, ref, cancelling, reconnecting>>
    BY <1>1 DEF StatusTick
  <2>3. cancelling' \in Runs \cup {NoRun}
    BY <2>2 DEF IInv, Types
  <2> QED BY <1>0, <2>1, <2>2, <2>3, IssueMoves, RequestInv
<1>2. ASSUME NEW q \in Calls, GetRun(q) \/ GetLogs(q) \/ CallFails(q)
      PROVE  IInv'
  <2>1. UNCHANGED <<log, sock, shown, ref, cancelling, reconnecting>>
    BY <1>2 DEF GetRun, GetLogs, CallFails, Serve
  <2>2. cancelling' \in Runs \cup {NoRun}
    BY <2>1 DEF IInv, Types
  <2>3. call[q].stage \in {"sent", "log"} /\ call[q] # Idle
    BY <1>2 DEF GetRun, GetLogs, CallFails, Serve, Idle
  <2>4. call[q].stage = "log" => q = "poll"
    BY DEF IInv, Requests, Calls
  <2>5. call[q].run \in Runs
    BY <2>3 DEF IInv, Types, Requests, Request
  <2>6. CASE GetRun(q)
    <3>1. PICK v \in Nat : call' = [call EXCEPT ![q].stage = "run",
                                               ![q].value = v]
      BY <2>6 DEF GetRun, Serve
    <3> QED BY <1>0, <2>1, <2>2, <2>3, <3>1, StageMoves, RequestInv
  <2>7. CASE GetLogs(q)
    <3>1. log[call[q].run].lines \in Nat /\ q = "poll"
      BY <2>4, <2>5, <2>7, NamesOK DEF GetLogs, Serve, IInv, Types
    <3>2. call' = [call EXCEPT ![q].stage = "lines",
                               ![q].value = log[call[q].run].lines]
      BY <2>7 DEF GetLogs, Serve
    <3> QED BY <1>0, <2>1, <2>2, <2>3, <3>1, <3>2, StageMoves, RequestInv
  <2>8. CASE CallFails(q)
    BY <1>0, <2>1, <2>2, <2>8, IdleMoves, RequestInv DEF CallFails
  <2> QED BY <1>2, <2>6, <2>7, <2>8
<1> QED BY <1>1, <1>2

LEMMA StageOnlyMoves ==
  ASSUME IInv, NEW q \in Calls, call[q] # Idle,
         NEW to \in {"log", "reports"}, to = "log" => q = "poll",
         Moves(q, [call[q] EXCEPT !.stage = to])
  PROVE  /\ call' \in [Calls -> Request] /\ Requests'
         /\ call["poll"] = Idle => call'["poll"] = Idle
<1>1. PICK o \in Request : o = call[q]
  BY DEF IInv, Types
<1> DEFINE s == [o EXCEPT !.stage = to]
<1>2. s \in Request /\ s.stage = to /\ s.run = o.run
  BY DEF Request
<1>3. s.run # NoRun
  BY <1>1, <1>2 DEF IInv, Requests
<1>4. Moves(q, s)
  BY <1>1
<1> HIDE DEF s
<1>5. /\ call' \in [Calls -> Request] /\ Requests'
      /\ q = "status" => call'["poll"] = call["poll"]
  BY <1>2, <1>3, <1>4, MovesFacts
<1> QED BY <1>5 DEF Calls

\* Answers.
LEMMA AnswerInv ==
  ASSUME IInv, NEW q \in Calls,
         RunAnswered(q) \/ LogsAnswered(q) \/ OnRunComplete(q)
  PROVE  IInv'
<1>0. reconnecting \/ call["poll"] = Idle
  BY DEF IInv, Straight
<1>1. CASE RunAnswered(q) /\ call[q].value = 1
  <2>1. /\ call[q].stage = "run" /\ done' = TRUE /\ Cleanup
        /\ call' = [call EXCEPT ![q].stage = "reports"]
        /\ UNCHANGED <<log, active, created, lines, cancelling, reconnecting>>
    BY <1>1 DEF RunAnswered
  <2>2. Moves(q, [call[q] EXCEPT !.stage = "reports"]) /\ call[q] # Idle
    BY <2>1 DEF Moves, IInv, Types, Idle
  <2>3. cancelling' \in Runs \cup {NoRun}
    BY <2>1 DEF IInv, Types
  <2> QED BY <2>1, <2>2, <2>3, StageOnlyMoves, CleanupInv
<1>2. CASE RunAnswered(q) /\ call[q].value # 1
  <2>1. /\ call[q].stage = "run" /\ UNCHANGED <<done, sock, ref>>
        /\ call' = [call EXCEPT
                      ![q] = IF q = "poll" THEN [@ EXCEPT !.stage = "log"]
                                           ELSE Idle]
        /\ UNCHANGED <<log, active, created, lines, cancelling, reconnecting>>
    BY <1>2 DEF RunAnswered
  <2>2. cancelling' \in Runs \cup {NoRun}
    BY <2>1 DEF IInv, Types
  <2>3. /\ call' \in [Calls -> Request] /\ Requests'
        /\ call["poll"] = Idle => call'["poll"] = Idle
    <3>1. CASE q = "poll"
      <4>1. Moves(q, [call[q] EXCEPT !.stage = "log"]) /\ call[q] # Idle
        BY <2>1, <3>1 DEF Moves, IInv, Types, Idle
      <4> QED BY <3>1, <4>1, StageOnlyMoves
    <3>2. CASE q # "poll"
      BY <2>1, <3>2, IdleMoves
    <3> QED BY <3>1, <3>2
  <2> QED BY <1>0, <2>1, <2>2, <2>3, RequestInv
<1>3. CASE LogsAnswered(q)
  <2>1. /\ call[q].stage = "lines" /\ call' = [call EXCEPT ![q] = Idle]
        /\ UNCHANGED <<log, sock, active, created, done, ref, cancelling,
                       reconnecting>>
    BY <1>3 DEF LogsAnswered
  <2>2. call[q] # Idle /\ q = "poll" /\ reconnecting
    BY <1>0, <2>1 DEF Idle, IInv, Requests, Calls
  <2>3. call[q].run \in Runs /\ call[q].value \in Nat
    BY <2>2 DEF IInv, Types, Requests, Request
  <2>4. lines' \in Seq(Runs \X Nat)
    <3>1. CASE call[q].value = 0
      BY <1>3, <3>1 DEF LogsAnswered, IInv, Types
    <3>2. CASE call[q].value # 0
      <4>1. lines' = [i \in 1..call[q].value |-> <<call[q].run, i>>]
        BY <1>3, <3>2 DEF LogsAnswered
      <4>2. \A i \in 1..call[q].value : <<call[q].run, i>> \in Runs \X Nat
        BY <2>3
      <4>3. lines' \in [1..call[q].value -> Runs \X Nat]
        BY <4>1, <4>2
      <4> QED BY <2>3, <4>3, SeqDef
    <3> QED BY <3>1, <3>2
  <2>5. call' \in [Calls -> Request] /\ Requests'
    BY <2>1, IdleMoves
  <2>6. Types' /\ Sockets' /\ Behind' /\ Apart'
    BY <2>1, <2>4, <2>5 DEF IInv, Types, Sockets, Sound, Behind, Lags, Apart
  <2>7. Straight'
    BY <2>1, <2>2 DEF Straight
  <2> QED BY <2>5, <2>6, <2>7 DEF IInv
<1>4. CASE OnRunComplete(q)
  <2>1. /\ call' = [call EXCEPT ![q] = Idle] /\ active' = NoRun
        /\ UNCHANGED <<log, created, lines, done, cancelling, reconnecting>>
    BY <1>4 DEF OnRunComplete, StopFollowing
  <2>2. /\ call' \in [Calls -> Request] /\ Requests'
        /\ call["poll"] = Idle => call'["poll"] = Idle
    BY <2>1, IdleMoves
  <2>3. cancelling' \in Runs \cup {NoRun} /\ done' \in BOOLEAN
    BY <2>1 DEF IInv, Types
  <2>4. CASE active = NoRun
    BY <1>0, <1>4, <2>1, <2>2, <2>3, <2>4, RequestInv
      DEF OnRunComplete, StopFollowing
  <2>5. CASE active # NoRun
    BY <1>4, <2>1, <2>2, <2>3, <2>5, CleanupInv
      DEF OnRunComplete, StopFollowing
  <2> QED BY <2>4, <2>5
<1> QED BY <1>1, <1>2, <1>3, <1>4

\* The user, and the timer of the fallback.
LEMMA UserInv ==
  ASSUME IInv, UserCancels \/ CancelAnswered \/ PollTick
  PROVE  IInv'
<1>0. /\ reconnecting \/ call["poll"] = Idle
      /\ call \in [Calls -> Request] /\ Requests /\ done \in BOOLEAN
      /\ reconnecting \/ ref.poll = NoRun
  BY DEF IInv, Straight, Types
<1>1. CASE UserCancels
  <2>1. active \in Runs /\ cancelling' \in Runs \cup {NoRun}
    BY <1>1 DEF UserCancels, IInv, Types
  <2> QED BY <1>1, <2>1, LogInv DEF UserCancels
<1>2. CASE CancelAnswered
  <2>1. /\ cancelling' = NoRun /\ active' = NoRun
        /\ UNCHANGED <<log, created, lines, done, call, reconnecting>>
    BY <1>2 DEF CancelAnswered, StopFollowing
  <2>2. /\ call' \in [Calls -> Request] /\ Requests'
        /\ call["poll"] = Idle => call'["poll"] = Idle
    BY <1>0, <2>1 DEF Requests
  <2>3. CASE active = NoRun
    BY <1>0, <1>2, <2>1, <2>2, <2>3, RequestInv
      DEF CancelAnswered, StopFollowing
  <2>4. CASE active # NoRun
    BY <1>0, <1>2, <2>1, <2>2, <2>4, CleanupInv
      DEF CancelAnswered, StopFollowing
  <2> QED BY <2>3, <2>4
<1>3. CASE PollTick
  <2>1. /\ ref.poll # NoRun /\ reconnecting /\ ref.poll \in Runs
        /\ UNCHANGED <<log, shown, cancelling, reconnecting>>
    BY <1>0, <1>3 DEF PollTick, IInv, Types
  <2>2. cancelling' \in Runs \cup {NoRun}
    BY <2>1 DEF IInv, Types
  <2>3. CASE done
    <3>1. Cleanup /\ UNCHANGED call
      BY <1>3, <2>3 DEF PollTick
    <3>2. Requests'
      BY <1>0, <3>1 DEF Requests
    <3> QED BY <1>0, <2>1, <2>2, <3>1, <3>2, CleanupInv
  <2>4. CASE ~done
    <3>1. Issue("poll", ref.poll) /\ UNCHANGED <<sock, ref>>
      BY <1>3, <2>4 DEF PollTick
    <3>2. "poll" \in Calls
      BY DEF Calls
    <3> QED BY <2>1, <2>2, <3>1, <3>2, IssueMoves, RequestInv
  <2> QED BY <2>3, <2>4
<1> QED BY <1>1, <1>2, <1>3

-----------------------------------------------------------------------------
(* The sockets of the hook *)

\* A step that replaces one socket by s.
LEMMA SocketFacts ==
  ASSUME IInv, NEW c \in Conns, NEW s \in Sock, Sound(s),
         sock' = [sock EXCEPT ![c] = s],
         s.link = "open" => Lags(s, log[s.run]), UNCHANGED log,
         created \subseteq created'
  PROVE  /\ sock' \in [Conns -> Sock] /\ sock'[c] = s
         /\ \A d \in Conns : d # c => sock'[d] = sock[d]
         /\ Sockets' /\ Behind'
<1>1. /\ sock' \in [Conns -> Sock] /\ sock'[c] = s
      /\ \A d \in Conns : d # c => sock'[d] = sock[d]
  BY DEF IInv, Types
<1>2. Sockets'
  BY <1>1 DEF IInv, Sockets, Sound
<1>3. Behind'
  BY <1>1 DEF IInv, Behind, Lags
<1> QED BY <1>1, <1>2, <1>3

\* A socket that keeps its run and does not become free, the rest as it was.
LEMMA KeepsApart ==
  ASSUME IInv, NEW c \in Conns, NEW s \in Sock,
         sock'[c] = s, \A d \in Conns : d # c => sock'[d] = sock[d],
         s.run = sock[c].run, s.link # "free", sock[c].link # "free",
         ref'.ws = ref.ws, ref'.timer = ref.timer,
         ref'.poll \in {ref.poll, NoRun},
         UNCHANGED <<created, active>>
  PROVE  Apart'
<1>1. \A d \in Conns : /\ sock'[d].run = sock[d].run
                       /\ (sock'[d].link # "free") <=> (sock[d].link # "free")
  OBVIOUS
<1>2. \A d, e \in Conns :
        d # e /\ sock[d].link # "free" /\ sock[e].link # "free"
          => sock[d].run # sock[e].run
  BY DEF IInv, Apart
<1>3. \A d, e \in Conns :
        d # e /\ sock'[d].link # "free" /\ sock'[e].link # "free"
          => sock'[d].run # sock'[e].run
  BY <1>1, <1>2
<1>4. /\ \A d \in Conns : sock[d].link # "free" => sock[d].run # ref.timer
      /\ ref.ws # NoConn => ref.ws \in Conns /\ sock[ref.ws].link # "free"
      /\ {ref.timer, ref.poll, active} \subseteq created \cup {NoRun}
  BY DEF IInv, Apart, Types
<1> QED BY <1>1, <1>3, <1>4 DEF Apart

LEMMA OpenedInv == ASSUME IInv, NEW c \in Conns, Opened(c) PROVE IInv'
<1>1. PICK o \in Sock : /\ o = sock[c] /\ o.link = "opening" /\ o.lastId = 0
                        /\ o.inbox = <<>> /\ o.run \in Runs
                        /\ o.run \in created
  BY Facts DEF Opened, IInv, Sockets, Sound
<1> DEFINE s == [o EXCEPT !.link = "open", !.server = "read"]
           t == [ref EXCEPT !.poll = NoRun]
<1>2. /\ s \in Sock /\ s.link = "open" /\ s.server = "read" /\ s.lastId = 0
      /\ s.inbox = <<>> /\ s.run = o.run
  BY <1>1 DEF Sock
<1>3. sock' = [sock EXCEPT ![c] = s] /\ ref' = t
  BY <1>1 DEF Opened, IInv, Types, Sock
<1>4. /\ t \in [ws : Conns \cup {NoConn}, poll : Runs \cup {NoRun},
                timer : Runs \cup {NoRun}]
      /\ t.ws = ref.ws /\ t.timer = ref.timer /\ t.poll = NoRun
  BY DEF IInv, Types
<1> HIDE DEF s, t
<1>5. UNCHANGED <<log, shown, cancelling, call, reconnecting>>
  BY DEF Opened
<1>6. Lags(s, log[s.run]) /\ Sound(s)
  BY <1>1, <1>2, NamesOK DEF Lags, Sound, IInv, Types
<1>7. /\ sock' \in [Conns -> Sock] /\ sock'[c] = s
      /\ \A d \in Conns : d # c => sock'[d] = sock[d]
      /\ Sockets' /\ Behind'
  BY <1>2, <1>3, <1>5, <1>6, SocketFacts
<1>8. Types' /\ Requests'
  BY <1>3, <1>4, <1>5, <1>7 DEF IInv, Types, Requests
<1>9. Apart'
  BY <1>1, <1>2, <1>3, <1>4, <1>5, <1>7, KeepsApart
<1>10. Straight'
  <2> SUFFICES ASSUME ~reconnecting PROVE Straight'
    BY <1>5 DEF Straight
  <2>1. /\ c = ref.ws /\ sock[c].run = active /\ ~done /\ lines = <<>>
        /\ ref.timer = NoRun /\ call["poll"] = Idle
        /\ \A d \in Conns : d # c => sock[d].link \notin {"opening", "open"}
    BY <1>1 DEF IInv, Straight
  <2>2. Counts(s, Len(lines))
    BY <1>2, <2>1 DEF Counts
  <2>3. \A d \in Conns : sock'[d].link \in {"opening", "open"} => d = c
    BY <1>7, <2>1
  <2>4. \A i \in DOMAIN lines : lines[i] = <<active, i>>
    BY <2>1
  <2> QED BY <1>1, <1>2, <1>3, <1>4, <1>5, <1>7, <2>1, <2>2, <2>3, <2>4
          DEF Straight
<1> QED BY <1>7, <1>8, <1>9, <1>10 DEF IInv

LEMMA BreakInv == ASSUME IInv, NEW c \in Conns, Break(c) PROVE IInv'
<1>1. /\ sock[c].link \in {"opening", "open"}
      /\ UNCHANGED <<log, shown, ref, cancelling, call, reconnecting>>
  BY DEF Break
<1>2. PICK D \in SUBSET Conns : D = {c}
  OBVIOUS
<1>3. Closes(D)
  BY <1>1, <1>2 DEF Break, Closes, ClosedSock, IInv, Types
<1>4. /\ sock' \in [Conns -> Sock]
      /\ \A d \in Conns :
           /\ sock'[d].run = sock[d].run
           /\ (sock'[d].link = "free") <=> (sock[d].link = "free")
           /\ sock'[d].link \in {"opening", "open"} => sock'[d] = sock[d]
      /\ Sockets' /\ Behind'
  BY <1>1, <1>2, <1>3, ClosesFacts
<1>5. Types' /\ Requests'
  BY <1>1, <1>4 DEF IInv, Types, Requests
<1>6. Apart'
  <2>1. \A d, e \in Conns :
          d # e /\ sock[d].link # "free" /\ sock[e].link # "free"
            => sock[d].run # sock[e].run
    BY DEF IInv, Apart
  <2>2. \A d, e \in Conns :
          d # e /\ sock'[d].link # "free" /\ sock'[e].link # "free"
            => sock'[d].run # sock'[e].run
    BY <1>4, <2>1
  <2>3. /\ \A d \in Conns : sock[d].link # "free" => sock[d].run # ref.timer
        /\ ref.ws # NoConn => ref.ws \in Conns /\ sock[ref.ws].link # "free"
        /\ {ref.timer, ref.poll, active} \subseteq created \cup {NoRun}
    BY DEF IInv, Apart, Types
  <2> QED BY <1>1, <1>4, <2>2, <2>3 DEF Apart
<1>7. Straight'
  BY <1>1, <1>4 DEF IInv, Straight
<1> QED BY <1>4, <1>5, <1>6, <1>7 DEF IInv

LEMMA OnCloseInv == ASSUME IInv, NEW c \in Conns, OnClose(c) PROVE IInv'
<1>1. /\ sock' = [sock EXCEPT ![c] = Free] /\ sock[c].link # "free"
      /\ UNCHANGED <<log, shown, cancelling, call>>
      /\ reconnecting' = (reconnecting \/ ~done)
  <2>1. sock[c].server = "ended" => sock[c].link # "free"
    BY Facts
  <2> QED BY <2>1 DEF OnClose
<1>2. PICK r \in Runs : r = sock[c].run /\ r \in created
  BY <1>1, Facts
<1>3. Free \in Sock /\ Sound(Free) /\ Free.link = "free"
  BY FreeIsSock DEF Sound, Free
<1>4. /\ sock' \in [Conns -> Sock] /\ sock'[c] = Free
      /\ \A d \in Conns : d # c => sock'[d] = sock[d]
      /\ Sockets' /\ Behind'
  BY <1>1, <1>3, SocketFacts
<1>5. /\ ref' \in [ws : Conns \cup {NoConn}, poll : Runs \cup {NoRun},
                   timer : Runs \cup {NoRun}]
      /\ ref'.ws = NoConn /\ ref'.poll \in {ref.poll, r}
      /\ done => ref'.timer = ref.timer /\ ref'.poll = ref.poll
      /\ ~done => ref'.timer = r
  <2>1. CASE done
    BY <1>1, <2>1 DEF OnClose, IInv, Types
  <2>2. CASE ~done
    <3>1. ref' = [ws |-> NoConn, timer |-> r,
                  poll |-> IF ref.poll = NoRun THEN r ELSE ref.poll]
      BY <1>2, <2>2 DEF OnClose
    <3> QED BY <2>2, <3>1 DEF IInv, Types
  <2> QED BY <2>1, <2>2
<1>6. Types' /\ Requests'
  BY <1>1, <1>4, <1>5 DEF IInv, Types, Requests
<1>7. Apart'
  <2>1. \A d, e \in Conns :
          d # e /\ sock[d].link # "free" /\ sock[e].link # "free"
            => sock[d].run # sock[e].run
    BY DEF IInv, Apart
  <2>2. \A d \in Conns : sock'[d].link # "free"
                          => sock'[d] = sock[d] /\ d # c
    BY <1>3, <1>4
  <2>3. \A d, e \in Conns :
          d # e /\ sock'[d].link # "free" /\ sock'[e].link # "free"
            => sock'[d].run # sock'[e].run
    BY <2>1, <2>2
  <2>4. \A d \in Conns : sock'[d].link # "free" => sock'[d].run # r
    BY <1>1, <1>2, <2>1, <2>2
  <2>5. \A d \in Conns : sock'[d].link # "free" => sock'[d].run # ref.timer
    BY <2>2 DEF IInv, Apart
  <2>6. {ref.timer, ref.poll, active} \subseteq created \cup {NoRun}
    BY DEF IInv, Apart
  <2>7. done \in BOOLEAN
    BY DEF IInv, Types
  <2> QED BY <1>1, <1>2, <1>5, <2>3, <2>4, <2>5, <2>6, <2>7 DEF Apart
<1>8. Straight'
  <2> SUFFICES ASSUME ~reconnecting, done PROVE Straight'
    BY <1>1 DEF Straight
  <2>1. /\ \A d \in Conns : sock[d].link \notin {"opening", "open"}
        /\ ref.timer = NoRun /\ ref.poll = NoRun /\ call["poll"] = Idle
        /\ active # NoRun => \A i \in DOMAIN lines : lines[i] = <<active, i>>
    BY DEF IInv, Straight
  <2>2. \A d \in Conns : sock'[d].link \notin {"opening", "open"}
    BY <1>3, <1>4, <2>1
  <2> QED BY <1>1, <1>5, <2>1, <2>2 DEF Straight
<1> QED BY <1>4, <1>6, <1>7, <1>8 DEF IInv

\* A message is taken from the socket.
LEMMA InboxFacts ==
  ASSUME IInv, NEW c \in Conns, sock[c].inbox # <<>>
  PROVE  \E s \in Sock :
           /\ [sock EXCEPT ![c].inbox = Tail(@)] = [sock EXCEPT ![c] = s]
           /\ s.run = sock[c].run /\ s.link = "open" /\ sock[c].link = "open"
           /\ s.server = sock[c].server /\ s.lastId = sock[c].lastId
           /\ s.inbox = Tail(sock[c].inbox)
           /\ Sound(s) /\ Lags(s, log[s.run])
<1>1. PICK o \in Sock : o = sock[c]
  BY Facts
<1>2. o.link = "open" /\ o.run \in created /\ o.server # "off"
  BY <1>1, Facts DEF IInv, Sockets, Sound
<1>3. PICK in \in Seq(Nat) : in = Tail(o.inbox) /\ Len(in) = Len(o.inbox) - 1
  BY <1>1, HeadTailProperties DEF Sock
<1> DEFINE s == [o EXCEPT !.inbox = in]
<1>4. /\ s \in Sock /\ s.run = o.run /\ s.link = o.link /\ s.server = o.server
      /\ s.lastId = o.lastId /\ s.inbox = in
  BY DEF Sock
<1>5. [sock EXCEPT ![c].inbox = Tail(@)] = [sock EXCEPT ![c] = s]
  <2>1. [sock EXCEPT ![c].inbox = Tail(@)]
          = [sock EXCEPT ![c] = [sock[c] EXCEPT !.inbox = Tail(sock[c].inbox)]]
    BY DEF IInv, Types, Sock
  <2> QED BY <1>1, <1>3, <2>1
<1> HIDE DEF s
<1>6. Sound(s)
  BY <1>2, <1>4 DEF Sound
<1>7. Lags(s, log[s.run])
  <2>1. Lags(o, log[o.run])
    BY <1>1, <1>2 DEF IInv, Behind
  <2>2. Len(o.inbox) \in Nat /\ o.lastId \in Nat /\ Len(in) \in Nat
    BY DEF Sock
  <2> QED BY <1>3, <1>4, <2>1, <2>2 DEF Lags
<1> QED BY <1>1, <1>2, <1>3, <1>4, <1>5, <1>6, <1>7

LEMMA OnLineInv == ASSUME IInv, NEW c \in Conns, OnLine(c) PROVE IInv'
<1>1. /\ sock[c].inbox # <<>> /\ Head(sock[c].inbox) # DONE
      /\ sock' = [sock EXCEPT ![c].inbox = Tail(@)]
      /\ UNCHANGED <<log, active, created, done, ref, cancelling, call,
                     reconnecting>>
  BY DEF OnLine
<1>2. PICK s \in Sock :
           /\ sock' = [sock EXCEPT ![c] = s]
           /\ s.run = sock[c].run /\ s.link = "open" /\ sock[c].link = "open"
           /\ s.server = sock[c].server /\ s.lastId = sock[c].lastId
           /\ s.inbox = Tail(sock[c].inbox)
           /\ Sound(s) /\ Lags(s, log[s.run])
  BY <1>1, InboxFacts
<1>3. /\ sock' \in [Conns -> Sock] /\ sock'[c] = s
      /\ \A d \in Conns : d # c => sock'[d] = sock[d]
      /\ Sockets' /\ Behind'
  BY <1>1, <1>2, SocketFacts
<1>4. PICK old \in Seq(Nat) : old = sock[c].inbox
  BY Facts DEF Sock
<1>5. /\ old # <<>> /\ Head(old) \in Nat /\ Tail(old) \in Seq(Nat)
      /\ Len(old) \in Nat \ {0} /\ Len(Tail(old)) = Len(old) - 1
      /\ Head(old) = old[1]
      /\ \A k \in 1..Len(Tail(old)) : Tail(old)[k] = old[k + 1]
  BY <1>1, <1>4
<1>6. PICK e \in Runs \X Nat : e = <<sock[c].run, Head(old)>>
  BY <1>2, <1>5, Facts
<1>7. lines' = IF Len(lines) = MaxShown THEN lines ELSE Append(lines, e)
  BY <1>4, <1>6 DEF OnLine
<1>8. lines' \in Seq(Runs \X Nat)
  BY <1>7, AppendProperties DEF IInv, Types
<1>9. Types' /\ Requests'
  BY <1>1, <1>3, <1>8 DEF IInv, Types, Requests
<1>10. Apart'
  BY <1>1, <1>2, <1>3, KeepsApart
<1>11. Straight'
  <2> SUFFICES ASSUME ~reconnecting PROVE Straight'
    BY <1>1 DEF Straight
  <2>1. /\ c = ref.ws /\ sock[c].run = active /\ ~done
        /\ ref.timer = NoRun /\ ref.poll = NoRun /\ call["poll"] = Idle
        /\ \A i \in DOMAIN lines : lines[i] = <<active, i>>
        /\ \A d \in Conns : d # c => sock[d].link \notin {"opening", "open"}
        /\ Len(lines) # MaxShown => Counts(sock[c], Len(lines))
    <3>1. active # NoRun
      BY <1>2, Facts, NamesOK DEF IInv, Straight
    <3> QED BY <1>2, <3>1 DEF IInv, Straight
  <2>2. \A d \in Conns : sock'[d].link \in {"opening", "open"} => d = c
    BY <1>3, <2>1
  <2>3. CASE Len(lines) = MaxShown
    BY <1>1, <1>2, <1>3, <1>7, <2>1, <2>2, <2>3 DEF Straight
  <2>4. CASE Len(lines) # MaxShown
    <3>1. PICK n \in Nat : n = Len(lines)
      BY LenProperties DEF IInv, Types
    <3>2. /\ lines' = Append(lines, e) /\ Len(lines') = n + 1
          /\ \A i \in 1..n : lines'[i] = lines[i]
          /\ lines'[n + 1] = e /\ DOMAIN lines' = 1..(n + 1)
          /\ DOMAIN lines = 1..n
      BY <1>7, <2>4, <3>1, AppendProperties DEF IInv, Types
    <3>3. Counts(sock[c], n)
      BY <2>1, <2>4, <3>1
    <3>4. /\ \A k \in 1..Len(old) :
                \/ old[k] = n + k
                \/ old[k] = DONE /\ s.server = "ended" /\ k = Len(old)
          /\ s.server # "ended" => s.lastId = n + Len(old)
      BY <1>2, <1>4, <3>3 DEF Counts
    <3>5. old[1] = n + 1
      BY <1>1, <1>4, <1>5, <3>4, SMTT(20)
    <3>6. \A i \in DOMAIN lines' : lines'[i] = <<active, i>>
      BY <1>5, <1>6, <2>1, <3>2, <3>5
    <3>7. Counts(s, n + 1)
      <4>1. PICK rest \in Seq(Nat) :
              /\ rest = Tail(old) /\ Len(old) = Len(rest) + 1
              /\ \A k \in 1..Len(rest) : rest[k] = old[k + 1]
        <5>1. /\ Tail(old) \in Seq(Nat) /\ Len(old) = Len(Tail(old)) + 1
              /\ \A k \in 1..Len(Tail(old)) : Tail(old)[k] = old[k + 1]
          BY <1>5
        <5> QED BY <5>1
      <4>2. PICK m \in Nat : m = Len(rest)
        BY LenProperties
      <4>3. Len(old) = m + 1 /\ \A k \in 1..m : rest[k] = old[k + 1]
        BY <4>1, <4>2
      <4>4. ASSUME NEW k \in 1..m
            PROVE  \/ rest[k] = (n + 1) + k
                   \/ rest[k] = DONE /\ s.server = "ended" /\ k = m
        <5>1. /\ k + 1 \in 1..Len(old) /\ rest[k] = old[k + 1]
              /\ n + (k + 1) = (n + 1) + k
          BY <4>3
        <5>2. CASE old[k + 1] = n + (k + 1)
          BY <5>1, <5>2
        <5>3. CASE old[k + 1] = DONE /\ s.server = "ended" /\ k + 1 = Len(old)
          BY <4>3, <5>1, <5>3
        <5> QED BY <3>4, <5>1, <5>2, <5>3
      <4>5. s.server # "ended" => s.lastId = (n + 1) + m
        BY <3>4, <4>3
      <4>6. DOMAIN rest = 1..m /\ s.inbox = rest
        BY <1>2, <1>4, <4>1, <4>2
      <4> QED BY <4>2, <4>4, <4>5, <4>6 DEF Counts
    <3> QED BY <1>1, <1>2, <1>3, <2>1, <2>2, <3>2, <3>6, <3>7 DEF Straight
  <2> QED BY <2>3, <2>4
<1> QED BY <1>3, <1>9, <1>10, <1>11 DEF IInv

LEMMA OnDoneInv == ASSUME IInv, NEW c \in Conns, OnDone(c) PROVE IInv'
<1>1. /\ sock[c].inbox # <<>> /\ Head(sock[c].inbox) = DONE
      /\ sock' = [sock EXCEPT ![c].inbox = Tail(@)]
      /\ Issue("status", sock[c].run)
      /\ UNCHANGED <<log, shown, ref, cancelling, reconnecting>>
  BY DEF OnDone
<1>2. PICK s \in Sock :
           /\ sock' = [sock EXCEPT ![c] = s]
           /\ s.run = sock[c].run /\ s.link = "open" /\ sock[c].link = "open"
           /\ s.server = sock[c].server /\ s.lastId = sock[c].lastId
           /\ s.inbox = Tail(sock[c].inbox)
           /\ Sound(s) /\ Lags(s, log[s.run])
  BY <1>1, InboxFacts
<1>3. /\ sock' \in [Conns -> Sock] /\ sock'[c] = s
      /\ \A d \in Conns : d # c => sock'[d] = sock[d]
      /\ Sockets' /\ Behind'
  BY <1>1, <1>2, SocketFacts
<1>4. /\ call' \in [Calls -> Request] /\ Requests'
      /\ call'["poll"] = call["poll"]
  BY <1>1, <1>2, Facts, IssueMoves DEF Calls
<1>5. Types'
  BY <1>1, <1>3, <1>4 DEF IInv, Types
<1>6. Apart'
  BY <1>1, <1>2, <1>3, KeepsApart
<1>7. Straight'
  <2> SUFFICES ASSUME ~reconnecting PROVE Straight'
    BY <1>1 DEF Straight
  <2>1. /\ c = ref.ws /\ sock[c].run = active /\ ~done
        /\ ref.timer = NoRun /\ ref.poll = NoRun /\ call["poll"] = Idle
        /\ active # NoRun => \A i \in DOMAIN lines : lines[i] = <<active, i>>
        /\ \A d \in Conns : d # c => sock[d].link \notin {"opening", "open"}
        /\ Len(lines) # MaxShown => Counts(sock[c], Len(lines))
    BY <1>2 DEF IInv, Straight
  <2>2. \A d \in Conns : sock'[d].link \in {"opening", "open"} => d = c
    BY <1>3, <2>1
  <2>3. Len(lines) # MaxShown => Counts(s, Len(lines))
    <3>1. ASSUME Len(lines) # MaxShown PROVE Counts(s, Len(lines))
      <4>1. PICK old \in Seq(Nat) : old = sock[c].inbox
        BY Facts DEF Sock
      <4>2. PICK n \in Nat : n = Len(lines)
        BY LenProperties DEF IInv, Types
      <4>3. /\ old # <<>> /\ Len(old) \in Nat \ {0} /\ old[1] = DONE
            /\ Tail(old) \in Seq(Nat) /\ Len(Tail(old)) = Len(old) - 1
        BY <1>1, <4>1
      <4>4. old[1] = n + 1 \/ (s.server = "ended" /\ 1 = Len(old))
        <5>1. Counts(sock[c], n) /\ 1 \in DOMAIN old
          BY <2>1, <3>1, <4>2, <4>3
        <5> QED BY <1>2, <4>1, <5>1 DEF Counts
      <4>5. s.server = "ended" /\ Len(old) = 1
        BY <4>2, <4>3, <4>4 DEF DONE
      <4>6. PICK rest \in Seq(Nat) : rest = Tail(old) /\ Len(rest) = 0
        <5>1. Tail(old) \in Seq(Nat) /\ Len(Tail(old)) = 0
          BY <4>3, <4>5
        <5> QED BY <5>1
      <4>7. DOMAIN s.inbox = {}
        BY <1>2, <4>1, <4>6, SMTT(20)
      <4> QED BY <4>5, <4>7 DEF Counts
    <3> QED BY <3>1
  <2> QED BY <1>1, <1>2, <1>3, <1>4, <2>1, <2>2, <2>3 DEF Straight
<1> QED BY <1>3, <1>4, <1>5, <1>6, <1>7 DEF IInv

\* A free connection opens for a run that has no socket and no timer.
LEMMA ConnectInv ==
  ASSUME IInv, NEW r \in Runs, NEW cleared \in [ws : Conns \cup {NoConn},
                                               poll : Runs \cup {NoRun},
                                               timer : Runs \cup {NoRun}],
         Connect(r, cleared), r \in created', created \subseteq created',
         created' \in SUBSET Runs,
         cleared.poll = ref.poll, cleared.timer \in {ref.timer, NoRun},
         cleared.timer # r,
         \A c \in Conns : sock[c].link # "free" => sock[c].run # r,
         active' \in created' \cup {NoRun}, done' \in BOOLEAN,
         lines' \in Seq(Runs \X Nat),
         UNCHANGED <<log, cancelling, call, reconnecting>>,
         reconnecting \/ (/\ active' = r /\ lines' = <<>> /\ ~done'
                         /\ \A c \in Conns : sock[c].link
                                             \notin {"opening", "open"})
  PROVE  IInv'
<1> DEFINE s == [Free EXCEPT !.run = r, !.link = "opening"]
<1>1. PICK c \in Conns : /\ sock[c].link = "free"
                         /\ sock' = [sock EXCEPT ![c] = s]
                         /\ ref' = [cleared EXCEPT !.ws = c]
  BY DEF Connect
<1>2. /\ s \in Sock /\ s.run = r /\ s.link = "opening" /\ s.server = "off"
      /\ s.lastId = 0 /\ s.inbox = <<>>
  BY EmptySeq DEF Free, Sock
<1> HIDE DEF s
<1>3. /\ sock' \in [Conns -> Sock] /\ sock'[c] = s
      /\ \A d \in Conns : d # c => sock'[d] = sock[d]
  BY <1>1, <1>2 DEF IInv, Types
<1>4. Sockets'
  BY <1>2, <1>3 DEF IInv, Sockets, Sound
<1>5. Behind'
  BY <1>2, <1>3 DEF IInv, Behind, Lags
<1>6. /\ ref' \in [ws : Conns \cup {NoConn}, poll : Runs \cup {NoRun},
                   timer : Runs \cup {NoRun}]
      /\ ref'.ws = c /\ ref'.poll = ref.poll /\ ref'.timer = cleared.timer
  BY <1>1
<1>7. Types' /\ Requests'
  BY <1>3, <1>6 DEF IInv, Types, Requests
<1>8. Apart'
  <2>1. \A d, e \in Conns :
          d # e /\ sock[d].link # "free" /\ sock[e].link # "free"
            => sock[d].run # sock[e].run
    BY DEF IInv, Apart
  <2>2. \A d, e \in Conns :
          d # e /\ sock'[d].link # "free" /\ sock'[e].link # "free"
            => sock'[d].run # sock'[e].run
    BY <1>2, <1>3, <2>1
  <2>3. /\ \A d \in Conns : sock[d].link # "free" => sock[d].run # ref.timer
        /\ \A d \in Conns : sock[d].link # "free" => sock[d].run # NoRun
        /\ {ref.timer, ref.poll} \subseteq created' \cup {NoRun}
    BY Facts DEF IInv, Apart
  <2>4. \A d \in Conns : sock'[d].link # "free"
                          => sock'[d].run # cleared.timer
    BY <1>2, <1>3, <2>3
  <2> QED BY <1>2, <1>3, <1>6, <2>2, <2>3, <2>4 DEF Apart
<1>9. Straight'
  <2> SUFFICES ASSUME ~reconnecting PROVE Straight'
    BY DEF Straight
  <2>1. \A d \in Conns : sock'[d].link \in {"opening", "open"} => d = c
    BY <1>3
  <2>2. ref.timer = NoRun /\ ref.poll = NoRun /\ call["poll"] = Idle
    BY DEF IInv, Straight
  <2> QED BY <1>2, <1>3, <1>6, <2>1, <2>2 DEF Straight
<1> QED BY <1>4, <1>5, <1>7, <1>8, <1>9 DEF IInv

LEMMA OpeningInv ==
  ASSUME IInv, TimerFires \/ \E r \in Runs : Follow(r)
  PROVE  IInv'
<1>1. CASE TimerFires
  <2> DEFINE cleared == [ref EXCEPT !.timer = NoRun]
  <2>1. /\ cleared \in [ws : Conns \cup {NoConn}, poll : Runs \cup {NoRun},
                        timer : Runs \cup {NoRun}]
        /\ cleared.ws = ref.ws /\ cleared.poll = ref.poll
        /\ cleared.timer = NoRun
    BY DEF IInv, Types
  <2>2. /\ ref.timer # NoRun /\ ref.timer \in Runs /\ reconnecting
        /\ ref.timer \in created /\ created \in SUBSET Runs
        /\ active \in created \cup {NoRun} /\ lines \in Seq(Runs \X Nat)
        /\ done \in BOOLEAN
        /\ \A c \in Conns : sock[c].link # "free" => sock[c].run # ref.timer
    BY <1>1 DEF TimerFires, IInv, Types, Straight, Apart
  <2>3. UNCHANGED <<log, shown, cancelling, call, reconnecting>>
    BY <1>1 DEF TimerFires
  <2>4. CASE done
    <3>1. ref' = cleared /\ UNCHANGED sock
      BY <1>1, <2>4 DEF TimerFires
    <3> HIDE DEF cleared
    <3>2. Types' /\ Requests' /\ Sockets' /\ Behind'
      BY <2>1, <2>3, <3>1 DEF IInv, Types, Requests, Sockets, Sound, Behind,
                              Lags
    <3>3. Apart'
      <4>1. \A c \in Conns : sock[c].link # "free" => sock[c].run # NoRun
        BY Facts
      <4> QED BY <2>1, <2>3, <3>1, <4>1 DEF IInv, Apart
    <3>4. Straight'
      BY <2>2, <2>3 DEF Straight
    <3> QED BY <3>2, <3>3, <3>4 DEF IInv
  <2>5. CASE ~done
    <3>1. Connect(ref.timer, cleared)
      BY <1>1, <2>5 DEF TimerFires
    <3> HIDE DEF cleared
    <3> QED BY <2>1, <2>2, <2>3, <3>1, ConnectInv
  <2> QED BY <2>4, <2>5
<1>2. ASSUME NEW r \in Runs, Follow(r) PROVE IInv'
  <2>1. /\ active = NoRun /\ r \notin created
        /\ active' = r /\ created' = created \cup {r}
        /\ lines' = <<>> /\ done' = FALSE /\ Connect(r, ref)
        /\ UNCHANGED <<log, cancelling, call, reconnecting>>
    BY <1>2 DEF Follow
  <2>2. /\ ref \in [ws : Conns \cup {NoConn}, poll : Runs \cup {NoRun},
                    timer : Runs \cup {NoRun}]
        /\ created \in SUBSET Runs /\ ref.timer \in created \cup {NoRun}
    BY DEF IInv, Types, Apart
  <2>3. \A c \in Conns : sock[c].link # "free" => sock[c].run # r
    BY <2>1, Facts
  <2>4. reconnecting \/ \A c \in Conns : sock[c].link
                                           \notin {"opening", "open"}
    <3>1. \A c \in Conns : sock[c].link # "free" => sock[c].run # active
      BY <2>1, Facts
    <3> QED BY <3>1 DEF IInv, Straight
  <2>5. ref.timer # r /\ lines' \in Seq(Runs \X Nat)
    BY <2>1, <2>2, NamesOK, EmptySeq
  <2> QED BY <2>1, <2>2, <2>3, <2>4, <2>5, ConnectInv
<1> QED BY <1>1, <1>2

-----------------------------------------------------------------------------
LEMMA Step == IInv /\ [Next]_vars => IInv'
<1> SUFFICES ASSUME IInv, [Next]_vars PROVE IInv'
  OBVIOUS
<1>1. CASE \E r \in Runs : LogLine(r) \/ FinishRun(r)
  BY <1>1, RunInv
<1>2. CASE TimerFires \/ \E r \in Runs : Follow(r)
  BY <1>2, OpeningInv
<1>3. ASSUME NEW c \in Conns, Socket(c) PROVE IInv'
  BY <1>3, ServerInv, OpenedInv, BreakInv, OnCloseInv, OnLineInv, OnDoneInv
    DEF Socket
<1>4. CASE UserCancels \/ CancelAnswered \/ PollTick
  BY <1>4, UserInv
<1>5. CASE \/ StatusTick
           \/ \E q \in Calls : GetRun(q) \/ GetLogs(q) \/ CallFails(q)
  BY <1>5, CallInv
<1>6. CASE \E q \in Calls : Answer(q)
  BY <1>6, AnswerInv DEF Answer
<1>7. CASE UNCHANGED vars
  BY <1>7 DEF vars, IInv, Types, Requests, Sockets, Sound, Apart, Behind, Lags,
              Straight, Counts
<1> QED BY <1>1, <1>2, <1>3, <1>4, <1>5, <1>6, <1>7 DEF Next

THEOREM Invariance == Spec => []IInv
  BY InitInv, Step, PTL DEF Spec

\* LogStream!TypeOK: sockets, timers and requests belong to runs, and a socket
\* never holds more messages than the log has lines, and the sentinel.
THEOREM TypeCorrect == Spec => []TypeOK
<1>1. IInv => TypeOK
  <2> SUFFICES ASSUME IInv PROVE TypeOK
    OBVIOUS
  <2>1. ASSUME NEW c \in Conns
        PROVE  /\ sock[c].run \in Runs \cup {NoRun}
               /\ sock[c].link \in {"free", "opening", "open", "closing"}
               /\ sock[c].server \in {"off", "read", "status", "final",
                                      "ended"}
               /\ sock[c].link = "free" => sock[c] = Free
               /\ Len(sock[c].inbox) <= MaxLog + 1
    <3>1. sock[c] \in Sock /\ Sound(sock[c])
      BY DEF IInv, Types, Sockets
    <3>2. CASE sock[c].link = "open"
      <4>1. PICK l \in 0..MaxLog : l = log[sock[c].run].lines
        BY <3>2, Facts DEF IInv, Types
      <4>2. Lags(sock[c], log[sock[c].run])
        BY <3>2 DEF IInv, Behind
      <4>3. Len(sock[c].inbox) \in Nat /\ sock[c].lastId \in Nat
        BY <3>1 DEF Sock
      <4>4. Len(sock[c].inbox) <= MaxLog + 1
        BY <4>1, <4>2, <4>3, NamesOK DEF Lags
      <4> QED BY <3>1, <3>2, <4>4 DEF Sock
    <3>3. CASE sock[c].link # "open"
      <4>1. Len(sock[c].inbox) = 0
        BY <3>1, <3>3, EmptySeq DEF Sound
      <4> QED BY <3>1, <4>1, NamesOK DEF Sock, Sound
    <3> QED BY <3>2, <3>3
  <2>2. {ref.poll, ref.timer, cancelling} \subseteq Runs \cup {NoRun}
    BY DEF IInv, Types
  <2> QED BY <2>1, <2>2 DEF IInv, Types, Requests, TypeOK
<1> QED BY <1>1, Invariance, PTL

\* LogStream!ShownIsPrefix: until it reconnects the dashboard shows the first
\* lines of the run it follows, each once and in order.
THEOREM LogIsShown == Spec => []ShownIsPrefix
<1>1. IInv => ShownIsPrefix
  BY DEF IInv, Straight, ShownIsPrefix
<1> QED BY <1>1, Invariance, PTL

\* LogStream!SentinelIsLast: the sentinel comes after everything that was
\* logged before the run became terminal.
THEOREM NothingAfterSentinel == Spec => []SentinelIsLast
<1>1. IInv => SentinelIsLast
  BY Facts DEF IInv, Behind, Lags, SentinelIsLast
<1> QED BY <1>1, Invariance, PTL

\* LogStream!OneSocket: a run never has two sockets.
THEOREM SocketsAlone == Spec => []OneSocket
<1>1. IInv => OneSocket
  <2> SUFFICES ASSUME IInv, NEW r \in Runs
               PROVE  Cardinality({c \in Conns :
                                     sock[c].run = r
                                     /\ sock[c].link \in {"opening", "open"}})
                        <= 1
    BY DEF OneSocket
  <2> DEFINE S == {c \in Conns : sock[c].run = r
                                 /\ sock[c].link \in {"opening", "open"}}
  <2>1. \A c, d \in S : c = d
    BY DEF IInv, Apart
  <2> HIDE DEF S
  <2>2. Cardinality(S) <= 1
    <3>1. CASE S = {}
      BY <3>1, FS_EmptySet
    <3>2. CASE S # {}
      <4>1. PICK c : S = {c}
        BY <2>1, <3>2
      <4>2. Cardinality(S) = 1
        BY <4>1, FS_Singleton
      <4> QED BY <4>2
    <3> QED BY <3>1, <3>2
  <2> QED BY <2>2 DEF S
<1> QED BY <1>1, Invariance, PTL

=============================================================================
