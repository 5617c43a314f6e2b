--------------------------- MODULE ClientHeartbeats ---------------------------
(***************************************************************************)
(* The heartbeats of a monitor a browser shows: heartbeatList of             *)
(* src/mixins/socket.js, fed by the stored ones that are sent after a login  *)
(* or when they are cleared (sendHeartbeatList, server/client.js) and by     *)
(* each new one (beat(), server/model/monitor.js), which is sent before it   *)
(* is stored.  The last one shown is the status of the monitor.              *)
(***************************************************************************)
EXTENDS Naturals, Sequences, FiniteSets, SequencesExt

CONSTANTS
  HistoryLimit,  \* heartbeats of a history (100 in the code)
  ShownLimit,    \* heartbeats shown before the first is dropped (150)
  MaxBeats,      \* bound: heartbeats
  MaxLosses,     \* bound: lost connections
  MaxClears      \* bound: times the heartbeats are cleared

\* What an instance has to satisfy.
HeartbeatsAssumption ==
  /\ HistoryLimit \in Nat \ {0} /\ ShownLimit \in Nat /\ HistoryLimit < ShownLimit
  /\ MaxBeats \in Nat /\ MaxLosses \in Nat /\ MaxClears \in Nat

VARIABLES
  sent,     \* heartbeats sent so far: they are the numbers 1..sent
  stored,   \* the table, in the order of time
  storing,  \* the last one sent is not stored yet
  socket,   \* the browser's socket: how many it had, and whether it is connected
  channel,  \* messages on the way to the browser
  history,  \* the logins of its sockets: how far, and the answer of the query
  clear,    \* the handler of clearHeartbeats
  clears,
  shown,    \* heartbeatList of the browser
  missed,   \* history variable: heartbeats sent before the socket came and not yet in a history
  wiped,    \* history variable: heartbeats a clear took from a browser of this connection
  twice     \* history variable: heartbeats that came between a login and its query

hvars == <<sent, stored, storing, socket, channel, history, clear, clears, shown, missed, wiped, twice>>

Sockets == 1..(MaxLosses + 1)
Idle    == [step |-> "none", list |-> <<>>]
LastOf(list) == IF list = <<>> THEN 0 ELSE list[Len(list)]
Newest  == SubSeq(stored, IF Len(stored) > HistoryLimit THEN Len(stored) - HistoryLimit + 1 ELSE 1, Len(stored))

Lists    == Seq(1..sent)
Messages == [event : {"heartbeat", "heartbeatList"}, list : Lists, overwrite : BOOLEAN]

TypeOK ==
  /\ sent \in 0..MaxBeats /\ stored \in Lists /\ storing \in BOOLEAN
  /\ socket \in [count : 0..(MaxLosses + 1), connected : BOOLEAN]
  /\ channel \in Seq(Messages)
  /\ history \in [Sockets -> [step : {"none", "read", "send", "done"}, list : Lists]]
  /\ clear \in [step : {"none", "read", "send"}, list : Lists] /\ clears \in 0..MaxClears
  /\ shown \in Lists /\ missed \subseteq 1..sent /\ wiped \subseteq 1..sent /\ twice \subseteq 1..sent

Init ==
  /\ \E n \in 0..HistoryLimit : n <= MaxBeats /\ sent = n /\ stored = [i \in 1..n |-> i]
  /\ storing = FALSE
  /\ socket = [count |-> 0, connected |-> FALSE] /\ channel = <<>>
  /\ history = [s \in Sockets |-> Idle] /\ clear = Idle /\ clears = 0
  /\ shown = <<>> /\ missed = {} /\ wiped = {} /\ twice = {}

Send(message) == channel' = IF socket.connected THEN Append(channel, message) ELSE channel

-----------------------------------------------------------------------------
(* The monitor *)

\* io.to(user).emit("heartbeat"), then R.store().
SendBeat ==
  /\ ~storing /\ sent < MaxBeats
  /\ sent' = sent + 1 /\ storing' = TRUE
  /\ Send([event |-> "heartbeat", list |-> <<sent + 1>>, overwrite |-> FALSE])
  /\ twice' = IF socket.connected /\ history[socket.count].step = "read" THEN twice \cup {sent + 1} ELSE twice
  /\ UNCHANGED <<stored, socket, history, clear, clears, shown, missed, wiped>>

StoreBeat ==
  /\ storing /\ storing' = FALSE
  /\ stored' = Append(stored, sent)
  /\ UNCHANGED <<sent, socket, channel, history, clear, clears, shown, missed, wiped, twice>>

-----------------------------------------------------------------------------
(* The connection *)

\* mutant: what was shown stays
Connect_Keeps ==
  /\ ~socket.connected /\ socket.count <= MaxLosses
  /\ socket' = [count |-> socket.count + 1, connected |-> TRUE]
  /\ history' = [history EXCEPT ![socket.count + 1].step = "read"]
  /\ missed' = IF storing THEN {sent} ELSE {}
  /\ wiped' = {}
  /\ twice' = {}
  /\ UNCHANGED <<sent, stored, storing, channel, clear, clears, shown>>

\* A new socket empties the list if it is not the first.  The server puts it into the room of its
\* user and, some queries later, reads the history.
Connect ==
  /\ ~socket.connected /\ socket.count <= MaxLosses
  /\ socket' = [count |-> socket.count + 1, connected |-> TRUE]
  /\ shown' = IF socket.count + 1 >= 2 THEN <<>> ELSE shown
  /\ history' = [history EXCEPT ![socket.count + 1].step = "read"]
  /\ missed' = IF storing THEN {sent} ELSE {}
  /\ wiped' = {}
  /\ twice' = {}
  /\ UNCHANGED <<sent, stored, storing, channel, clear, clears>>

Disconnect ==
  /\ socket.connected /\ socket.count <= MaxLosses
  /\ socket' = [socket EXCEPT !.connected = FALSE]
  /\ channel' = <<>>
  /\ UNCHANGED <<sent, stored, storing, history, clear, clears, shown, missed, wiped, twice>>

-----------------------------------------------------------------------------
(* sendHeartbeatList() after a login, to the one socket, and after a clear, to the room. *)

ReadHistory(s) ==
  /\ history[s].step = "read"
  /\ history' = [history EXCEPT ![s] = [step |-> "send", list |-> Newest]]
  /\ missed' = IF s = socket.count THEN missed \ ToSet(Newest) ELSE missed
  /\ UNCHANGED <<sent, stored, storing, socket, channel, clear, clears, shown, wiped, twice>>

SendHistory(s) ==
  /\ history[s].step = "send"
  /\ history' = [history EXCEPT ![s] = [step |-> "done", list |-> <<>>]]
  /\ IF s = socket.count
     THEN Send([event |-> "heartbeatList", list |-> history[s].list, overwrite |-> FALSE])
     ELSE UNCHANGED channel
  /\ UNCHANGED <<sent, stored, storing, socket, clear, clears, shown, missed, wiped, twice>>

\* UptimeCalculator.clearStatistics(); the monitor is started again.
ClearHeartbeats ==
  /\ clear.step = "none" /\ clears < MaxClears /\ clears' = clears + 1
  /\ stored' = <<>>
  /\ clear' = [clear EXCEPT !.step = "read"]
  /\ UNCHANGED <<sent, storing, socket, channel, history, shown, missed, wiped, twice>>

ReadCleared ==
  /\ clear.step = "read"
  /\ clear' = [step |-> "send", list |-> Newest]
  /\ UNCHANGED <<sent, stored, storing, socket, channel, history, clears, shown, missed, wiped, twice>>

\* What came after the query, or was not stored by then, is overwritten.
SendCleared ==
  /\ clear.step = "send"
  /\ clear' = Idle
  /\ Send([event |-> "heartbeatList", list |-> clear.list, overwrite |-> TRUE])
  /\ wiped' = IF socket.connected THEN {b \in 1..sent : b > LastOf(clear.list)} ELSE wiped
  /\ UNCHANGED <<sent, stored, storing, socket, history, clears, shown, missed, twice>>

-----------------------------------------------------------------------------
(* The browser *)

\* mutant: a history is taken for all there is
Receive_Replaces ==
  /\ channel # <<>> /\ channel' = Tail(channel)
  /\ LET msg == Head(channel) IN
     shown' = CASE msg.event = "heartbeatList" -> msg.list
                [] OTHER -> LET more == shown \o msg.list
                            IN IF Len(more) >= ShownLimit THEN Tail(more) ELSE more
  /\ UNCHANGED <<sent, stored, storing, socket, history, clear, clears, missed, wiped, twice>>

\* A history goes in front of what came before it, or replaces it.
Receive ==
  /\ channel # <<>> /\ channel' = Tail(channel)
  /\ LET msg == Head(channel) IN
     shown' = IF msg.event = "heartbeat"
              THEN LET more == shown \o msg.list IN IF Len(more) >= ShownLimit THEN Tail(more) ELSE more
              ELSE IF msg.overwrite THEN msg.list ELSE msg.list \o shown
  /\ UNCHANGED <<sent, stored, storing, socket, history, clear, clears, missed, wiped, twice>>

Next ==
  \/ SendBeat \/ StoreBeat \/ Connect \/ Disconnect
  \/ \E s \in Sockets : ReadHistory(s) \/ SendHistory(s)
  \/ ClearHeartbeats \/ ReadCleared \/ SendCleared \/ Receive

Spec == Init /\ [][Next]_hvars

-----------------------------------------------------------------------------
(* Properties *)

Quiet ==
  /\ socket.connected /\ history[socket.count].step = "done" /\ clear.step = "none"
  /\ channel = <<>> /\ ~storing

\* When nothing is under way, the last heartbeat shown is the last one stored, unless a login or
\* a clear just missed it; it is not the status of another time.
LatestIsShown ==
  Quiet /\ stored # <<>> => LastOf(shown) = LastOf(stored) \/ LastOf(stored) \in missed \cup wiped

\* Nothing a history would hold is missing but what was missed in that way.
NoneIsMissing == Quiet => ToSet(Newest) \subseteq ToSet(shown) \cup missed \cup wiped

\* A heartbeat is shown twice only if it came between a login and its query, never more often.
ShownOnce ==
  clears = 0 => \A b \in 1..sent :
    Cardinality({i \in DOMAIN shown : shown[i] = b}) <= (IF b \in twice THEN 2 ELSE 1)

=============================================================================
