---------------------------- MODULE AgentChannel ----------------------------
(***************************************************************************)
(* The connection of the control plane to the agent of one node, and the   *)
(* log of one container on it, from "docker logs -f" on the node to the    *)
(* pages of the browsers (services/agent_ws.py, routers/ws.py, ws_events   *)
(* of agent/main.py, pages/tasks/[id].vue).                                *)
(*                                                                         *)
(* The lines of the container are the numbers 1, 2, ..., lines.  A stream  *)
(* has a generation, which the control plane counts and the agent repeats  *)
(* in all it sends.  "up" and "down" are what is under way between the two *)
(* and queue[p] what is under way to a page.  The newest messages of "up"  *)
(* still wait in the agent's send_q, which is bounded: when it is full,    *)
(* what has waited longest is dropped.                                     *)
(***************************************************************************)
EXTENDS Integers, Sequences

CONSTANTS
    Pages,      \* browser windows, each with a connection of its own
    MaxLines,   \* bound on the lines of the container
    Replay,     \* lines a new stream begins with
    Kept,       \* lines the control plane keeps for later pages
    QueueMax,   \* messages that may wait for a page
    SendMax,    \* messages of the log that may wait in the agent's send_q
    MaxUses,    \* bound on what users do
    MaxFaults,  \* bound on what goes wrong
    Ops,        \* which of these happen
    Reset, End, \* the messages log_reset and log_end to a page
    None

ASSUME ConstantsAssumption ==
    /\ MaxLines \in Nat /\ Replay \in Nat \ {0} /\ Kept \in Nat \ {0}
    /\ QueueMax \in Nat \ {0} /\ SendMax \in Nat \ {0}
    /\ MaxUses \in Nat /\ MaxFaults \in Nat
    /\ Ops \subseteq {"silent", "stuck", "restart", "hurry", "lost", "burst"}
    /\ {Reset, End} \cap 1..MaxLines = {} /\ Reset # End

VARIABLES
    conn, cut,      \* the control plane's connection; nothing passes it any more
    connected,      \* _connected
    status,         \* agent_status, in the database
    subs,           \* _log_subscribers
    wanted,         \* the container is in _agent_log_subs
    gen, history,   \* _log_generations, _log_history
    unsent,         \* unsubscriptions a task is yet to send
    down, up,
    held,           \* how many messages of up are still in send_q
    spilt,          \* history: what this session's send_q dropped
    skipped,        \* history: the lines that a send_q ever dropped
    reader, ended,  \* the agent's stream; streams it stopped and not yet reported
    lines, running, \* the container
    alive,          \* the node answers
    sock, shown, queue, view,   \* of each page
    uses, faults

cpVars == <<subs, wanted, gen, history, unsent>>
linkVars == <<conn, cut, connected, status, alive>>
upVars == <<up, held, spilt, skipped>>
wire == <<down, upVars>>
agentVars == <<reader, ended>>
container == <<lines, running>>
events == <<uses, faults>>
pageVars == <<sock, shown, queue, view>>
vars == <<cpVars, linkVars, wire, agentVars, container, pageVars, events>>

Gens == Nat
Message == [type : {"log"}, gen : Gens, line : 1..MaxLines]
           \cup [type : {"log_end"}, gen : Gens]
Stream == [gen : Gens, pos : 0..MaxLines]
ASSUME StreamAssumption == None \notin Stream

TypeOK ==
    /\ conn \in {"none", "open", "closing"} /\ cut \in BOOLEAN
    /\ connected \in BOOLEAN /\ status \in {"online", "offline"}
    /\ subs \subseteq Pages /\ wanted \in BOOLEAN /\ gen \in Gens
    /\ history \in Seq(1..MaxLines) /\ Len(history) <= Kept
    /\ unsent \subseteq Gens
    /\ down \in Seq([type : {"log_subscribe", "log_unsubscribe"}, gen : Gens])
    /\ up \in Seq(Message) /\ held \in 0..SendMax /\ held <= Len(up)
    /\ spilt \subseteq Message /\ skipped \subseteq 1..MaxLines
    /\ reader \in {None} \cup Stream /\ ended \subseteq Gens
    /\ lines \in 0..MaxLines /\ running \in BOOLEAN /\ alive \in BOOLEAN
    /\ sock \in [Pages -> {"up", "lost", "down"}]
    /\ shown \in [Pages -> {"no", "yes", "ended"}]
    /\ queue \in [Pages -> Seq(1..MaxLines \cup {Reset, End})]
    /\ \A p \in Pages : Len(queue[p]) <= QueueMax
    /\ view \in [Pages -> Seq(1..MaxLines)]
    /\ uses \in 0..MaxUses /\ faults \in 0..MaxFaults

\* The process starts; the status in the table is from an earlier one.
Init ==
    /\ conn = "none" /\ cut = FALSE /\ connected = FALSE
    /\ status \in {"online", "offline"} /\ alive \in BOOLEAN
    /\ subs = {} /\ wanted = FALSE /\ gen = 0 /\ history = <<>> /\ unsent = {}
    /\ down = <<>> /\ up = <<>> /\ held = 0 /\ spilt = {} /\ skipped = {}
    /\ reader = None /\ ended = {}
    /\ lines = 0 /\ running = TRUE
    /\ sock = [p \in Pages |-> "up"] /\ shown = [p \in Pages |-> "no"]
    /\ queue = [p \in Pages |-> <<>>] /\ view = [p \in Pages |-> <<>>]
    /\ uses = 0 /\ faults = 0

Use == uses < MaxUses /\ uses' = uses + 1 /\ UNCHANGED faults
Fault == faults < MaxFaults /\ faults' = faults + 1 /\ UNCHANGED uses

----------------------------------------------------------------------------
(* The control plane.                                                      *)

\* What a command that is sent now adds to what is under way.
Sent(type, g) == IF conn = "open" /\ ~cut THEN Append(down, [type |-> type, gen |-> g])
                 ELSE down

\* What is put into a queue that is full is not there.
Put(q, ms) ==
    q \o SubSeq(ms, 1, IF Len(q) + Len(ms) <= QueueMax THEN Len(ms) ELSE QueueMax - Len(q))

\* broadcast: the queues after the message m to the pages of ps.
ToPages(ps, m) ==
    [p \in Pages |-> IF p \in ps /\ sock[p] = "up" THEN Put(queue[p], <<m>>) ELSE queue[p]]

\* Mutant of Current: messages of every generation count.
CurrentAny(g) == g \in Gens

\* A message is of the stream that the control plane has now.
Current(g) == g = gen

\* The n newest of s.
Newest(s, n) == SubSeq(s, IF Len(s) > n THEN Len(s) - n + 1 ELSE 1, Len(s))

\* subscribe_log: the first page of a container opens the stream, later ones get
\* what is kept, and one that never unsubscribed begins again.
Subscribe(p) ==
    /\ UNCHANGED unsent
    /\ \/ /\ p \in subs
          /\ queue' = [queue EXCEPT ![p] = Put(@, <<Reset>> \o history)]
          /\ UNCHANGED <<subs, wanted, gen, history, down>>
       \/ /\ p \notin subs /\ wanted
          /\ queue' = [queue EXCEPT ![p] = Put(@, history)]
          /\ subs' = subs \cup {p}
          /\ UNCHANGED <<wanted, gen, history, down>>
       \/ /\ p \notin subs /\ ~wanted
          /\ subs' = subs \cup {p} /\ wanted' = TRUE
          /\ gen' = gen + 1 /\ history' = <<>>
          /\ down' = IF connected THEN Sent("log_subscribe", gen + 1) ELSE down
          /\ UNCHANGED queue

\* Mutant of LastPage: the stream is closed whoever leaves.
LastPageAny(p) == p \in subs

\* The page p is not subscribed any more; the last one closes the stream.
LastPage(p) == subs = {p}
Dropped(p) ==
    /\ subs' = subs \ {p}
    /\ wanted' = (wanted /\ ~LastPage(p))
    /\ history' = IF LastPage(p) THEN <<>> ELSE history
    /\ UNCHANGED gen

Unsubscribe(p) ==
    /\ Dropped(p)
    /\ down' = IF LastPage(p) THEN Sent("log_unsubscribe", gen) ELSE down
    /\ UNCHANGED unsent

\* unregister_frontend: the page's connection has ended.
Unregister(p) ==
    /\ sock[p] = "lost"
    /\ sock' = [sock EXCEPT ![p] = "down"]
    /\ Dropped(p)
    /\ unsent' = IF LastPage(p) THEN unsent \cup {gen} ELSE unsent
    /\ UNCHANGED <<linkVars, wire, agentVars, container, shown, queue, view, events>>

\* The task that unregister_frontend creates.
SendUnsubscribe ==
    /\ \E g \in unsent : /\ unsent' = unsent \ {g}
                         /\ down' = Sent("log_unsubscribe", g)
    /\ UNCHANGED <<subs, wanted, gen, history, linkVars, upVars, agentVars, container,
                   pageVars, events>>

ReceiveLog(m) ==
    /\ m.type = "log"
    /\ IF Current(m.gen)
       THEN /\ history' = IF subs = {} THEN history
                          ELSE Newest(Append(history, m.line), Kept)
            /\ queue' = ToPages(subs, m.line)
       ELSE UNCHANGED <<history, queue>>
    /\ UNCHANGED <<subs, wanted>>

ReceiveEnd(m) ==
    /\ m.type = "log_end"
    /\ IF Current(m.gen)
       THEN /\ queue' = ToPages(subs, End)
            /\ subs' = {} /\ wanted' = FALSE /\ history' = <<>>
       ELSE UNCHANGED <<queue, subs, wanted, history>>

Receive ==
    /\ conn # "none" /\ Len(up) > held
    /\ ReceiveLog(Head(up)) \/ ReceiveEnd(Head(up))
    /\ up' = Tail(up)
    /\ UNCHANGED <<gen, unsent, linkVars, down, held, spilt, skipped, agentVars, container,
                   sock, shown, view, events>>

\* The messages that carry the metrics: _on_metrics.
Metrics ==
    /\ conn # "none" /\ ~cut /\ status' = "online"
    /\ UNCHANGED <<cpVars, conn, cut, connected, alive, wire, agentVars, container,
                   pageVars, events>>

\* Nothing of the agent's session is left when the connection is.
NoSession ==
    /\ reader' = None /\ ended' = {}
    /\ up' = <<>> /\ held' = 0 /\ spilt' = {} /\ UNCHANGED skipped

\* _connect_node: a stream that is still wanted begins again, with a new generation.
Connect ==
    /\ conn = "none" /\ alive
    /\ conn' = "open" /\ cut' = FALSE /\ connected' = TRUE /\ status' = "online"
    /\ IF wanted
       THEN /\ gen' = gen + 1 /\ history' = <<>>
            /\ queue' = ToPages(subs, Reset)
            /\ down' = <<[type |-> "log_subscribe", gen |-> gen + 1]>>
       ELSE down' = <<>> /\ UNCHANGED <<gen, history, queue>>
    /\ NoSession
    /\ UNCHANGED <<subs, wanted, unsent, alive, container, sock, shown, view, events>>

\* Mutant of ConnectFails: the status is written only when a connection ends.
ConnectFailsQuietly ==
    /\ conn = "none" /\ ~alive
    /\ connected' = FALSE
    /\ UNCHANGED <<cpVars, conn, cut, alive, status, wire, agentVars, container, pageVars,
                   events>>

ConnectFails ==
    /\ conn = "none" /\ ~alive
    /\ connected' = FALSE /\ status' = "offline"
    /\ UNCHANGED <<cpVars, conn, cut, alive, wire, agentVars, container, pageVars, events>>

\* The connection turns out to be closed; what had arrived may not be read.
Disconnected ==
    /\ conn = "closing" \/ (conn = "open" /\ cut)
    /\ conn' = "none" /\ connected' = FALSE /\ status' = "offline"
    /\ down' = <<>> /\ NoSession
    /\ UNCHANGED <<cpVars, cut, alive, container, pageVars, events>>

\* _watchdog_pass: the node has been silent for too long.
Watchdog ==
    /\ conn = "open" /\ connected
    /\ \/ cut /\ UNCHANGED events
       \/ ~cut /\ "stuck" \in Ops /\ Fault
    /\ conn' = "closing" /\ connected' = FALSE /\ status' = "offline"
    /\ UNCHANGED <<cpVars, cut, alive, wire, agentVars, container, pageVars>>

\* The control plane starts again: all it has in memory is gone.
Restart ==
    /\ "restart" \in Ops /\ Fault
    /\ conn' = "none" /\ cut' = FALSE /\ connected' = FALSE
    /\ subs' = {} /\ wanted' = FALSE /\ gen' = 0 /\ history' = <<>> /\ unsent' = {}
    /\ down' = <<>> /\ NoSession
    /\ sock' = [p \in Pages |-> "down"] /\ queue' = [p \in Pages |-> <<>>]
    /\ UNCHANGED <<status, alive, container, shown, view>>

----------------------------------------------------------------------------
(* The agent and the container.                                            *)

\* Start of "docker logs -f --tail".
Reader(g) == [gen |-> g, pos |-> IF lines > Replay THEN lines - Replay ELSE 0]

\* Mutant of Streams: the generation is not looked at.
StreamsAny(g) == reader # None /\ g \in Gens

\* The command is about the stream that the agent has.
Streams(g) == reader # None /\ reader.gen = g

\* recv_loop: start_log_stream, which stops the stream there is, or stop_log_stream.
Command ==
    /\ down # <<>> /\ ~cut /\ down' = Tail(down)
    /\ LET c == Head(down)
       IN  \/ /\ c.type = "log_subscribe" /\ ~Streams(c.gen)
              /\ reader' = Reader(c.gen)
              /\ ended' = IF reader = None THEN ended ELSE ended \cup {reader.gen}
           \/ /\ c.type = "log_unsubscribe" /\ Streams(c.gen)
              /\ reader' = None /\ ended' = ended \cup {reader.gen}
           \/ /\ c.type = "log_subscribe" <=> Streams(c.gen)
              /\ UNCHANGED <<reader, ended>>
    /\ UNCHANGED <<cpVars, linkVars, upVars, container, pageVars, events>>

\* s is under way, the n newest of it in send_q, of which the k oldest are dropped.
Spill(s, n, k) ==
    LET first == Len(s) - n + 1
        gone  == {s[i] : i \in first..(first + k - 1)}
    IN  /\ up' = SubSeq(s, 1, first - 1) \o SubSeq(s, first + k, Len(s))
        /\ held' = n - k
        /\ spilt' = spilt \cup gone
        /\ skipped' = skipped \cup {m.line : m \in {x \in gone : x.type = "log"}}

\* push, then _enqueue, of what one step of a log_reader has to say: the sender has no
\* turn before all of it is in send_q.
Push(ms) ==
    LET n == held + Len(ms)
    IN  IF cut THEN UNCHANGED upVars
        ELSE Spill(up \o ms, n, IF n > SendMax THEN n - SendMax ELSE 0)

\* The loop of ws_events that sends what waits.
Send ==
    /\ held > 0 /\ held' = held - 1
    /\ UNCHANGED <<cpVars, linkVars, down, up, spilt, skipped, agentVars, container,
                   pageVars, events>>

\* The metrics, the progress of transfers, the events of docker and the logs of other
\* containers fill send_q, too.
Crowded ==
    /\ "burst" \in Ops /\ Fault
    /\ \E k \in 1..held : Spill(up, held, k)
    /\ UNCHANGED <<cpVars, linkVars, down, agentVars, container, pageVars>>

\* What read1 finds may be several lines.
ReadLine ==
    /\ reader # None
    /\ \E n \in 1..(lines - reader.pos) :
          /\ reader' = [reader EXCEPT !.pos = @ + n]
          /\ Push([i \in 1..n |->
                     [type |-> "log", gen |-> reader.gen, line |-> reader.pos + i]])
    /\ UNCHANGED <<cpVars, linkVars, down, ended, container, pageVars, events>>

\* "docker logs" ends when the container does.
ReadEnd ==
    /\ reader # None /\ reader.pos = lines /\ ~running
    /\ reader' = None
    /\ Push(<<[type |-> "log_end", gen |-> reader.gen]>>)
    /\ UNCHANGED <<cpVars, linkVars, down, ended, container, pageVars, events>>

\* The end of log_reader after its stream was stopped.
ReportEnd ==
    /\ \E g \in ended : /\ ended' = ended \ {g}
                        /\ Push(<<[type |-> "log_end", gen |-> g]>>)
    /\ UNCHANGED <<cpVars, linkVars, down, reader, container, pageVars, events>>

Write ==
    /\ running /\ lines < MaxLines /\ lines' = lines + 1
    /\ UNCHANGED <<cpVars, linkVars, wire, agentVars, running, pageVars, events>>

\* The container stops, or is started again and goes on with the same log.
StopOrStart ==
    /\ Use /\ running' = ~running
    /\ UNCHANGED <<cpVars, linkVars, wire, agentVars, lines, pageVars>>

\* The connection breaks and neither side notices yet; the control plane may still
\* have to read some of what was sent to it.
Break ==
    /\ "lost" \in Ops /\ Fault /\ alive
    /\ alive' \in BOOLEAN /\ cut' = TRUE
    /\ \E k \in 0..(Len(up) - held) : up' = SubSeq(up, 1, k)
    /\ held' = 0 /\ UNCHANGED <<spilt, skipped>>
    /\ down' = <<>> /\ reader' = None /\ ended' = {}
    /\ UNCHANGED <<cpVars, conn, connected, status, container, pageVars>>

Answers ==
    /\ ~alive /\ alive' = TRUE
    /\ UNCHANGED <<cpVars, conn, cut, connected, status, wire, agentVars, container,
                   pageVars, events>>

----------------------------------------------------------------------------
(* The pages.                                                              *)

\* subscribeLogs: the page is opened, or refreshed after the end of the stream.
Enter(p) ==
    /\ Use /\ sock[p] = "up" /\ shown[p] # "yes"
    /\ queue[p] = <<>> \/ "hurry" \in Ops
    /\ shown' = [shown EXCEPT ![p] = "yes"] /\ view' = [view EXCEPT ![p] = <<>>]
    /\ Subscribe(p)
    /\ UNCHANGED <<linkVars, upVars, agentVars, container, sock>>

\* The page is left; its unsubscription may be missing.
Leave(p) ==
    /\ Use /\ sock[p] = "up" /\ shown[p] # "no"
    /\ shown' = [shown EXCEPT ![p] = "no"]
    /\ \/ /\ shown[p] = "yes" /\ p \in subs
          /\ Unsubscribe(p)
       \/ /\ shown[p] = "ended" \/ p \notin subs \/ "silent" \in Ops
          /\ UNCHANGED <<cpVars, down>>
    /\ UNCHANGED <<linkVars, upVars, agentVars, container, sock, queue, view>>

\* What the browser does with a message that has come.
Deliver(p) ==
    /\ sock[p] = "up" /\ queue[p] # <<>>
    /\ queue' = [queue EXCEPT ![p] = Tail(@)]
    /\ LET m == Head(queue[p])
       IN  CASE shown[p] = "no" -> UNCHANGED <<shown, view>>
             [] shown[p] # "no" /\ m = Reset ->
                  view' = [view EXCEPT ![p] = <<>>] /\ UNCHANGED shown
             [] shown[p] # "no" /\ m = End ->
                  shown' = [shown EXCEPT ![p] = "ended"] /\ UNCHANGED view
             [] OTHER -> view' = [view EXCEPT ![p] = Append(@, m)] /\ UNCHANGED shown
    /\ UNCHANGED <<cpVars, linkVars, wire, agentVars, container, sock, events>>

\* The browser loses its connection; the control plane notices later.
LoseSocket(p) ==
    /\ Fault /\ sock[p] = "up"
    /\ sock' = [sock EXCEPT ![p] = "lost"] /\ queue' = [queue EXCEPT ![p] = <<>>]
    /\ UNCHANGED <<cpVars, linkVars, wire, agentVars, container, shown, view>>

\* useRealtime connects again, and a page that was subscribed subscribes again.
Reconnect(p) ==
    /\ sock[p] = "down"
    /\ sock' = [sock EXCEPT ![p] = "up"]
    /\ IF shown[p] = "yes" THEN /\ view' = [view EXCEPT ![p] = <<>>]
                                /\ Subscribe(p)
       ELSE UNCHANGED <<cpVars, down, queue, view>>
    /\ UNCHANGED <<linkVars, upVars, agentVars, container, shown, events>>

----------------------------------------------------------------------------
PageSteps(p) == Unregister(p) \/ Deliver(p) \/ Reconnect(p)
System ==
    \/ Connect \/ ConnectFails \/ Disconnected \/ Receive \/ SendUnsubscribe
    \/ Command \/ ReadLine \/ ReadEnd \/ ReportEnd \/ Send
    \/ \E p \in Pages : PageSteps(p)
Next ==
    \/ System \/ Metrics \/ Watchdog \/ Restart \/ Write \/ StopOrStart \/ Break \/ Answers
    \/ Crowded
    \/ \E p \in Pages : Enter(p) \/ Leave(p) \/ LoseSocket(p)

Spec == Init /\ [][Next]_vars

\* Every loop goes on: the connection loop, the reading of both ends, the sender of
\* each page and the browser.
Fairness ==
    /\ WF_vars(Connect) /\ WF_vars(ConnectFails) /\ WF_vars(Disconnected)
    /\ WF_vars(Receive) /\ WF_vars(SendUnsubscribe) /\ WF_vars(Command)
    /\ WF_vars(ReadLine) /\ WF_vars(ReadEnd) /\ WF_vars(ReportEnd)
    /\ WF_vars(Send)
    /\ \A p \in Pages : WF_vars(PageSteps(p))
FairSpec == Spec /\ Fairness

----------------------------------------------------------------------------
(* Properties.                                                             *)

\* The messages of the stream that the control plane has now.
LineNow(l) == [type |-> "log", gen |-> gen, line |-> l]
EndNow == [type |-> "log_end", gen |-> gen]

\* What a page shows is a piece of the log without a line twice or out of order, and
\* without a gap but for lines that a full send_q dropped (_enqueue), whatever was reset,
\* replayed or sent by an earlier stream in between (subscribe_log, _replay_log_history,
\* _handle_message).
Follows(a, b) == a < b /\ (a + 1)..(b - 1) \subseteq skipped
ViewFaithful ==
    \A p \in Pages : \A i \in 2..Len(view[p]) : Follows(view[p][i - 1], view[p][i])

\* When nothing is under way, the agent reads the log only if some page wants it and only
\* in the stream the control plane listens to, so that no stream is left behind on the
\* node; and a stream that pages wait for is not missing (_agent_log_subs, log_procs),
\* unless its end was dropped from a full send_q: the pages then wait for a stream that
\* is over.
StreamsAsWanted ==
    /\ wanted <=> subs # {}
    /\ conn = "open" /\ connected /\ ~cut /\ down = <<>> /\ up = <<>> /\ unsent = {} =>
         /\ reader # None => wanted /\ Streams(gen)
         /\ wanted => Streams(gen) \/ EndNow \in spilt

\* A page that stays subscribed comes to show the log up to its last line, whatever
\* connections broke before, if the node goes on to answer and a full send_q did not
\* drop the last line, or the end of an earlier run of the container after which the
\* control plane would have opened the log again.
Shown ==
    \A p \in Pages :
        <>[](alive /\ shown[p] = "yes") =>
            <>[](\/ lines = 0 \/ (view[p] # <<>> /\ view[p][Len(view[p])] = lines)
                 \/ {LineNow(lines), EndNow} \cap spilt # {})

\* The status of the node is in the end what the node is, whoever wrote it last: the
\* connection loop, the watchdog, a late message or an earlier process.
StatusFollows == <>[](status = IF alive THEN "online" ELSE "offline")
=============================================================================
