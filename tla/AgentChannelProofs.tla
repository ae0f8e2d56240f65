------------------------- MODULE AgentChannelProofs -------------------------
(***************************************************************************)
(* Theorems about AgentChannel, for every choice of its constants.         *)
(***************************************************************************)
EXTENDS AgentChannel, TLAPS

----------------------------------------------------------------------------
(* Sequences.                                                              *)

LEMMA TailMoves ==
    ASSUME NEW S, NEW s \in Seq(S), s # <<>>
    PROVE  /\ Tail(s) \in Seq(S) /\ Head(s) = s[1] /\ s[1] \in S /\ 1 \in DOMAIN s
           /\ DOMAIN Tail(s) \subseteq Nat \ {0} /\ DOMAIN s \subseteq Nat \ {0}
           /\ \A i \in DOMAIN Tail(s) : i + 1 \in DOMAIN s /\ Tail(s)[i] = s[i + 1]
           /\ \A i \in DOMAIN s \ {1} :
                 i - 1 \in DOMAIN Tail(s) /\ Tail(s)[i - 1] = s[i]
  OBVIOUS

LEMMA AppendKeeps ==
    ASSUME NEW S, NEW s \in Seq(S), NEW e \in S
    PROVE  /\ Append(s, e) \in Seq(S)
           /\ DOMAIN s \subseteq DOMAIN Append(s, e) /\ DOMAIN s \subseteq Nat \ {0}
           /\ \A i \in DOMAIN s : Append(s, e)[i] = s[i] /\ i < Len(s) + 1
           /\ Len(s) + 1 \in DOMAIN Append(s, e) /\ Append(s, e)[Len(s) + 1] = e
           /\ \A i \in DOMAIN Append(s, e) : i \in DOMAIN s \/ i = Len(s) + 1
  OBVIOUS

LEMMA Wider ==
    ASSUME NEW S, NEW T, S \subseteq T, NEW s \in Seq(S)
    PROVE  s \in Seq(T)
  OBVIOUS

LEMMA Prefix ==
    ASSUME NEW S, NEW s \in Seq(S), NEW k \in 0..Len(s)
    PROVE  SubSeq(s, 1, k) \in Seq(S) /\ Len(SubSeq(s, 1, k)) = k
  OBVIOUS

LEMMA Joins ==
    ASSUME NEW S, NEW s \in Seq(S), NEW t \in Seq(S), NEW u, u = s \o t
    PROVE  /\ u \in Seq(S) /\ Len(u) = Len(s) + Len(t)
           /\ DOMAIN u = 1..(Len(s) + Len(t))
           /\ \A i \in 1..Len(s) : u[i] = s[i]
           /\ \A i \in 1..Len(t) : u[Len(s) + i] = t[i]
<1>1. u \in Seq(S) /\ Len(u) = Len(s) + Len(t)
      OBVIOUS
<1>2. DOMAIN u = 1..(Len(s) + Len(t))
      BY <1>1
<1>3. \A i \in 1..Len(s) : u[i] = s[i]
      OBVIOUS
<1>4. \A i \in 1..Len(t) : u[Len(s) + i] = t[i]
      OBVIOUS
<1> QED BY <1>1, <1>2, <1>3, <1>4

LEMMA PutTyped ==
    ASSUME NEW S, NEW q \in Seq(S), NEW ms \in Seq(S), Len(q) <= QueueMax
    PROVE  Put(q, ms) \in Seq(S) /\ Len(Put(q, ms)) <= QueueMax
<1> DEFINE n == IF Len(q) + Len(ms) <= QueueMax THEN Len(ms) ELSE QueueMax - Len(q)
<1>1. QueueMax \in Nat
      BY ConstantsAssumption
<1>2. n \in 0..Len(ms) /\ Len(q) + n <= QueueMax
      BY <1>1
<1>3. SubSeq(ms, 1, n) \in Seq(S) /\ Len(SubSeq(ms, 1, n)) = n
      BY <1>2, Prefix
<1>4. Put(q, ms) = q \o SubSeq(ms, 1, n)
      BY DEF Put
<1> HIDE DEF n
<1> QED BY <1>1, <1>2, <1>3, <1>4

LEMMA NewestTyped ==
    ASSUME NEW S, NEW s \in Seq(S)
    PROVE  Newest(s, Kept) \in Seq(S) /\ Len(Newest(s, Kept)) <= Kept
<1> DEFINE f == IF Len(s) > Kept THEN Len(s) - Kept + 1 ELSE 1
<1>1. Kept \in Nat \ {0}
      BY ConstantsAssumption
<1>2. f \in 1..(Len(s) + 1) /\ Len(s) - f + 1 <= Kept
      BY <1>1
<1>3. Newest(s, Kept) = SubSeq(s, f, Len(s))
      BY DEF Newest
<1> HIDE DEF f
<1>4. SubSeq(s, f, Len(s)) \in Seq(S) /\ Len(SubSeq(s, f, Len(s))) = Len(s) - f + 1
      BY <1>2
<1> QED BY <1>2, <1>3, <1>4
----------------------------------------------------------------------------
(* Types.                                                                  *)

Shows == 1..MaxLines \cup {Reset, End}
Commands == [type : {"log_subscribe", "log_unsubscribe"}, gen : Gens]

LEMMA SentTyped ==
    ASSUME TypeOK, NEW type \in {"log_subscribe", "log_unsubscribe"}, NEW g \in Gens
    PROVE  Sent(type, g) \in Seq(Commands)
<1>1. down \in Seq(Commands) /\ [type |-> type, gen |-> g] \in Commands
      BY DEF TypeOK, Commands
<1> QED BY <1>1 DEF Sent

\* The queues stay queues when one of them or several get messages.
QueuesOK(qs) ==
    /\ qs \in [Pages -> Seq(Shows)]
    /\ \A p \in Pages : Len(qs[p]) <= QueueMax

LEMMA QueuesTyped ==
    ASSUME TypeOK
    PROVE  QueuesOK(queue)
  BY DEF TypeOK, QueuesOK, Shows

LEMMA PutQueues ==
    ASSUME TypeOK, NEW p \in Pages, NEW ms \in Seq(Shows)
    PROVE  QueuesOK([queue EXCEPT ![p] = Put(@, ms)])
<1>1. QueuesOK(queue)
      BY QueuesTyped
<1>2. Put(queue[p], ms) \in Seq(Shows) /\ Len(Put(queue[p], ms)) <= QueueMax
      BY <1>1, PutTyped DEF QueuesOK
<1> QED BY <1>1, <1>2 DEF QueuesOK

LEMMA ToPagesTyped ==
    ASSUME TypeOK, NEW ps, NEW m \in Shows
    PROVE  QueuesOK(ToPages(ps, m))
<1>1. QueuesOK(queue) /\ <<m>> \in Seq(Shows)
      BY QueuesTyped
<1>2. \A p \in Pages : Put(queue[p], <<m>>) \in Seq(Shows)
                       /\ Len(Put(queue[p], <<m>>)) <= QueueMax
      BY <1>1, PutTyped DEF QueuesOK
<1> QED BY <1>1, <1>2 DEF QueuesOK, ToPages

LEMMA SubscribeTyped ==
    ASSUME TypeOK, NEW p \in Pages, Subscribe(p)
    PROVE  /\ subs' \subseteq Pages /\ wanted' \in BOOLEAN /\ gen' \in Gens
           /\ history' \in Seq(1..MaxLines) /\ Len(history') <= Kept
           /\ unsent' \subseteq Gens /\ down' \in Seq(Commands) /\ QueuesOK(queue')
<1>1. /\ subs \subseteq Pages /\ wanted \in BOOLEAN /\ gen \in Gens /\ gen + 1 \in Gens
      /\ history \in Seq(1..MaxLines) /\ Len(history) <= Kept
      /\ unsent \subseteq Gens /\ down \in Seq(Commands) /\ QueuesOK(queue)
      BY QueuesTyped DEF TypeOK, Commands, Gens
<1>0. history \in Seq(Shows) /\ Reset \in Shows
      <2>1. 1..MaxLines \subseteq Shows /\ Reset \in Shows
            BY DEF Shows
      <2> QED BY <1>1, <2>1, Wider
<1>2. /\ Sent("log_subscribe", gen + 1) \in Seq(Commands)
      /\ <<Reset>> \o history \in Seq(Shows)
      BY <1>1, <1>0, SentTyped
<1>3. /\ QueuesOK([queue EXCEPT ![p] = Put(@, history)])
      /\ QueuesOK([queue EXCEPT ![p] = Put(@, <<Reset>> \o history)])
      BY <1>0, <1>2, PutQueues
<1>4. <<>> \in Seq(1..MaxLines) /\ Len(<<>>) <= Kept
      BY ConstantsAssumption
<1>5. unsent' = unsent
      BY DEF Subscribe
<1>6. CASE /\ p \in subs
           /\ queue' = [queue EXCEPT ![p] = Put(@, <<Reset>> \o history)]
           /\ UNCHANGED <<subs, wanted, gen, history, down>>
      BY <1>1, <1>3, <1>5, <1>6
<1>7. CASE /\ p \notin subs /\ wanted
           /\ queue' = [queue EXCEPT ![p] = Put(@, history)]
           /\ subs' = subs \cup {p}
           /\ UNCHANGED <<wanted, gen, history, down>>
      BY <1>1, <1>3, <1>5, <1>7
<1>8. CASE /\ p \notin subs /\ ~wanted
           /\ subs' = subs \cup {p} /\ wanted' = TRUE
           /\ gen' = gen + 1 /\ history' = <<>>
           /\ down' = IF connected THEN Sent("log_subscribe", gen + 1) ELSE down
           /\ UNCHANGED queue
      BY <1>1, <1>2, <1>4, <1>5, <1>8
<1> QED BY <1>6, <1>7, <1>8 DEF Subscribe

LEMMA DroppedTyped ==
    ASSUME TypeOK, NEW p \in Pages, Dropped(p)
    PROVE  /\ subs' \subseteq Pages /\ wanted' \in BOOLEAN /\ gen' \in Gens
           /\ history' \in Seq(1..MaxLines) /\ Len(history') <= Kept
<1>1. <<>> \in Seq(1..MaxLines) /\ Len(<<>>) <= Kept
      BY ConstantsAssumption
<1> QED BY <1>1 DEF TypeOK, Dropped, LastPage

LEMMA ReceiveTyped ==
    ASSUME TypeOK, Receive
    PROVE  TypeOK'
<1>1. /\ up \in Seq(Message) /\ held \in Nat /\ Len(up) > held /\ up' = Tail(up)
      /\ held' = held
      /\ history \in Seq(1..MaxLines) /\ Len(history) <= Kept /\ QueuesOK(queue)
      BY QueuesTyped, ConstantsAssumption DEF TypeOK, Receive
<1>2. up' \in Seq(Message) /\ Head(up) \in Message /\ held' <= Len(up')
      BY <1>1
<1>3. ASSUME ReceiveLog(Head(up))
      PROVE  /\ history' \in Seq(1..MaxLines) /\ Len(history') <= Kept
             /\ QueuesOK(queue') /\ subs' = subs /\ wanted' = wanted
      <2> DEFINE m == Head(up)
      <2>1. m.line \in 1..MaxLines /\ m.line \in Shows
            BY <1>2, <1>3 DEF ReceiveLog, Message, Shows
      <2> HIDE DEF m
      <2>2. Append(history, m.line) \in Seq(1..MaxLines)
            BY <1>1, <2>1
      <2>3. /\ Newest(Append(history, m.line), Kept) \in Seq(1..MaxLines)
            /\ Len(Newest(Append(history, m.line), Kept)) <= Kept
            BY <2>2, NewestTyped
      <2>4. QueuesOK(ToPages(subs, m.line))
            BY <2>1, ToPagesTyped
      <2>5. ReceiveLog(m)
            BY <1>3 DEF m
      <2> QED BY <1>1, <2>3, <2>4, <2>5 DEF ReceiveLog
<1>4. ASSUME ReceiveEnd(Head(up))
      PROVE  /\ history' \in Seq(1..MaxLines) /\ Len(history') <= Kept
             /\ QueuesOK(queue') /\ subs' \subseteq Pages /\ wanted' \in BOOLEAN
      <2>1. QueuesOK(ToPages(subs, End))
            BY ToPagesTyped DEF Shows
      <2>2. <<>> \in Seq(1..MaxLines) /\ Len(<<>>) <= Kept
            BY ConstantsAssumption
      <2>3. subs \subseteq Pages /\ wanted \in BOOLEAN
            BY DEF TypeOK
      <2> QED BY <1>1, <1>4, <2>1, <2>2, <2>3 DEF ReceiveEnd
<1>5. /\ history' \in Seq(1..MaxLines) /\ Len(history') <= Kept
      /\ QueuesOK(queue') /\ subs' \subseteq Pages /\ wanted' \in BOOLEAN
      <2>1. subs \subseteq Pages /\ wanted \in BOOLEAN
            BY DEF TypeOK
      <2> QED BY <1>3, <1>4, <2>1 DEF Receive
<1> QED
      BY <1>2, <1>5 DEF TypeOK, QueuesOK, Shows, Receive, linkVars, agentVars, container,
            events
\* The stream of the agent, when it opens one or reads on.
LEMMA ReaderTyped ==
    ASSUME TypeOK, NEW g \in Gens
    PROVE  Reader(g) \in Stream /\ Reader(g) # None /\ Reader(g).gen = g
<1>1. lines \in 0..MaxLines /\ Replay \in Nat \ {0} /\ MaxLines \in Nat
      BY ConstantsAssumption DEF TypeOK
<1>2. Reader(g) \in Stream
      BY <1>1 DEF Reader, Stream
<1> QED BY <1>2, StreamAssumption DEF Reader

\* What is left of s after the k oldest of the n newest messages are dropped: the others,
\* in their order.  f tells where they were.
LEMMA Spills ==
    ASSUME NEW s \in Seq(Message), NEW n \in 0..Len(s), NEW k \in 0..n, Spill(s, n, k)
    PROVE  /\ up' \in Seq(Message) /\ Len(up') = Len(s) - k /\ held' = n - k
           /\ spilt \subseteq spilt' /\ skipped \subseteq skipped'
           /\ \A i \in DOMAIN up' : i \in Nat \ {0}
           /\ \E f \in [DOMAIN up' -> DOMAIN s] :
                 /\ \A i \in DOMAIN up' : up'[i] = s[f[i]]
                 /\ \A i, j \in DOMAIN up' : i < j => f[i] < f[j]
                 /\ \A i \in DOMAIN s :
                       \/ \E j \in DOMAIN up' : f[j] = i
                       \/ s[i] \in spilt' /\ (s[i].type = "log" => s[i].line \in skipped')
<1> DEFINE a == Len(s) - n
<1>1. a \in 0..Len(s) /\ a + k \in 0..Len(s) /\ Len(s) \in Nat /\ a \in Nat /\ k \in Nat
      OBVIOUS
<1>2. /\ up' = SubSeq(s, 1, a) \o SubSeq(s, a + k + 1, Len(s)) /\ held' = n - k
      /\ spilt \subseteq spilt' /\ skipped \subseteq skipped'
      /\ \A i \in (a + 1)..(a + k) :
            s[i] \in spilt' /\ (s[i].type = "log" => s[i].line \in skipped')
  <2> DEFINE b == Len(s) - n + 1
             gone == {s[i] : i \in b..(b + k - 1)}
  <2>1. /\ up' = SubSeq(s, 1, b - 1) \o SubSeq(s, b + k, Len(s)) /\ held' = n - k
        /\ spilt' = spilt \cup gone
        /\ skipped' = skipped \cup {m.line : m \in {x \in gone : x.type = "log"}}
        BY DEF Spill
  <2>2. b = a + 1 /\ b - 1 = a /\ b + k = a + k + 1 /\ b + k - 1 = a + k
        BY <1>1
  <2> HIDE DEF b
  <2>3. \A i \in (a + 1)..(a + k) : s[i] \in gone BY <2>2
  <2> HIDE DEF gone
  <2> QED BY <2>1, <2>2, <2>3
<1> HIDE DEF a
<1>3. /\ SubSeq(s, 1, a) \in Seq(Message) /\ Len(SubSeq(s, 1, a)) = a
      /\ \A i \in 1..a : SubSeq(s, 1, a)[i] = s[i]
      BY <1>1
<1>4. /\ SubSeq(s, a + k + 1, Len(s)) \in Seq(Message)
      /\ Len(SubSeq(s, a + k + 1, Len(s))) = Len(s) - k - a
      /\ \A i \in 1..(Len(s) - k - a) : SubSeq(s, a + k + 1, Len(s))[i] = s[a + k + i]
      BY <1>1
<1>5. /\ up' \in Seq(Message) /\ Len(up') = Len(s) - k /\ DOMAIN up' = 1..(Len(s) - k)
      /\ \A i \in 1..a : up'[i] = s[i]
      /\ \A i \in (a + 1)..(Len(s) - k) : up'[i] = s[i + k]
  <2> DEFINE x == SubSeq(s, 1, a)
             y == SubSeq(s, a + k + 1, Len(s))
  <2>1. /\ x \in Seq(Message) /\ y \in Seq(Message) /\ Len(x) = a /\ Len(y) = Len(s) - k - a
        /\ up' = x \o y
        BY <1>2, <1>3, <1>4
  <2>2. /\ \A i \in 1..a : x[i] = s[i]
        /\ \A i \in 1..(Len(s) - k - a) : y[i] = s[a + k + i]
        BY <1>3, <1>4
  <2> HIDE DEF x, y
  <2>3. /\ up' \in Seq(Message) /\ Len(up') = Len(x) + Len(y)
        /\ DOMAIN up' = 1..(Len(x) + Len(y))
        /\ \A i \in 1..Len(x) : up'[i] = x[i]
        /\ \A i \in 1..Len(y) : up'[Len(x) + i] = y[i]
    <3>1. PICK u : u = up' OBVIOUS
    <3>2. u = x \o y /\ x \in Seq(Message) /\ y \in Seq(Message) BY <2>1, <3>1
    <3>3. /\ u \in Seq(Message) /\ Len(u) = Len(x) + Len(y)
          /\ DOMAIN u = 1..(Len(x) + Len(y))
          /\ \A i \in 1..Len(x) : u[i] = x[i]
          /\ \A i \in 1..Len(y) : u[Len(x) + i] = y[i]
          BY <3>2, Joins
    <3> QED BY <3>1, <3>3
  <2>4. Len(x) + Len(y) = Len(s) - k BY <1>1, <2>1
  <2>5. ASSUME NEW i \in (a + 1)..(Len(s) - k) PROVE up'[i] = s[i + k]
    <3>1. PICK j \in Nat : j = i - a BY <1>1
    <3>2. j \in 1..Len(y) /\ i = Len(x) + j /\ a + k + j = i + k BY <1>1, <2>1, <3>1
    <3> QED BY <2>1, <2>2, <2>3, <3>2
  <2> QED BY <2>1, <2>2, <2>3, <2>4, <2>5
<1> DEFINE f == [i \in DOMAIN up' |-> IF i <= a THEN i ELSE i + k]
<1>6. DOMAIN s = 1..Len(s) OBVIOUS
<1>7. \A i \in DOMAIN up' : i \in Nat \ {0} /\ f[i] \in DOMAIN s /\ up'[i] = s[f[i]]
      BY <1>1, <1>5, <1>6
<1>8. \A i, j \in DOMAIN up' : i < j => f[i] < f[j]
      BY <1>1, <1>5
<1>9. ASSUME NEW i \in DOMAIN s
      PROVE  \/ \E j \in DOMAIN up' : f[j] = i
             \/ s[i] \in spilt' /\ (s[i].type = "log" => s[i].line \in skipped')
  <2>1. CASE i <= a
    <3>1. i \in DOMAIN up' /\ f[i] = i BY <1>1, <1>5, <1>6, <2>1
    <3> QED BY <3>1
  <2>2. CASE i > a + k
    <3>1. i - k \in DOMAIN up' /\ f[i - k] = i BY <1>1, <1>5, <1>6, <2>2
    <3> QED BY <3>1
  <2>3. CASE i \in (a + 1)..(a + k) BY <1>2, <2>3
  <2> QED BY <1>1, <1>6, <2>1, <2>2, <2>3
<1>10. f \in [DOMAIN up' -> DOMAIN s] BY <1>7
<1> HIDE DEF f
<1> QED BY <1>2, <1>5, <1>7, <1>8, <1>9, <1>10

LEMMA SpillTyped ==
    ASSUME TypeOK, NEW s \in Seq(Message), NEW n \in 0..Len(s), NEW k \in 0..n,
           n - k <= SendMax, Spill(s, n, k)
    PROVE  /\ up' \in Seq(Message) /\ held' \in 0..SendMax /\ held' <= Len(up')
           /\ spilt' \subseteq Message /\ skipped' \subseteq 1..MaxLines
<1>1. /\ up' \in Seq(Message) /\ Len(up') = Len(s) - k /\ held' = n - k
      BY Spills
<1>2. SendMax \in Nat /\ Len(s) \in Nat BY ConstantsAssumption
<1>3. held' \in 0..SendMax /\ held' <= Len(up') BY <1>1, <1>2
<1> DEFINE gone == {s[i] : i \in (Len(s) - n + 1)..(Len(s) - n + 1 + k - 1)}
<1>4. gone \subseteq Message BY <1>2
<1>5. /\ spilt' = spilt \cup gone
      /\ skipped' = skipped \cup {m.line : m \in {x \in gone : x.type = "log"}}
      BY DEF Spill
<1>6. spilt \subseteq Message /\ skipped \subseteq 1..MaxLines BY DEF TypeOK
<1> HIDE DEF gone
<1>7. \A m \in Message : m.type = "log" => m.line \in 1..MaxLines BY DEF Message
<1> QED BY <1>1, <1>3, <1>4, <1>5, <1>6, <1>7

LEMMA Pushes ==
    ASSUME TypeOK, NEW ms \in Seq(Message), Push(ms), ~cut
    PROVE  \E n \in 0..Len(up \o ms) : \E k \in 0..n :
              /\ up \o ms \in Seq(Message) /\ n - k <= SendMax /\ Spill(up \o ms, n, k)
<1>1. up \in Seq(Message) /\ held \in 0..SendMax /\ held <= Len(up) /\ SendMax \in Nat
      BY ConstantsAssumption DEF TypeOK
<1> DEFINE n == held + Len(ms)
           k == IF n > SendMax THEN n - SendMax ELSE 0
<1>2. up \o ms \in Seq(Message) /\ n \in 0..Len(up \o ms) BY <1>1
<1>3. k \in 0..n /\ n - k <= SendMax BY <1>1, <1>2
<1>4. Spill(up \o ms, n, k) BY DEF Push
<1> QED BY <1>2, <1>3, <1>4

LEMMA PushTyped ==
    ASSUME TypeOK, NEW ms \in Seq(Message), Push(ms)
    PROVE  /\ up' \in Seq(Message) /\ held' \in 0..SendMax /\ held' <= Len(up')
           /\ spilt' \subseteq Message /\ skipped' \subseteq 1..MaxLines
<1>1. CASE cut BY <1>1 DEF Push, TypeOK, upVars
<1>2. CASE ~cut BY <1>2, Pushes, SpillTyped
<1> QED BY <1>1, <1>2

LEMMA CommandTyped ==
    ASSUME TypeOK, Command
    PROVE  TypeOK'
<1> DEFINE c == Head(down)
<1>1. /\ down \in Seq(Commands) /\ down # <<>> /\ down' = Tail(down)
      /\ reader \in {None} \cup Stream /\ ended \subseteq Gens
      BY DEF TypeOK, Command, Commands
<1>2. down' \in Seq(Commands) /\ c \in Commands
      BY <1>1
<1>3. c.gen \in Gens /\ Reader(c.gen) \in Stream
      <2>1. c.gen \in Gens
            BY <1>2 DEF Commands
      <2> QED BY <2>1, ReaderTyped
<1>4. reader # None => reader.gen \in Gens
      BY <1>1 DEF Stream
<1>5. \/ /\ reader' = Reader(c.gen)
         /\ ended' = IF reader = None THEN ended ELSE ended \cup {reader.gen}
      \/ reader # None /\ reader' = None /\ ended' = ended \cup {reader.gen}
      \/ UNCHANGED <<reader, ended>>
      BY DEF Command, Streams
<1>6. reader' \in {None} \cup Stream /\ ended' \subseteq Gens
      <2> HIDE DEF c
      <2> QED BY <1>1, <1>3, <1>4, <1>5
<1> QED
      BY <1>2, <1>6 DEF TypeOK, Commands, Command, cpVars, linkVars, upVars, container,
            pageVars, events

\* What the agent reads at once.
LEMMA ReadTyped ==
    ASSUME TypeOK, reader # None, NEW n \in 1..(lines - reader.pos)
    PROVE  /\ reader \in Stream /\ reader.gen \in Nat /\ reader.pos \in Nat /\ n \in Nat \ {0}
           /\ reader.pos + n \in 0..MaxLines /\ [reader EXCEPT !.pos = @ + n] \in Stream
           /\ [reader EXCEPT !.pos = @ + n].gen = reader.gen
           /\ [reader EXCEPT !.pos = @ + n].pos = reader.pos + n
           /\ \A i \in 1..n : [type |-> "log", gen |-> reader.gen, line |-> reader.pos + i]
                              \in Message
           /\ [i \in 1..n |-> [type |-> "log", gen |-> reader.gen, line |-> reader.pos + i]]
                 \in Seq(Message)
<1>1. reader \in Stream /\ lines \in 0..MaxLines /\ MaxLines \in Nat
      BY ConstantsAssumption DEF TypeOK
<1>2. reader.pos \in Nat /\ reader.gen \in Gens /\ reader.gen \in Nat
      BY <1>1 DEF Stream, Gens
<1>3. n \in Nat \ {0} /\ \A i \in 1..n : reader.pos + i \in 1..MaxLines
      BY <1>1, <1>2
<1>4. reader.pos + n \in 0..MaxLines BY <1>1, <1>2, <1>3
<1>5. \A i \in 1..n : [type |-> "log", gen |-> reader.gen, line |-> reader.pos + i] \in Message
      BY <1>2, <1>3 DEF Message
<1>6. [i \in 1..n |-> [type |-> "log", gen |-> reader.gen, line |-> reader.pos + i]]
         \in Seq(Message)
  <2> DEFINE e(i) == [type |-> "log", gen |-> reader.gen, line |-> reader.pos + i]
  <2>1. \A i \in 1..n : e(i) \in Message BY <1>5
  <2> HIDE DEF e
  <2>2. [i \in 1..n |-> e(i)] \in [1..n -> Message] BY <2>1
  <2>3. [i \in 1..n |-> e(i)] \in Seq(Message) BY <1>3, <2>2
  <2> QED BY <2>3 DEF e
<1>7. /\ [reader EXCEPT !.pos = @ + n] \in Stream
      /\ [reader EXCEPT !.pos = @ + n].gen = reader.gen
      /\ [reader EXCEPT !.pos = @ + n].pos = reader.pos + n
      BY <1>1, <1>4 DEF Stream
<1> QED BY <1>1, <1>2, <1>3, <1>4, <1>5, <1>6, <1>7

LEMMA AgentTyped ==
    ASSUME TypeOK, ReadLine \/ ReadEnd \/ ReportEnd \/ Send \/ Crowded
    PROVE  TypeOK'
<1>1. /\ reader \in {None} \cup Stream /\ ended \subseteq Gens
      /\ up \in Seq(Message) /\ held \in 0..SendMax /\ held <= Len(up) /\ SendMax \in Nat
      /\ uses \in 0..MaxUses /\ faults \in 0..MaxFaults
      /\ spilt \subseteq Message /\ skipped \subseteq 1..MaxLines
      BY ConstantsAssumption DEF TypeOK
<1>2. /\ up' \in Seq(Message) /\ held' \in 0..SendMax /\ held' <= Len(up')
      /\ spilt' \subseteq Message /\ skipped' \subseteq 1..MaxLines
      /\ reader' \in {None} \cup Stream /\ ended' \subseteq Gens
      /\ uses' \in 0..MaxUses /\ faults' \in 0..MaxFaults
      <2>1. CASE ReadLine
            <3>1. PICK n \in 1..(lines - reader.pos) :
                     /\ reader' = [reader EXCEPT !.pos = @ + n]
                     /\ Push([i \in 1..n |->
                           [type |-> "log", gen |-> reader.gen, line |-> reader.pos + i]])
                  BY <2>1 DEF ReadLine
            <3>2. reader # None /\ ended' = ended /\ UNCHANGED events
                  BY <2>1 DEF ReadLine
            <3>3. reader' \in Stream
                  BY <3>1, <3>2, ReadTyped
            <3>4. /\ up' \in Seq(Message) /\ held' \in 0..SendMax /\ held' <= Len(up')
                  /\ spilt' \subseteq Message /\ skipped' \subseteq 1..MaxLines
                  BY <3>1, <3>2, ReadTyped, PushTyped
            <3> QED BY <1>1, <3>2, <3>3, <3>4 DEF events
      <2>2. CASE ReadEnd
            <3>1. reader.gen \in Gens
                  BY <1>1, <2>2 DEF ReadEnd, Stream
            <3>2. <<[type |-> "log_end", gen |-> reader.gen]>> \in Seq(Message)
                  BY <3>1 DEF Message
            <3> QED BY <1>1, <2>2, <3>2, PushTyped DEF ReadEnd, events
      <2>3. CASE ReportEnd
            <3>1. PICK g \in ended : /\ ended' = ended \ {g}
                                     /\ Push(<<[type |-> "log_end", gen |-> g]>>)
                  BY <2>3 DEF ReportEnd
            <3>2. <<[type |-> "log_end", gen |-> g]>> \in Seq(Message)
                  BY <1>1 DEF Message
            <3> QED BY <1>1, <2>3, <3>1, <3>2, PushTyped DEF ReportEnd, events
      <2>4. CASE Send
            BY <1>1, <2>4 DEF Send, agentVars, events
      <2>5. CASE Crowded
            <3>1. PICK k \in 1..held : Spill(up, held, k)
                  BY <2>5 DEF Crowded
            <3>2. held \in 0..Len(up) /\ k \in 0..held /\ held - k <= SendMax
                  BY <1>1
            <3>3. faults' \in 0..MaxFaults /\ uses' = uses
                  BY <1>1, <2>5, ConstantsAssumption DEF Crowded, Fault
            <3> QED BY <1>1, <2>5, <3>1, <3>2, <3>3, SpillTyped DEF Crowded, agentVars
      <2> QED BY <2>1, <2>2, <2>3, <2>4, <2>5
<1>3. UNCHANGED <<cpVars, linkVars, down, container, pageVars>>
      BY DEF ReadLine, ReadEnd, ReportEnd, Send, Crowded
<1> QED BY <1>2, <1>3 DEF TypeOK, cpVars, linkVars, container, pageVars

LEMMA PagesTyped ==
    ASSUME TypeOK, NEW p \in Pages, Enter(p) \/ Leave(p) \/ LoseSocket(p) \/ PageSteps(p)
    PROVE  TypeOK'
<1>1. /\ QueuesOK(queue) /\ sock \in [Pages -> {"up", "lost", "down"}]
      /\ shown \in [Pages -> {"no", "yes", "ended"}] /\ view \in [Pages -> Seq(1..MaxLines)]
      /\ gen \in Gens /\ unsent \subseteq Gens /\ down \in Seq(Commands)
      /\ uses \in 0..MaxUses /\ faults \in 0..MaxFaults
      /\ MaxUses \in Nat /\ MaxFaults \in Nat
      BY QueuesTyped, ConstantsAssumption DEF TypeOK, Commands
<1>2. <<>> \in Seq(1..MaxLines) /\ <<>> \in Seq(Shows) /\ Len(<<>>) <= QueueMax
      BY ConstantsAssumption
<1>3. CASE Enter(p)
      <2>1. /\ shown' \in [Pages -> {"no", "yes", "ended"}]
            /\ view' \in [Pages -> Seq(1..MaxLines)]
            /\ uses' \in 0..MaxUses /\ faults' \in 0..MaxFaults
            BY <1>1, <1>2, <1>3 DEF Enter, Use
      <2>2. Subscribe(p) /\ UNCHANGED <<linkVars, upVars, agentVars, container, sock>>
            BY <1>3 DEF Enter
      <2> QED
            BY <2>1, <2>2, SubscribeTyped DEF TypeOK, Commands, QueuesOK, Shows, linkVars,
                 upVars, agentVars, container
<1>4. CASE Leave(p)
      <2>1. /\ shown' \in [Pages -> {"no", "yes", "ended"}]
            /\ uses' \in 0..MaxUses /\ faults' \in 0..MaxFaults
            BY <1>1, <1>4 DEF Leave, Use
      <2>2. UNCHANGED <<linkVars, upVars, agentVars, container, sock, queue, view>>
            BY <1>4 DEF Leave
      <2>3. CASE Unsubscribe(p)
            <3>1. down' \in Seq(Commands) /\ unsent' = unsent
                  BY <1>1, <2>3, SentTyped DEF Unsubscribe
            <3> QED
                  BY <2>1, <2>2, <2>3, <3>1, DroppedTyped
                     DEF TypeOK, Commands, Unsubscribe,
                       linkVars, upVars, agentVars, container
      <2>4. CASE UNCHANGED <<cpVars, down>>
            BY <2>1, <2>2, <2>4 DEF TypeOK, cpVars, linkVars, upVars, agentVars, container
      <2> QED BY <1>4, <2>3, <2>4 DEF Leave
<1>5. CASE LoseSocket(p)
      <2>1. /\ sock' \in [Pages -> {"up", "lost", "down"}] /\ QueuesOK(queue')
            /\ uses' \in 0..MaxUses /\ faults' \in 0..MaxFaults
            BY <1>1, <1>2, <1>5 DEF LoseSocket, Fault, QueuesOK
      <2> QED
            BY <1>5, <2>1 DEF TypeOK, LoseSocket, QueuesOK, Shows, cpVars, linkVars, wire, upVars,
                 agentVars, container
<1>6. CASE Unregister(p)
      <2>1. sock' \in [Pages -> {"up", "lost", "down"}] /\ unsent' \subseteq Gens
            BY <1>1, <1>6 DEF Unregister
      <2>2. Dropped(p)
            BY <1>6 DEF Unregister
      <2> QED BY <1>6, <2>1, <2>2, DroppedTyped DEF TypeOK, Unregister, linkVars, wire, upVars,
                 agentVars, container, events
<1>7. CASE Deliver(p)
      <2> DEFINE m == Head(queue[p])
      <2>1. queue[p] \in Seq(Shows) /\ queue[p] # <<>> /\ Len(queue[p]) <= QueueMax
            BY <1>1, <1>7 DEF Deliver, QueuesOK
      <2>2. /\ m \in Shows /\ Tail(queue[p]) \in Seq(Shows)
            /\ Len(Tail(queue[p])) <= QueueMax
            BY <2>1, ConstantsAssumption
      <2>3. QueuesOK(queue')
            BY <1>1, <1>7, <2>2 DEF Deliver, QueuesOK
      <2>4. /\ shown' \in [Pages -> {"no", "yes", "ended"}]
            /\ view' \in [Pages -> Seq(1..MaxLines)]
            <3>1. \/ shown' = shown /\ view' = view
                  \/ shown' = shown /\ view' = [view EXCEPT ![p] = <<>>]
                  \/ shown' = [shown EXCEPT ![p] = "ended"] /\ view' = view
                  \/ /\ m \notin {Reset, End} /\ shown' = shown
                     /\ view' = [view EXCEPT ![p] = Append(@, m)]
                  BY <1>1, <1>7 DEF Deliver
            <3>2. m \notin {Reset, End} => Append(view[p], m) \in Seq(1..MaxLines)
                  BY <1>1, <2>2 DEF Shows
            <3> HIDE DEF m
            <3> QED BY <1>1, <1>2, <3>1, <3>2
      <2> QED
            BY <1>7, <2>3, <2>4
               DEF TypeOK, Deliver, QueuesOK, Shows, cpVars, linkVars, wire, upVars,
                 agentVars, container, events
<1>8. CASE Reconnect(p)
      <2>1. /\ sock' \in [Pages -> {"up", "lost", "down"}]
            /\ UNCHANGED <<linkVars, upVars, agentVars, container, shown, events>>
            BY <1>1, <1>8 DEF Reconnect
      <2>2. CASE view' = [view EXCEPT ![p] = <<>>] /\ Subscribe(p)
            <3>1. view' \in [Pages -> Seq(1..MaxLines)]
                  BY <1>1, <1>2, <2>2
            <3> QED
                  BY <2>1, <2>2, <3>1, SubscribeTyped
                     DEF TypeOK, Commands, QueuesOK, Shows,
                       linkVars, upVars, agentVars, container, events
      <2>3. CASE UNCHANGED <<cpVars, view, down, queue>>
            BY <2>1, <2>3 DEF TypeOK, cpVars, linkVars, upVars, agentVars, container, events
      <2> QED BY <1>8, <2>2, <2>3 DEF Reconnect
<1> QED BY <1>3, <1>4, <1>5, <1>6, <1>7, <1>8 DEF PageSteps

LEMMA LinkTyped ==
    ASSUME TypeOK, \/ Connect \/ ConnectFails \/ Disconnected \/ SendUnsubscribe
                   \/ Metrics \/ Watchdog
    PROVE  TypeOK'
<1>1. QueuesOK(queue) /\ gen \in Gens /\ gen + 1 \in Gens /\ unsent \subseteq Gens
      BY QueuesTyped DEF TypeOK, Gens
<1>2. <<>> \in Seq(1..MaxLines) /\ Len(<<>>) <= Kept /\ <<>> \in Seq(Commands)
      /\ <<>> \in Seq(Message) /\ 0 \in 0..SendMax /\ 0 <= Len(<<>>)
      BY ConstantsAssumption
<1>3. CASE Connect
      <2>0. Reset \in Shows /\ [type |-> "log_subscribe", gen |-> gen + 1] \in Commands
            BY <1>1 DEF Shows, Commands
      <2>1. /\ QueuesOK(ToPages(subs, Reset))
            /\ <<[type |-> "log_subscribe", gen |-> gen + 1]>> \in Seq(Commands)
            BY <2>0, ToPagesTyped
      <2>2. /\ gen' \in Gens /\ history' \in Seq(1..MaxLines) /\ Len(history') <= Kept
            /\ QueuesOK(queue') /\ down' \in Seq(Commands)
            BY <1>1, <1>2, <1>3, <2>1 DEF Connect, TypeOK
      <2> QED
            BY <1>2, <1>3, <2>2 DEF Connect, NoSession, TypeOK, QueuesOK, Shows, Commands,
                 container, events
<1>4. CASE ConnectFails
      BY <1>4
         DEF TypeOK, ConnectFails, cpVars, wire, upVars, agentVars, container, pageVars, events
<1>5. CASE Disconnected
      BY <1>2, <1>5
         DEF TypeOK, Disconnected, NoSession, Commands, cpVars, container, pageVars,
         events
<1>6. CASE SendUnsubscribe
      <2>1. unsent' \subseteq Gens /\ down' \in Seq(Commands)
            BY <1>1, <1>6, SentTyped DEF SendUnsubscribe
      <2> QED BY <1>6, <2>1 DEF TypeOK, SendUnsubscribe, Commands, linkVars, upVars,
                 agentVars, container, pageVars, events
<1>7. CASE Metrics
      BY <1>7 DEF TypeOK, Metrics, cpVars, wire, upVars, agentVars, container, pageVars, events
<1>8. CASE Watchdog
      <2>1. uses' \in 0..MaxUses /\ faults' \in 0..MaxFaults
            BY <1>8, ConstantsAssumption DEF TypeOK, Watchdog, Fault, events
      <2> QED
            BY <1>8, <2>1
               DEF TypeOK, Watchdog, cpVars, wire, upVars, agentVars, container, pageVars
<1> QED BY <1>3, <1>4, <1>5, <1>6, <1>7, <1>8

LEMMA OthersTyped ==
    ASSUME TypeOK, Restart \/ Write \/ StopOrStart \/ Break \/ Answers
    PROVE  TypeOK'
<1>1. /\ uses \in 0..MaxUses /\ faults \in 0..MaxFaults /\ lines \in 0..MaxLines
      /\ MaxUses \in Nat /\ MaxFaults \in Nat /\ MaxLines \in Nat /\ Kept \in Nat
      /\ QueueMax \in Nat
      BY ConstantsAssumption DEF TypeOK
<1>2. <<>> \in Seq(1..MaxLines) /\ Len(<<>>) = 0 /\ <<>> \in Seq(Commands)
      /\ <<>> \in Seq(Message) /\ <<>> \in Seq(Shows) /\ 0 \in Gens /\ 0 \in 0..SendMax
      BY ConstantsAssumption DEF Gens
<1>3. CASE Restart
      <2>1. faults' \in 0..MaxFaults /\ uses' \in 0..MaxUses
            BY <1>1, <1>3 DEF Restart, Fault
      <2>2. /\ QueuesOK(queue') /\ sock' \in [Pages -> {"up", "lost", "down"}]
            BY <1>1, <1>2, <1>3 DEF Restart, QueuesOK
      <2>3. /\ history' = <<>> /\ Len(history') <= Kept
            /\ up' \in Seq(Message) /\ held' \in 0..SendMax /\ held' <= Len(up')
            BY <1>1, <1>2, <1>3 DEF Restart, NoSession
      <2> QED
            BY <1>2, <1>3, <2>1, <2>2, <2>3
               DEF Restart, NoSession, TypeOK, QueuesOK, Shows,
                 Commands, container
<1>4. CASE Write
      <2>1. lines' \in 0..MaxLines
            BY <1>1, <1>4 DEF Write
      <2> QED
            BY <1>4, <2>1 DEF TypeOK, Write, cpVars, linkVars, wire, upVars, agentVars, pageVars,
                 events
<1>5. CASE StopOrStart
      <2>1. uses' \in 0..MaxUses /\ faults' \in 0..MaxFaults
            BY <1>1, <1>5 DEF StopOrStart, Use
      <2>2. running' \in BOOLEAN
            BY <1>5 DEF StopOrStart
      <2> QED
            BY <1>5, <2>1, <2>2
               DEF TypeOK, StopOrStart, cpVars, linkVars, wire, upVars, agentVars,
                 pageVars
<1>6. CASE Break
      <2>1. uses' \in 0..MaxUses /\ faults' \in 0..MaxFaults
            BY <1>1, <1>6 DEF Break, Fault
      <2>2. up \in Seq(Message) /\ held \in Nat /\ held <= Len(up)
            BY ConstantsAssumption DEF TypeOK
      <2>3. up' \in Seq(Message) /\ held' <= Len(up')
            <3>1. PICK k \in 0..(Len(up) - held) : up' = SubSeq(up, 1, k)
                  BY <1>6 DEF Break
            <3>2. k \in 0..Len(up) BY <2>2
            <3> QED BY <1>6, <2>2, <3>1, <3>2, Prefix DEF Break
      <2> QED BY <1>2, <1>6, <2>1, <2>3 DEF TypeOK, Break, Commands, cpVars, container,
                 pageVars
<1>7. CASE Answers
      BY <1>7 DEF TypeOK, Answers, cpVars, wire, upVars, agentVars, container, pageVars, events
<1> QED BY <1>3, <1>4, <1>5, <1>6, <1>7

LEMMA InitTyped == Init => TypeOK
<1> SUFFICES ASSUME Init PROVE TypeOK
    OBVIOUS
<1>1. \A S : <<>> \in Seq(S)
      OBVIOUS
<1>2. /\ MaxUses \in Nat /\ MaxFaults \in Nat /\ MaxLines \in Nat /\ Kept \in Nat
      /\ QueueMax \in Nat /\ Len(<<>>) = 0 /\ 0 \in Gens /\ 0 \in 0..SendMax
      BY ConstantsAssumption DEF Gens
<1>3. /\ queue \in [Pages -> Seq(1..MaxLines \cup {Reset, End})]
      /\ \A p \in Pages : Len(queue[p]) <= QueueMax
      /\ view \in [Pages -> Seq(1..MaxLines)]
      /\ sock \in [Pages -> {"up", "lost", "down"}]
      /\ shown \in [Pages -> {"no", "yes", "ended"}]
      BY <1>1, <1>2 DEF Init
<1>4. history \in Seq(1..MaxLines) /\ Len(history) <= Kept
      BY <1>1, <1>2 DEF Init
<1>5. /\ lines \in 0..MaxLines /\ uses \in 0..MaxUses /\ faults \in 0..MaxFaults
      /\ up \in Seq(Message) /\ held \in 0..SendMax /\ held <= Len(up)
      BY <1>1, <1>2 DEF Init
<1> QED BY <1>1, <1>2, <1>3, <1>4, <1>5 DEF Init, TypeOK

LEMMA StepTyped == TypeOK /\ [Next]_vars => TypeOK'
<1> SUFFICES ASSUME TypeOK, [Next]_vars PROVE TypeOK'
    OBVIOUS
<1>1. CASE UNCHANGED vars
      BY <1>1
         DEF TypeOK, vars, cpVars, linkVars, wire, upVars, agentVars, container, pageVars, events
<1>2. CASE \E p \in Pages : Enter(p) \/ Leave(p) \/ LoseSocket(p) \/ PageSteps(p)
      BY <1>2, PagesTyped
<1>3. CASE \/ Connect \/ ConnectFails \/ Disconnected \/ SendUnsubscribe
           \/ Metrics \/ Watchdog
      BY <1>3, LinkTyped
<1>4. CASE Receive
      BY <1>4, ReceiveTyped
<1>5. CASE Command
      BY <1>5, CommandTyped
<1>6. CASE ReadLine \/ ReadEnd \/ ReportEnd \/ Send \/ Crowded
      BY <1>6, AgentTyped
<1>7. CASE Restart \/ Write \/ StopOrStart \/ Break \/ Answers
      BY <1>7, OthersTyped
<1> QED BY <1>1, <1>2, <1>3, <1>4, <1>5, <1>6, <1>7 DEF Next, System

\* Every variable keeps its type: no queue of a page and no history grows past its bound,
\* whatever is sent, replayed or reset.
THEOREM TypeCorrect == Spec => []TypeOK
<1> QED BY InitTyped, StepTyped, PTL DEF Spec
----------------------------------------------------------------------------
(* The streams on the node.                                                *)

\* What passes between the control plane and the agent reaches the other side.
Link == conn = "open" /\ ~cut

\* The generation g is that of the stream that is wanted; or it can never be again.
Now(g) == wanted /\ g = gen
Past(g) == g <= gen /\ ~Now(g)
Asks(i) == down[i].type = "log_subscribe"
EndsIn(i) == up[i].type = "log_end"

Counted ==
    /\ wanted <=> subs # {}
    /\ conn = "open" => connected
    /\ \A g \in unsent : Past(g)

\* The agent is told of generations in the order in which they were counted, and never to
\* stop the one that is wanted.
Asked ==
    /\ \A i \in DOMAIN down : down[i].gen <= gen
    /\ \A i \in DOMAIN down : ~Asks(i) => Past(down[i].gen)
    /\ \A i, j \in DOMAIN down : i < j /\ Asks(i) /\ Asks(j) => down[i].gen < down[j].gen
    /\ reader # None =>
          /\ reader.gen <= gen
          /\ \A i \in DOMAIN down : Asks(i) => reader.gen < down[i].gen

\* The end of the stream that is wanted is reported only when there is none such any more.
Ended ==
    /\ \A g \in ended : Past(g)
    /\ \A i \in DOMAIN up : EndsIn(i) =>
          /\ up[i].gen <= gen
          /\ Now(up[i].gen) =>
                /\ ~Streams(up[i].gen)
                /\ \A j \in DOMAIN down : Asks(j) => down[j].gen # up[i].gen

\* The stream that is wanted is there, asked for, or its end is on its way or was dropped.
Opened ==
    wanted => \/ Streams(gen)
              \/ \E i \in DOMAIN down : Asks(i) /\ down[i].gen = gen
              \/ \E i \in DOMAIN up : EndsIn(i) /\ up[i].gen = gen
              \/ EndNow \in spilt

\* A stream that is not wanted is about to be stopped, or to be replaced by a later one,
\* by what comes after the k-th command or is yet to be sent.
Closes(g, k) ==
    \/ Now(g) \/ g \in unsent
    \/ \E i \in DOMAIN down : i > k /\ (Asks(i) \/ down[i].gen = g)
Closed ==
    /\ reader # None => Closes(reader.gen, 0)
    /\ \A i \in DOMAIN down : Asks(i) => Closes(down[i].gen, i)

StreamInv == TypeOK /\ Counted /\ (Link => Asked /\ Ended /\ Opened /\ Closed)

LEMMA StreamsHold == StreamInv => StreamsAsWanted
<1> SUFFICES ASSUME StreamInv PROVE StreamsAsWanted
    OBVIOUS
<1>1. wanted <=> subs # {}
      BY DEF StreamInv, Counted
<1>2. ASSUME conn = "open", ~cut, down = <<>>, up = <<>>, unsent = {}
      PROVE  /\ reader # None => wanted /\ Streams(gen)
             /\ wanted => Streams(gen) \/ EndNow \in spilt
      <2>1. Opened /\ Closed
            BY <1>2 DEF StreamInv, Link
      <2>2. DOMAIN down = {} /\ DOMAIN up = {}
            BY <1>2
      <2>3. wanted => Streams(gen) \/ EndNow \in spilt
            BY <2>1, <2>2 DEF Opened
      <2>4. reader # None => wanted /\ Streams(gen)
            BY <1>2, <2>1, <2>2 DEF Closed, Closes, Now, Streams
      <2> QED BY <2>3, <2>4
<1> QED BY <1>1, <1>2 DEF StreamsAsWanted

LEMMA WireTyped ==
    ASSUME TypeOK
    PROVE  /\ gen \in Nat /\ wanted \in BOOLEAN /\ unsent \subseteq Nat
           /\ ended \subseteq Nat /\ down \in Seq(Commands) /\ up \in Seq(Message)
           /\ \A i \in DOMAIN down :
                 /\ i \in Nat /\ i > 0 /\ i <= Len(down) /\ down[i].gen \in Nat
                 /\ down[i].type \in {"log_subscribe", "log_unsubscribe"}
           /\ \A i \in DOMAIN up : i \in Nat /\ i > 0 /\ up[i].gen \in Nat
           /\ reader # None => reader \in Stream /\ reader.gen \in Nat
<1>1. /\ gen \in Nat /\ wanted \in BOOLEAN /\ unsent \subseteq Nat
      /\ ended \subseteq Nat /\ down \in Seq(Commands) /\ up \in Seq(Message)
      /\ reader \in {None} \cup Stream
      BY DEF TypeOK, Gens, Commands
<1>2. /\ \A i \in DOMAIN down : i \in Nat /\ i > 0 /\ i <= Len(down) /\ down[i] \in Commands
      /\ \A i \in DOMAIN up : i \in Nat /\ i > 0 /\ up[i] \in Message
      BY <1>1
<1>3. \A m \in Message : m.gen \in Nat
      BY DEF Message, Gens
<1>4. \A c \in Commands : c.gen \in Nat /\ c.type \in {"log_subscribe", "log_unsubscribe"}
      BY DEF Commands, Gens
<1>5. \A r \in Stream : r.gen \in Nat
      BY DEF Stream, Gens
<1> QED BY <1>1, <1>2, <1>3, <1>4, <1>5

\* Everything that counts for StreamInv stays.
LEMMA StreamFrame ==
    ASSUME StreamInv, TypeOK',
           UNCHANGED <<conn, cut, connected, subs, wanted, gen, unsent>>,
           UNCHANGED <<down, up, spilt, reader, ended>>
    PROVE  StreamInv'
<1>1. Counted'
      BY DEF StreamInv, Counted, Past, Now
<1>2. Link' = Link
      BY DEF Link
<1>3. Link => Asked' /\ Ended' /\ Opened' /\ Closed'
      BY
         DEF StreamInv, Asked, Ended, Opened, EndNow, Closed, Closes, Streams, Past, Now, Asks,
              EndsIn
<1> QED BY <1>1, <1>2, <1>3 DEF StreamInv

LEMMA SubscribeStreams ==
    ASSUME StreamInv, TypeOK', NEW p \in Pages, Subscribe(p),
           UNCHANGED <<conn, cut, connected, up, spilt, reader, ended>>
    PROVE  StreamInv'
<1>1. Counted /\ (Link => Asked /\ Ended /\ Opened /\ Closed) /\ TypeOK
      BY DEF StreamInv
<1>2. unsent' = unsent /\ Link' = Link
      BY DEF Subscribe, Link
<1>3. CASE p \in subs /\ UNCHANGED <<subs, wanted, gen, down>>
      BY <1>2, <1>3, StreamFrame
<1>4. CASE p \notin subs /\ wanted /\ subs' = subs \cup {p} /\ UNCHANGED <<wanted, gen, down>>
      <2>1. Counted'
            BY <1>1, <1>2, <1>4 DEF Counted, Past, Now
      <2>2. Link => Asked' /\ Ended' /\ Opened' /\ Closed'
            BY <1>1, <1>2, <1>4
               DEF Asked, Ended, Opened, EndNow, Closed, Closes, Streams, Past, Now,
               Asks, EndsIn
      <2> QED BY <1>2, <2>1, <2>2 DEF StreamInv
<1>5. CASE /\ p \notin subs /\ ~wanted /\ subs' = subs \cup {p} /\ wanted' = TRUE
           /\ gen' = gen + 1
           /\ down' = IF connected THEN Sent("log_subscribe", gen + 1) ELSE down
      <2>1. /\ gen \in Nat /\ unsent \subseteq Nat /\ down \in Seq(Commands)
            /\ \A i \in DOMAIN down : i \in Nat /\ i > 0 /\ down[i].gen \in Nat
            /\ \A i \in DOMAIN up : up[i].gen \in Nat
            /\ reader # None => reader.gen \in Nat
            /\ ended \subseteq Nat
            BY <1>1, WireTyped
      <2>2. Counted'
            BY <1>1, <1>2, <1>5, <2>1 DEF Counted, Past, Now
      <2>3. ASSUME Link
            PROVE  Asked' /\ Ended' /\ Opened' /\ Closed'
            <3> DEFINE n == Len(down) + 1
                       c == [type |-> "log_subscribe", gen |-> gen + 1]
            <3>1. c \in Commands /\ down' = Append(down, c)
                  BY <1>1, <1>5, <2>1, <2>3 DEF Link, Counted, Sent, Commands, Gens
            <3>2. /\ \A i \in DOMAIN down : i \in DOMAIN down' /\ down'[i] = down[i] /\ i < n
                  /\ n \in DOMAIN down' /\ down'[n] = c /\ n \in Nat /\ n > 0
                  /\ \A i \in DOMAIN down' : i \in DOMAIN down \/ i = n
                  BY <2>1, <3>1, AppendKeeps
            <3>3. down'[n].gen = gen + 1 /\ down'[n].type = "log_subscribe"
                  BY <3>2
            <3> HIDE DEF c, n
            <3>4. Asked /\ Ended
                  BY <1>1, <2>3
            <3>5. Asked'
                  <4>1. \A i \in DOMAIN down' : down'[i].gen <= gen'
                        BY <1>5, <2>1, <3>2, <3>3, <3>4 DEF Asked
                  <4>2. \A i \in DOMAIN down' : ~Asks(i)' => Past(down[i].gen)'
                        BY <1>5, <2>1, <3>2, <3>3, <3>4 DEF Asked, Asks, Past, Now
                  <4>3. \A i, j \in DOMAIN down' :
                           i < j /\ Asks(i)' /\ Asks(j)' => down'[i].gen < down'[j].gen
                        BY <1>5, <2>1, <3>2, <3>3, <3>4 DEF Asked, Asks
                  <4>4. reader # None =>
                           /\ reader.gen <= gen'
                           /\ \A i \in DOMAIN down' : Asks(i)' => reader.gen < down'[i].gen
                        BY <1>5, <2>1, <3>2, <3>3, <3>4 DEF Asked, Asks
                  <4> QED BY <4>1, <4>2, <4>3, <4>4 DEF Asked
            <3>6. Ended'
                  BY <1>5, <2>1, <3>4 DEF Ended, EndsIn, Past, Now
            <3>7. Opened'
                  BY <1>5, <3>2, <3>3 DEF Opened, EndNow, Asks
            <3>8. Closed'
                  BY <1>5, <2>1, <3>2, <3>3 DEF Closed, Closes, Asks, Now
            <3> QED BY <3>5, <3>6, <3>7, <3>8
      <2> QED BY <1>2, <2>2, <2>3 DEF StreamInv
<1> QED BY <1>3, <1>4, <1>5 DEF Subscribe

LEMMA DroppedStreams ==
    ASSUME StreamInv, TypeOK', NEW p \in Pages, Dropped(p),
           UNCHANGED <<conn, cut, connected, up, spilt, reader, ended>>,
           \/ ~LastPage(p) /\ UNCHANGED <<down, unsent>>
           \/ LastPage(p) /\ unsent' = unsent /\ down' = Sent("log_unsubscribe", gen)
           \/ LastPage(p) /\ unsent' = unsent \cup {gen} /\ down' = down
    PROVE  StreamInv'
<1>1. /\ Counted /\ (Link => Asked /\ Ended /\ Opened /\ Closed) /\ TypeOK
      /\ Link' = Link
      BY DEF StreamInv, Link
<1>2. gen' = gen /\ subs' = subs \ {p} /\ wanted' = (wanted /\ ~LastPage(p))
      BY DEF Dropped
<1>3. CASE ~LastPage(p) /\ UNCHANGED <<down, unsent>>
      <2>1. wanted' <=> wanted
            BY <1>2, <1>3
      <2>2. Counted'
            BY <1>1, <1>2, <1>3, <2>1 DEF Counted, LastPage, Past, Now
      <2>3. Link => Asked' /\ Ended' /\ Opened' /\ Closed'
            BY <1>1, <1>2, <1>3, <2>1
               DEF Asked, Ended, Opened, EndNow, Closed, Closes, Streams, Past,
               Now, Asks, EndsIn
      <2> QED BY <1>1, <2>2, <2>3 DEF StreamInv
<1>4. CASE LastPage(p)
      <2>1. wanted /\ ~wanted' /\ subs' = {}
            BY <1>1, <1>2, <1>4 DEF Counted, LastPage
      <2>2. /\ gen \in Nat /\ unsent \subseteq Nat /\ down \in Seq(Commands)
            /\ \A i \in DOMAIN down : i \in Nat /\ i > 0 /\ down[i].gen \in Nat
            /\ reader # None => reader.gen \in Nat
            BY <1>1, WireTyped
      <2>3. unsent \subseteq unsent' /\ unsent' \subseteq unsent \cup {gen}
            BY <1>4
      <2>4. Counted'
            BY <1>1, <1>2, <2>1, <2>2, <2>3 DEF Counted, Past, Now
      <2>5. ASSUME Link
            PROVE  Asked' /\ Ended' /\ Opened' /\ Closed'
            <3>1. Asked /\ Ended /\ Closed
                  BY <1>1, <2>5
            <3>2. Opened'
                  BY <2>1 DEF Opened, EndNow
            <3>3. CASE unsent' = unsent \cup {gen} /\ down' = down
                  <4>1. Asked' /\ Ended'
                        BY <1>2, <2>1, <3>1, <3>3
                           DEF Asked, Ended, Asks, EndsIn, Past, Now
                  <4>2. Closed'
                        BY <1>2, <2>1, <3>1, <3>3 DEF Closed, Closes, Asks, Now
                  <4> QED BY <3>2, <4>1, <4>2
            <3>4. CASE unsent' = unsent /\ down' = Sent("log_unsubscribe", gen)
                  <4> DEFINE n == Len(down) + 1
                             c == [type |-> "log_unsubscribe", gen |-> gen]
                  <4>1. c \in Commands /\ down' = Append(down, c)
                        BY <2>2, <2>5, <3>4 DEF Link, Sent, Commands, Gens
                  <4>2. /\ \A i \in DOMAIN down :
                              i \in DOMAIN down' /\ down'[i] = down[i] /\ i < n
                        /\ n \in DOMAIN down' /\ down'[n] = c /\ n \in Nat /\ n > 0
                        /\ \A i \in DOMAIN down' : i \in DOMAIN down \/ i = n
                        BY <2>2, <4>1, AppendKeeps
                  <4>3. down'[n].gen = gen /\ down'[n].type = "log_unsubscribe"
                        BY <4>2
                  <4> HIDE DEF c, n
                  <4>4. Asked'
                        <5>1. \A i \in DOMAIN down' : down'[i].gen <= gen'
                              BY <1>2, <2>2, <3>1, <4>2, <4>3 DEF Asked
                        <5>2. \A i \in DOMAIN down' : ~Asks(i)' => Past(down[i].gen)'
                              BY <1>2, <2>1, <2>2, <3>1, <4>2, <4>3
                                 DEF Asked, Asks, Past, Now
                        <5>3. \A i, j \in DOMAIN down' :
                                 i < j /\ Asks(i)' /\ Asks(j)' => down'[i].gen < down'[j].gen
                              BY <2>2, <3>1, <4>2, <4>3 DEF Asked, Asks
                        <5>4. reader # None =>
                                 /\ reader.gen <= gen'
                                 /\ \A i \in DOMAIN down' :
                                       Asks(i)' => reader.gen < down'[i].gen
                              BY <1>2, <2>2, <3>1, <4>2, <4>3 DEF Asked, Asks
                        <5> QED BY <5>1, <5>2, <5>3, <5>4 DEF Asked
                  <4>5. Ended'
                        BY <1>2, <2>1, <3>1 DEF Ended, EndsIn, Past, Now
                  <4>6. Closed'
                        BY <1>2, <2>1, <2>2, <3>1, <3>4, <4>2, <4>3
                           DEF Closed, Closes, Asks,
                           Now
                  <4> QED BY <3>2, <4>4, <4>5, <4>6
            <3> QED BY <1>4, <3>3, <3>4
      <2> QED BY <1>1, <2>4, <2>5 DEF StreamInv
<1> QED BY <1>3, <1>4

LEMMA SendUnsubscribeStreams ==
    ASSUME StreamInv, TypeOK', SendUnsubscribe
    PROVE  StreamInv'
<1>1. /\ Counted /\ (Link => Asked /\ Ended /\ Opened /\ Closed) /\ TypeOK
      /\ UNCHANGED <<subs, wanted, gen, conn, cut, connected, up, spilt, reader, ended>>
      BY DEF StreamInv, SendUnsubscribe, linkVars, upVars, agentVars
<1>2. PICK g \in unsent : unsent' = unsent \ {g} /\ down' = Sent("log_unsubscribe", g)
      BY DEF SendUnsubscribe
<1>3. /\ gen \in Nat /\ unsent \subseteq Nat /\ g \in Nat /\ down \in Seq(Commands)
      /\ \A i \in DOMAIN down : i \in Nat /\ i > 0 /\ down[i].gen \in Nat
      /\ reader # None => reader.gen \in Nat
      BY <1>1, WireTyped
<1>4. Counted' /\ Link' = Link /\ Past(g)
      BY <1>1, <1>2 DEF Counted, Past, Now, Link
<1>5. ASSUME Link
      PROVE  Asked' /\ Ended' /\ Opened' /\ Closed'
      <2> DEFINE n == Len(down) + 1
                 c == [type |-> "log_unsubscribe", gen |-> g]
      <2>1. c \in Commands /\ down' = Append(down, c)
            BY <1>2, <1>3, <1>5 DEF Link, Sent, Commands, Gens
      <2>2. /\ \A i \in DOMAIN down : i \in DOMAIN down' /\ down'[i] = down[i] /\ i < n
            /\ n \in DOMAIN down' /\ down'[n] = c /\ n \in Nat /\ n > 0
            /\ \A i \in DOMAIN down' : i \in DOMAIN down \/ i = n
            BY <1>3, <2>1, AppendKeeps
      <2>3. down'[n].gen = g /\ down'[n].type = "log_unsubscribe"
            BY <2>2
      <2> HIDE DEF c, n
      <2>4. Asked /\ Ended /\ Opened /\ Closed
            BY <1>1, <1>5
      <2>5. Asked'
            <3>1. \A i \in DOMAIN down' : down'[i].gen <= gen'
                  BY <1>1, <1>3, <1>4, <2>2, <2>3, <2>4 DEF Asked, Past
            <3>2. \A i \in DOMAIN down' : ~Asks(i)' => Past(down[i].gen)'
                  BY <1>1, <1>4, <2>2, <2>3, <2>4 DEF Asked, Asks, Past, Now
            <3>3. \A i, j \in DOMAIN down' :
                     i < j /\ Asks(i)' /\ Asks(j)' => down'[i].gen < down'[j].gen
                  BY <1>3, <2>2, <2>3, <2>4 DEF Asked, Asks
            <3>4. reader' # None =>
                     /\ reader'.gen <= gen'
                     /\ \A i \in DOMAIN down' : Asks(i)' => reader'.gen < down'[i].gen
                  BY <1>1, <1>3, <2>2, <2>3, <2>4 DEF Asked, Asks
            <3> QED BY <3>1, <3>2, <3>3, <3>4 DEF Asked
      <2>6. Ended'
            BY <1>1, <2>2, <2>3, <2>4 DEF Ended, EndsIn, Past, Now, Asks, Streams
      <2>7. Opened'
            BY <1>1, <2>2, <2>4 DEF Opened, EndNow, Streams, Asks, EndsIn
      <2>8. Closed'
            <3>1. \A h, k \in Nat : Closes(h, k) /\ k < n => Closes(h, k)'
                  <4> SUFFICES ASSUME NEW h \in Nat, NEW k \in Nat, Closes(h, k), k < n
                               PROVE  Closes(h, k)'
                      OBVIOUS
                  <4>1. h = g => Closes(h, k)'
                        BY <2>2, <2>3 DEF Closes
                  <4>2. h # g => Closes(h, k)'
                        BY <1>1, <1>2, <1>3, <2>2 DEF Closes, Now, Asks
                  <4> QED BY <4>1, <4>2
            <3>2. reader' # None => Closes(reader.gen, 0)'
                  BY <1>1, <1>3, <2>2, <2>4, <3>1 DEF Closed
            <3>3. \A i \in DOMAIN down' : Asks(i)' => Closes(down[i].gen, i)'
                  BY <1>3, <2>2, <2>3, <2>4, <3>1 DEF Closed, Asks
            <3> QED BY <3>2, <3>3 DEF Closed
      <2> QED BY <2>5, <2>6, <2>7, <2>8
<1> QED BY <1>4, <1>5 DEF StreamInv

LEMMA ReceiveStreams ==
    ASSUME StreamInv, TypeOK', Receive
    PROVE  StreamInv'
<1> DEFINE m == Head(up)
<1>1. /\ Counted /\ (Link => Asked /\ Ended /\ Opened /\ Closed) /\ TypeOK
      /\ UNCHANGED <<gen, unsent, conn, cut, connected, down, spilt, reader, ended>>
      /\ Link' = Link
      BY DEF StreamInv, Receive, linkVars, agentVars, Link
<1>2. /\ up # <<>> /\ up' = Tail(up)
      /\ ReceiveLog(m) \/ ReceiveEnd(m)
      <2>1. up \in Seq(Message) /\ held \in Nat
            BY <1>1, ConstantsAssumption DEF TypeOK
      <2> QED BY <2>1 DEF Receive
<1>3. up \in Seq(Message) /\ gen \in Nat
      BY <1>1, WireTyped
<1>4. /\ m = up[1] /\ 1 \in DOMAIN up
      /\ \A i \in DOMAIN up' : i + 1 \in DOMAIN up /\ up'[i] = up[i + 1]
      /\ \A i \in DOMAIN up \ {1} : i - 1 \in DOMAIN up' /\ up'[i - 1] = up[i]
      BY <1>2, <1>3, TailMoves
<1>5. CASE m.type = "log" \/ m.gen # gen
      <2>1. UNCHANGED <<subs, wanted>>
            BY <1>2, <1>5 DEF ReceiveLog, ReceiveEnd, Current
      <2>2. Counted'
            BY <1>1, <2>1 DEF Counted, Past, Now
      <2>3. ASSUME Link
            PROVE  Asked' /\ Ended' /\ Opened' /\ Closed'
            <3>1. Asked' /\ Closed'
                  BY <1>1, <2>1, <2>3 DEF Asked, Closed, Closes, Past, Now, Asks
            <3>2. Ended'
                  <4> HIDE DEF m
                  <4> QED
                        BY <1>1, <1>4, <2>1, <2>3
                           DEF Ended, EndsIn, Past, Now, Asks, Streams
            <3>3. Opened'
                  <4> HIDE DEF m
                  <4> QED
                        BY <1>1, <1>4, <1>5, <2>1, <2>3 DEF Opened, EndNow, EndsIn, Asks, Streams
            <3> QED BY <3>1, <3>2, <3>3
      <2> QED BY <1>1, <2>2, <2>3 DEF StreamInv
<1>6. CASE m.type = "log_end" /\ m.gen = gen
      <2>1. subs' = {} /\ wanted' = FALSE
            BY <1>2, <1>6 DEF ReceiveLog, ReceiveEnd, Current
      <2>2. Counted'
            BY <1>1, <2>1 DEF Counted, Past, Now
      <2>3. ASSUME Link
            PROVE  Asked' /\ Ended' /\ Opened' /\ Closed'
            <3>1. Asked' /\ Opened'
                  BY <1>1, <2>1, <2>3 DEF Asked, Opened, EndNow, Past, Now, Asks
            <3>2. Ended'
                  <4> HIDE DEF m
                  <4> QED BY <1>1, <1>4, <2>1, <2>3 DEF Ended, EndsIn, Past, Now
            <3>3. wanted => /\ ~Streams(gen)
                            /\ \A j \in DOMAIN down : Asks(j) => down[j].gen # gen
                  <4> HIDE DEF m
                  <4> QED BY <1>1, <1>4, <1>6, <2>3 DEF Ended, EndsIn, Now
            <3>4. Closed'
                  BY <1>1, <2>1, <2>3, <3>3 DEF Closed, Closes, Now, Asks, Streams
            <3> QED BY <3>1, <3>2, <3>4
      <2> QED BY <1>1, <2>2, <2>3 DEF StreamInv
<1>7. m.type \in {"log", "log_end"}
      BY <1>2 DEF ReceiveLog, ReceiveEnd
<1> QED BY <1>5, <1>6, <1>7

LEMMA ConnectStreams ==
    ASSUME StreamInv, TypeOK', Connect
    PROVE  StreamInv'
<1>1. Counted /\ TypeOK
      BY DEF StreamInv
<1>2. /\ UNCHANGED <<subs, wanted, unsent>> /\ connected' = TRUE /\ reader' = None
      /\ ended' = {} /\ up' = <<>> /\ DOMAIN up' = {}
      BY DEF Connect, NoSession
<1>3. /\ gen \in Nat /\ gen' \in Nat /\ unsent \subseteq Nat /\ gen' >= gen
      /\ ~wanted => gen' = gen
      <2>1. gen \in Nat /\ unsent \subseteq Nat /\ wanted \in BOOLEAN
            BY <1>1, WireTyped
      <2>2. IF wanted THEN gen' = gen + 1 ELSE gen' = gen
            BY DEF Connect
      <2> QED BY <2>1, <2>2
<1>4. Counted'
      BY <1>1, <1>2, <1>3 DEF Counted, Past, Now
<1>5. CASE wanted
      <2>1. down' = <<[type |-> "log_subscribe", gen |-> gen']>>
            BY <1>5 DEF Connect
      <2>2. /\ DOMAIN down' = {1} /\ down'[1].type = "log_subscribe" /\ down'[1].gen = gen'
            BY <2>1
      <2>3. Asked' /\ Ended' /\ Opened' /\ Closed'
            BY <1>2, <1>3, <1>5, <2>2
               DEF Asked, Ended, Opened, EndNow, Closed, Closes, Now, Past, Asks
      <2> QED BY <1>4, <2>3 DEF StreamInv
<1>6. CASE ~wanted
      <2>1. DOMAIN down' = {}
            BY <1>6 DEF Connect
      <2>2. Asked' /\ Ended' /\ Opened' /\ Closed'
            BY <1>2, <1>6, <2>1 DEF Asked, Ended, Opened, EndNow, Closed
      <2> QED BY <1>4, <2>2 DEF StreamInv
<1> QED BY <1>5, <1>6

\* The steps after which nothing passes between the two.
LEMMA ApartStreams ==
    ASSUME StreamInv, TypeOK',
           ConnectFails \/ Disconnected \/ Watchdog \/ Restart \/ Break
    PROVE  StreamInv'
<1>1. Counted
      BY DEF StreamInv
<1>2. CASE Restart
      <2>1. /\ subs' = {} /\ wanted' = FALSE /\ unsent' = {} /\ conn' = "none"
            BY <1>2 DEF Restart
      <2> QED BY <2>1 DEF StreamInv, Counted, Link
<1>3. CASE ConnectFails \/ Disconnected \/ Watchdog \/ Break
      <2>1. /\ UNCHANGED <<subs, wanted, gen, unsent>>
            /\ conn' = "open" => cut' /\ UNCHANGED <<conn, connected>>
            BY <1>3 DEF ConnectFails, Disconnected, Watchdog, Break, cpVars
      <2> QED BY <1>1, <2>1 DEF StreamInv, Counted, Past, Now, Link
<1> QED BY <1>2, <1>3

LEMMA CommandStreams ==
    ASSUME StreamInv, TypeOK', Command
    PROVE  StreamInv'
<1> DEFINE c == Head(down)
<1>1. /\ Counted /\ (Link => Asked /\ Ended /\ Opened /\ Closed) /\ TypeOK
      /\ UNCHANGED <<subs, wanted, gen, unsent, conn, cut, connected, up, spilt>>
      BY DEF StreamInv, Command, cpVars, linkVars, upVars
<1>2. Counted' /\ Link' = Link
      BY <1>1 DEF Counted, Past, Now, Link
<1>3. ASSUME Link
      PROVE  Asked' /\ Ended' /\ Opened' /\ Closed'
      <2>1. Asked /\ Ended /\ Opened /\ Closed
            BY <1>1, <1>3
      <2>2. down # <<>> /\ down' = Tail(down)
            BY DEF Command
      <2>3. /\ gen \in Nat /\ unsent \subseteq Nat /\ down \in Seq(Commands)
            /\ \A i \in DOMAIN down :
                  /\ i \in Nat /\ i > 0 /\ down[i].gen \in Nat
                  /\ down[i].type \in {"log_subscribe", "log_unsubscribe"}
            /\ \A i \in DOMAIN up : up[i].gen \in Nat
            /\ reader # None => reader.gen \in Nat
            BY <1>1, WireTyped
      <2>4. /\ c = down[1] /\ 1 \in DOMAIN down
            /\ \A i \in DOMAIN down' : i + 1 \in DOMAIN down /\ down'[i] = down[i + 1]
            /\ \A i \in DOMAIN down \ {1} : i - 1 \in DOMAIN down' /\ down'[i - 1] = down[i]
            /\ DOMAIN down' \subseteq Nat \ {0}
            BY <2>2, <2>3, TailMoves
      <2>5. \/ /\ Asks(1) /\ ~Streams(down[1].gen)
               /\ reader' = Reader(down[1].gen)
               /\ ended' = IF reader = None THEN ended ELSE ended \cup {reader.gen}
            \/ /\ ~Asks(1) /\ Streams(down[1].gen)
               /\ reader' = None /\ ended' = ended \cup {reader.gen}
            \/ (Asks(1) <=> Streams(down[1].gen)) /\ UNCHANGED <<reader, ended>>
            <3>1. c.type = "log_subscribe" <=> Asks(1)
                  BY <2>4 DEF Asks
            <3>2. c.type = "log_unsubscribe" => ~Asks(1)
                  BY <2>4 DEF Asks
            <3> HIDE DEF c
            <3>3. c = Head(down)
                  BY DEF c
            <3> QED BY <2>4, <3>1, <3>2, <3>3 DEF Command
      <2> HIDE DEF c
      <2>6. Asks(1) => ~Streams(down[1].gen)
            BY <2>1, <2>3, <2>4 DEF Asked, Streams
      <2>7. \A i \in DOMAIN down' :
                /\ i + 1 \in DOMAIN down /\ i + 1 > 1 /\ down'[i] = down[i + 1]
                /\ Asks(i)' <=> Asks(i + 1)
             BY <2>4 DEF Asks
      <2>8. \A i \in DOMAIN down : Asks(1) /\ Asks(i) /\ i > 1 => down[1].gen < down[i].gen
             BY <2>1, <2>3, <2>4 DEF Asked
      <2>9. /\ \A i \in DOMAIN down' : down'[i].gen <= gen
            /\ \A i \in DOMAIN down' : ~Asks(i)' => Past(down[i].gen)'
            /\ \A i, j \in DOMAIN down' :
                  i < j /\ Asks(i)' /\ Asks(j)' => down'[i].gen < down'[j].gen
            <3>1. \A i \in DOMAIN down' : down'[i].gen <= gen
                  BY <2>1, <2>7 DEF Asked
            <3>2. \A i \in DOMAIN down' : ~Asks(i)' => Past(down[i].gen)'
                  BY <1>1, <2>1, <2>7 DEF Asked, Past, Now
            <3>3. ASSUME NEW i \in DOMAIN down', NEW j \in DOMAIN down',
                         i < j, Asks(i)', Asks(j)'
                  PROVE  down'[i].gen < down'[j].gen
                  <4>1. i + 1 < j + 1
                        BY <2>4, <3>3
                  <4> QED BY <2>1, <2>7, <3>3, <4>1 DEF Asked
            <3> QED BY <3>1, <3>2, <3>3
      <2>10. \A g, k \in Nat : Closes(g, k + 1) => Closes(g, k)'
             <3> SUFFICES ASSUME NEW g \in Nat, NEW k \in Nat, Closes(g, k + 1)
                          PROVE  Closes(g, k)'
                 OBVIOUS
             <3>1. CASE Now(g) \/ g \in unsent
                   BY <1>1, <3>1 DEF Closes, Now
             <3>2. CASE \E i \in DOMAIN down : i > k + 1 /\ (Asks(i) \/ down[i].gen = g)
                   <4>1. PICK i \in DOMAIN down : i > k + 1 /\ (Asks(i) \/ down[i].gen = g)
                         BY <3>2
                   <4>2. i \in Nat /\ i - 1 > k /\ i # 1
                         BY <2>3, <4>1
                   <4>3. i - 1 \in DOMAIN down' /\ down'[i - 1] = down[i]
                         BY <2>4, <4>2
                   <4> QED BY <4>1, <4>2, <4>3 DEF Closes, Asks
             <3> QED BY <3>1, <3>2 DEF Closes
      <2>11. \A i \in DOMAIN down' : Asks(i)' => Closes(down[i].gen, i)'
            BY <2>1, <2>3, <2>4, <2>10 DEF Closed, Asks
      <2>12. CASE /\ Asks(1) /\ reader' = Reader(down[1].gen)
                  /\ ended' = IF reader = None THEN ended ELSE ended \cup {reader.gen}
             <3>1. reader' # None /\ reader'.gen = down[1].gen
                   BY <1>1, <2>3, <2>4, <2>12, ReaderTyped DEF Gens
             <3>2. Asked'
                   <4>1. \A i \in DOMAIN down' : Asks(i)' => down[1].gen < down'[i].gen
                         BY <2>7, <2>8, <2>12
                   <4> QED BY <1>1, <2>1, <2>4, <2>9, <3>1, <4>1 DEF Asked
             <3>3. Ended'
                   <4>1. \A g \in ended' : Past(g)'
                         BY <1>1, <2>1, <2>3, <2>4, <2>12 DEF Ended, Asked, Past, Now
                   <4>2. \A i \in DOMAIN up : EndsIn(i) /\ Now(up[i].gen) =>
                            up[i].gen # down[1].gen
                         BY <2>1, <2>4, <2>12 DEF Ended
                   <4> QED
                         BY <1>1, <2>1, <2>4, <3>1, <4>1, <4>2
                            DEF Ended, EndsIn, Now, Asks,
                              Streams
             <3>4. Opened'
                   <4>1. ~Streams(gen)
                         BY <2>1, <2>3, <2>4, <2>12 DEF Asked, Streams
                   <4> QED
                         BY <1>1, <2>1, <2>4, <3>1, <4>1 DEF Opened, EndNow, Streams, Asks, EndsIn
             <3>5. Closed'
                   <4>0. PICK g \in Nat : g = down[1].gen
                         BY <2>3, <2>4
                   <4>1. Closes(g, 0 + 1)
                         BY <2>1, <2>4, <2>12, <4>0 DEF Closed
                   <4>2. Closes(g, 0)'
                         BY <2>10, <4>1
                   <4>3. reader'.gen = g
                         BY <3>1, <4>0
                   <4>4. Closes(reader.gen, 0)'
                         BY <4>2, <4>3 DEF Closes, Now
                   <4> QED BY <2>11, <3>1, <4>4 DEF Closed
             <3> QED BY <3>2, <3>3, <3>4, <3>5
      <2>13. CASE /\ ~Asks(1) /\ Streams(down[1].gen)
                  /\ reader' = None /\ ended' = ended \cup {reader.gen}
             <3>1. Past(reader.gen)
                   BY <2>1, <2>4, <2>13 DEF Asked, Streams
             <3>2. Asked' /\ Closed'
                   BY <1>1, <2>9, <2>11, <2>13 DEF Asked, Closed
             <3>3. Ended'
                   BY <1>1, <2>1, <2>4, <2>13, <3>1
                      DEF Ended, EndsIn, Past, Now, Asks, Streams
             <3>4. Opened'
                   BY <1>1, <2>1, <2>4, <2>13, <3>1
                      DEF Opened, EndNow, Streams, Asks, EndsIn, Past, Now
             <3> QED BY <3>2, <3>3, <3>4
      <2>14. CASE ~Asks(1) /\ ~Streams(down[1].gen) /\ UNCHANGED <<reader, ended>>
             <3>1. Asked'
                   BY <1>1, <2>1, <2>4, <2>9, <2>14 DEF Asked, Asks
             <3>2. Ended'
                   BY <1>1, <2>1, <2>4, <2>14 DEF Ended, EndsIn, Past, Now, Asks, Streams
             <3>3. Opened'
                   BY <1>1, <2>1, <2>4, <2>14 DEF Opened, EndNow, Streams, Asks, EndsIn
             <3>4. ASSUME reader # None
                   PROVE  Closes(reader.gen, 0)'
                   <4>1. Closes(reader.gen, 0) /\ down[1].gen # reader.gen
                         BY <2>1, <2>14, <3>4 DEF Closed, Streams
                   <4>2. Closes(reader.gen, 0 + 1)
                         BY <2>3, <2>14, <4>1 DEF Closes
                   <4>3. reader.gen \in Nat /\ reader' = reader
                         BY <2>3, <2>14, <3>4
                   <4>4. \A g \in Nat : Closes(g, 0 + 1) => Closes(g, 0)'
                         BY <2>10
                   <4> QED BY <4>2, <4>3, <4>4 DEF Closes, Now
             <3> QED BY <2>11, <2>14, <3>1, <3>2, <3>3, <3>4 DEF Closed
      <2> QED BY <2>5, <2>6, <2>12, <2>13, <2>14
<1> QED BY <1>2, <1>3 DEF StreamInv

\* What is under way after a step of the agent was so before or is new, and what is no
\* longer under way was dropped.
Carried(ms) ==
    /\ \A i \in DOMAIN up' : \/ \E j \in DOMAIN up : up'[i] = up[j]
                             \/ \E j \in DOMAIN ms : up'[i] = ms[j]
    /\ \A j \in DOMAIN up : up[j] \in spilt' \/ \E i \in DOMAIN up' : up'[i] = up[j]
    /\ \A j \in DOMAIN ms : ms[j] \in spilt' \/ \E i \in DOMAIN up' : up'[i] = ms[j]
    /\ spilt \subseteq spilt'

LEMMA PushCarries ==
    ASSUME TypeOK, NEW ms \in Seq(Message), ~cut, Push(ms)
    PROVE  Carried(ms)
<1>1. PICK s : s = up \o ms OBVIOUS
<1>2. PICK n \in 0..Len(s) : \E k \in 0..n : s \in Seq(Message) /\ Spill(s, n, k)
      BY <1>1, Pushes
<1>3. /\ spilt \subseteq spilt'
      /\ \E f \in [DOMAIN up' -> DOMAIN s] :
            /\ \A i \in DOMAIN up' : up'[i] = s[f[i]]
            /\ \A i \in DOMAIN s : s[i] \in spilt' \/ \E j \in DOMAIN up' : f[j] = i
      BY <1>2, Spills
<1>4. /\ \A i \in DOMAIN up' : \E j \in DOMAIN s : up'[i] = s[j]
      /\ \A j \in DOMAIN s : s[j] \in spilt' \/ \E i \in DOMAIN up' : up'[i] = s[j]
      BY <1>3
<1>5. up \in Seq(Message) BY DEF TypeOK
<1>6. /\ DOMAIN s = 1..(Len(up) + Len(ms))
      /\ \A i \in 1..Len(up) : s[i] = up[i]
      /\ \A i \in 1..Len(ms) : s[Len(up) + i] = ms[i]
      BY <1>1, <1>5, Joins
<1>7. DOMAIN up = 1..Len(up) /\ DOMAIN ms = 1..Len(ms) /\ Len(up) \in Nat /\ Len(ms) \in Nat
      BY <1>5
<1>8. ASSUME NEW j \in DOMAIN s
      PROVE  (\E i \in DOMAIN up : s[j] = up[i]) \/ (\E i \in DOMAIN ms : s[j] = ms[i])
  <2>1. CASE j \in 1..Len(up) BY <1>6, <1>7, <2>1
  <2>2. CASE j \notin 1..Len(up)
    <3>1. PICK i : i = j - Len(up) OBVIOUS
    <3>2. i \in 1..Len(ms) /\ j = Len(up) + i BY <1>6, <1>7, <2>2, <3>1
    <3> QED BY <1>6, <1>7, <3>2
  <2> QED BY <2>1, <2>2
<1>9. \A j \in DOMAIN up : j \in DOMAIN s /\ s[j] = up[j] BY <1>6, <1>7
<1>10. \A j \in DOMAIN ms : Len(up) + j \in DOMAIN s /\ s[Len(up) + j] = ms[j] BY <1>6, <1>7
<1>11. /\ \A j \in DOMAIN up : up[j] \in spilt' \/ \E i \in DOMAIN up' : up'[i] = up[j]
       /\ \A j \in DOMAIN ms : ms[j] \in spilt' \/ \E i \in DOMAIN up' : up'[i] = ms[j]
       BY <1>4, <1>9, <1>10
<1>12. \A i \in DOMAIN up' : \/ \E j \in DOMAIN up : up'[i] = up[j]
                             \/ \E j \in DOMAIN ms : up'[i] = ms[j]
       BY <1>4, <1>8
<1> QED BY <1>3, <1>11, <1>12 DEF Carried

LEMMA Short == <<>> \in Seq(Message) /\ \A m \in Message : <<m>> \in Seq(Message)
OBVIOUS

LEMMA CrowdCarries ==
    ASSUME TypeOK, Crowded
    PROVE  Carried(<<>>)
<1>1. up \in Seq(Message) /\ held \in 0..Len(up)
      BY ConstantsAssumption DEF TypeOK
<1>2. PICK k \in 0..held : Spill(up, held, k) BY <1>1 DEF Crowded
<1>3. /\ spilt \subseteq spilt'
      /\ \E f \in [DOMAIN up' -> DOMAIN up] :
            /\ \A i \in DOMAIN up' : up'[i] = up[f[i]]
            /\ \A i \in DOMAIN up : up[i] \in spilt' \/ \E j \in DOMAIN up' : f[j] = i
      BY <1>1, <1>2, Spills
<1>4. DOMAIN <<>> = {} OBVIOUS
<1> QED BY <1>3, <1>4 DEF Carried

\* Nothing that is new ends the stream that is wanted, or it was the agent's, which is over.
LEMMA CarriedStreams ==
    ASSUME StreamInv, TypeOK', NEW ms \in Seq(Message), Link => Carried(ms),
           UNCHANGED <<subs, wanted, gen, unsent, conn, cut, connected, down>>,
           ended' \subseteq ended,
           reader' = None \/ (reader # None /\ reader' # None /\ reader'.gen = reader.gen),
           Link => \A j \in DOMAIN ms : ms[j].type = "log_end" =>
              \/ Past(ms[j].gen)
              \/ reader # None /\ reader' = None /\ ms[j].gen = reader.gen,
           Link /\ reader # None /\ reader' = None /\ wanted /\ reader.gen = gen =>
              \E j \in DOMAIN ms : ms[j] = EndNow
    PROVE  StreamInv'
<1>1. Counted /\ (Link => Asked /\ Ended /\ Opened /\ Closed) /\ TypeOK
      BY DEF StreamInv
<1>2. Counted' /\ Link' = Link
      BY <1>1 DEF Counted, Past, Now, Link
<1>3. ASSUME Link
      PROVE  Asked' /\ Ended' /\ Opened' /\ Closed'
  <2>1. Asked /\ Ended /\ Opened /\ Closed /\ Carried(ms)
        BY <1>1, <1>3
  <2>2. /\ gen \in Nat /\ \A i \in DOMAIN up : up[i] \in Message
        /\ reader # None => reader.gen \in Nat
        BY <1>1, WireTyped
  <2>3. Asked' /\ Closed'
        BY <1>1, <2>1 DEF Asked, Closed, Closes, Past, Now, Asks
  <2>4. \A g : Streams(g)' => Streams(g)
        BY DEF Streams
  <2>5. ASSUME NEW i \in DOMAIN up', EndsIn(i)'
        PROVE  /\ up'[i].gen <= gen
               /\ Now(up'[i].gen) => /\ ~Streams(up[i].gen)'
                                     /\ \A j \in DOMAIN down : Asks(j) => down[j].gen # up'[i].gen
    <3>1. CASE \E j \in DOMAIN up : up'[i] = up[j]
          BY <2>1, <2>4, <2>5, <3>1 DEF Ended, EndsIn, Streams
    <3>2. CASE \E j \in DOMAIN ms : up'[i] = ms[j]
      <4>1. PICK j \in DOMAIN ms : up'[i] = ms[j] BY <3>2
      <4>2. ms[j].type = "log_end" BY <2>5, <4>1 DEF EndsIn
      <4>3. CASE Past(ms[j].gen) BY <4>1, <4>3 DEF Past
      <4>4. CASE reader # None /\ reader' = None /\ ms[j].gen = reader.gen
        <5>1. reader.gen <= gen /\ \A d \in DOMAIN down : Asks(d) => down[d].gen # reader.gen
              BY <1>1, <2>1, <2>2, <4>4, WireTyped DEF Asked
        <5> QED BY <4>1, <4>4, <5>1 DEF Streams
      <4> QED BY <1>3, <4>2, <4>3, <4>4
    <3> QED BY <2>1, <3>1, <3>2 DEF Carried
  <2>6. \A g \in ended' : Past(g)' BY <2>1 DEF Ended, Past, Now
  <2>7. Ended'
    <3>1. \A j \in DOMAIN down : Asks(j)' <=> Asks(j) BY DEF Asks
    <3>2. \A g : Now(g)' <=> Now(g) BY DEF Now
    <3> QED BY <2>5, <2>6, <3>1, <3>2 DEF Ended
  <2>8. \A m \in Message : m.type = "log_end" /\ m.gen = gen => m = EndNow
        BY DEF Message, EndNow
  <2>9. EndNow' = EndNow /\ EndNow.type = "log_end" /\ EndNow.gen = gen BY DEF EndNow
  <2>10. Opened'
    <3> SUFFICES ASSUME wanted
                 PROVE  \/ Streams(gen)' \/ \E i \in DOMAIN down : Asks(i) /\ down[i].gen = gen
                        \/ \E i \in DOMAIN up' : up'[i] = EndNow
                        \/ EndNow \in spilt'
        BY <2>9 DEF Opened, EndsIn, Asks
    <3>1. CASE Streams(gen)
      <4>1. CASE reader' = None
        <5>1. \E j \in DOMAIN ms : ms[j] = EndNow BY <1>3, <3>1, <4>1 DEF Streams
        <5> QED BY <2>1, <5>1 DEF Carried
      <4>2. CASE reader' # None BY <3>1, <4>2 DEF Streams
      <4> QED BY <4>1, <4>2
    <3>2. CASE \E i \in DOMAIN up : EndsIn(i) /\ up[i].gen = gen
      <4>1. \E j \in DOMAIN up : up[j] = EndNow BY <2>2, <2>8, <3>2 DEF EndsIn
      <4> QED BY <2>1, <4>1 DEF Carried
    <3>3. CASE EndNow \in spilt BY <2>1, <3>3 DEF Carried
    <3> QED BY <2>1, <3>1, <3>2, <3>3 DEF Opened
  <2> QED BY <2>3, <2>7, <2>10
<1> QED BY <1>2, <1>3 DEF StreamInv

LEMMA AgentStreams ==
    ASSUME StreamInv, TypeOK', ReadLine \/ ReadEnd \/ ReportEnd \/ Crowded
    PROVE  StreamInv'
<1>1. /\ TypeOK /\ UNCHANGED <<subs, wanted, gen, unsent, conn, cut, connected, down>>
      /\ (Link => Ended)
      BY DEF StreamInv, ReadLine, ReadEnd, ReportEnd, Crowded, cpVars, linkVars
<1>2. \A ms \in Seq(Message) : Link /\ Push(ms) => Carried(ms)
      BY <1>1, PushCarries DEF Link
<1>3. CASE ReadLine
  <2> DEFINE e(i) == [type |-> "log", gen |-> reader.gen, line |-> reader.pos + i]
  <2>1. PICK n \in 1..(lines - reader.pos) :
           reader' = [reader EXCEPT !.pos = @ + n] /\ Push([i \in 1..n |-> e(i)])
        BY <1>3 DEF ReadLine
  <2>2. reader # None /\ ended' = ended BY <1>3 DEF ReadLine
  <2>3. /\ reader' \in Stream /\ reader'.gen = reader.gen
        /\ [i \in 1..n |-> e(i)] \in Seq(Message)
        BY <1>1, <2>1, <2>2, ReadTyped
  <2>4. reader' # None BY <2>3, StreamAssumption
  <2>5. \A i \in 1..n : e(i).type = "log" OBVIOUS
  <2> HIDE DEF e
  <2>6. PICK ms \in Seq(Message) : ms = [i \in 1..n |-> e(i)] BY <2>3
  <2>7. \A j \in DOMAIN ms : ms[j].type = "log" BY <2>5, <2>6
  <2>8. Link => Carried(ms) BY <1>2, <2>1, <2>6
  <2> QED BY <1>1, <2>2, <2>3, <2>4, <2>7, <2>8, CarriedStreams
<1>4. CASE ReadEnd
  <2> DEFINE m == [type |-> "log_end", gen |-> reader.gen]
  <2>1. reader # None /\ reader' = None /\ ended' = ended /\ Push(<<m>>)
        BY <1>4 DEF ReadEnd
  <2>2. m \in Message /\ m.type = "log_end" /\ m.gen = reader.gen
        BY <1>1, <2>1, WireTyped DEF Message, Gens
  <2>3. reader.gen = gen => m = EndNow BY DEF EndNow
  <2> HIDE DEF m
  <2>4. PICK ms \in Seq(Message) : ms = <<m>> BY <2>2, Short
  <2>5. DOMAIN ms = {1} /\ ms[1] = m BY <2>4
  <2>6. Link => Carried(ms) BY <1>2, <2>1, <2>4
  <2> QED BY <1>1, <2>1, <2>2, <2>3, <2>5, <2>6, CarriedStreams
<1>5. CASE ReportEnd
  <2>1. PICK g \in ended : /\ ended' = ended \ {g}
                           /\ Push(<<[type |-> "log_end", gen |-> g]>>)
        BY <1>5 DEF ReportEnd
  <2> DEFINE m == [type |-> "log_end", gen |-> g]
  <2>2. g \in Gens BY <1>1, WireTyped DEF Gens
  <2>3. m \in Message /\ m.gen = g BY <2>2 DEF Message
  <2> HIDE DEF m
  <2>4. PICK ms \in Seq(Message) : ms = <<m>> BY <2>3, Short
  <2>5. DOMAIN ms = {1} /\ ms[1] = m BY <2>4
  <2>6. Link => Carried(ms) BY <1>2, <2>1, <2>4 DEF m
  <2>7. Link => Past(g) BY <1>1 DEF Ended
  <2>8. reader' = reader BY <1>5 DEF ReportEnd
  <2> QED BY <1>1, <2>1, <2>3, <2>5, <2>6, <2>7, <2>8, CarriedStreams
<1>6. CASE Crowded
  <2>1. PICK ms \in Seq(Message) : ms = <<>> BY Short
  <2>2. DOMAIN ms = {} /\ Carried(ms) BY <1>1, <1>6, <2>1, CrowdCarries
  <2>3. UNCHANGED <<reader, ended>> BY <1>6 DEF Crowded, agentVars
  <2> QED BY <1>1, <2>2, <2>3, CarriedStreams
<1> QED BY <1>3, <1>4, <1>5, <1>6

LEMMA PagesStreams ==
    ASSUME StreamInv, TypeOK', NEW p \in Pages,
           Enter(p) \/ Leave(p) \/ LoseSocket(p) \/ PageSteps(p)
    PROVE  StreamInv'
<1>1. CASE Enter(p)
      BY <1>1, SubscribeStreams DEF Enter, linkVars, upVars, agentVars
<1>2. CASE Leave(p)
      <2>1. UNCHANGED <<conn, cut, connected, up, spilt, reader, ended>>
            BY <1>2 DEF Leave, linkVars, upVars, agentVars
      <2>2. CASE Unsubscribe(p)
            BY <2>1, <2>2, DroppedStreams DEF Unsubscribe
      <2>3. CASE UNCHANGED <<cpVars, down>>
            BY <2>1, <2>3, StreamFrame DEF cpVars
      <2> QED BY <1>2, <2>2, <2>3 DEF Leave
<1>3. CASE LoseSocket(p) \/ Deliver(p)
      BY <1>3, StreamFrame DEF LoseSocket, Deliver, cpVars, linkVars, wire, upVars, agentVars
<1>4. CASE Unregister(p)
      <2>1. Dropped(p) /\ UNCHANGED <<conn, cut, connected, up, spilt, down, reader, ended>>
            BY <1>4 DEF Unregister, linkVars, wire, upVars, agentVars
      <2>2. unsent' = IF LastPage(p) THEN unsent \cup {gen} ELSE unsent
            BY <1>4 DEF Unregister
      <2> QED BY <2>1, <2>2, DroppedStreams
<1>5. CASE Reconnect(p)
      <2>1. UNCHANGED <<conn, cut, connected, up, spilt, reader, ended>>
            BY <1>5 DEF Reconnect, linkVars, upVars, agentVars
      <2>2. Subscribe(p) \/ UNCHANGED <<cpVars, down>>
            BY <1>5 DEF Reconnect
      <2> QED BY <2>1, <2>2, SubscribeStreams, StreamFrame DEF cpVars
<1> QED BY <1>1, <1>2, <1>3, <1>4, <1>5 DEF PageSteps

LEMMA StreamStep == StreamInv /\ [Next]_vars => StreamInv'
<1> SUFFICES ASSUME StreamInv, [Next]_vars PROVE StreamInv'
    OBVIOUS
<1>1. TypeOK'
      BY StepTyped DEF StreamInv
<1>2. CASE \/ UNCHANGED vars
           \/ Metrics \/ Write \/ StopOrStart \/ Answers \/ Send
      BY <1>1, <1>2, StreamFrame DEF vars, Metrics, Write, StopOrStart, Answers, Send, cpVars,
         linkVars, wire, upVars, agentVars
<1>3. CASE \E p \in Pages : Enter(p) \/ Leave(p) \/ LoseSocket(p) \/ PageSteps(p)
      BY <1>1, <1>3, PagesStreams
<1>4. CASE Connect
      BY <1>1, <1>4, ConnectStreams
<1>5. CASE ConnectFails \/ Disconnected \/ Watchdog \/ Restart \/ Break
      BY <1>1, <1>5, ApartStreams
<1>6. CASE SendUnsubscribe
      BY <1>1, <1>6, SendUnsubscribeStreams
<1>7. CASE Receive
      BY <1>1, <1>7, ReceiveStreams
<1>8. CASE Command
      BY <1>1, <1>8, CommandStreams
<1>9. CASE ReadLine \/ ReadEnd \/ ReportEnd \/ Crowded
      BY <1>1, <1>9, AgentStreams
<1> QED BY <1>2, <1>3, <1>4, <1>5, <1>6, <1>7, <1>8, <1>9 DEF Next, System

LEMMA StreamInit == Init => StreamInv
<1> SUFFICES ASSUME Init PROVE StreamInv
    OBVIOUS
<1>1. TypeOK
      BY InitTyped
<1> QED BY <1>1 DEF Init, StreamInv, Counted, Link

\* No stream is left behind on the node and none that pages wait for is missing: when
\* nothing is under way, the agent reads the log only if some page wants it and in the
\* stream the control plane listens to, whatever was lost, broken off, dropped or left in
\* silence before; and if some page wants it, the agent reads it, unless the end of that very
\* stream was dropped from a full send_q (subscribe_log, unsubscribe_log,
\* unregister_frontend, _connect_node, _enqueue).
THEOREM StreamsCorrect == Spec => []StreamsAsWanted
<1> QED BY StreamInit, StreamStep, StreamsHold, PTL DEF Spec

----------------------------------------------------------------------------
(* What the pages show.                                                    *)

\* No queue is full: a message that is put into one is there.
Roomy == \A p \in Pages : Len(queue[p]) < QueueMax

Lines     == 1..MaxLines
LastOf(s) == s[Len(s)]

\* The line b comes after a, and all lines between them are in S.
After(a, b, S) == a < b /\ (a + 1)..(b - 1) \subseteq S
Row(s, S)      == \A k \in 2..Len(s) : After(s[k - 1], s[k], S)

\* The lines of the stream g in the messages s, and that they are in order there.
IsLine(m, g)  == m.type = "log" /\ m.gen = g
LinesOf(s, g) == {s[i].line : i \in {k \in DOMAIN s : IsLine(s[k], g)}}
Ordered(s, g) ==
    \A i, j \in DOMAIN s : i < j /\ IsLine(s[i], g) /\ IsLine(s[j], g) => s[i].line < s[j].line

\* K has the latest line that is kept, C the lines on their way and P the one the agent has
\* come to, if there are such; what lies between them is on its way or was dropped.
Whole(K, C, P, S) ==
    /\ \A k \in K, c \in C : k < c
    /\ \A p \in P : \A c \in K \cup C : c <= p
    /\ \A n \in Lines : /\ \E a \in K \cup C : a < n
                        /\ (\E c \in C : n < c) \/ (\E p \in P : n <= p)
                        => n \in C \cup S
Latest   == IF history = <<>> THEN {} ELSE {LastOf(history)}
Position == IF reader # None /\ reader.gen = gen THEN {reader.pos} ELSE {}
InOrder  == wanted => /\ Ordered(up, gen)
                      /\ Whole(Latest, LinesOf(up, gen), Position, skipped)

\* A stream that is asked for is later than all that was read, and nothing of it came.
Fresh(i) ==
    /\ down[i].gen <= gen
    /\ reader # None => reader.gen < down[i].gen
    /\ \A k \in DOMAIN up : up[k].type = "log" => up[k].gen < down[i].gen
    /\ \A k \in DOMAIN down : k < i /\ Asks(k) => down[k].gen < down[i].gen
    /\ wanted /\ down[i].gen = gen => history = <<>>
Numbered ==
    /\ \A i \in DOMAIN up : up[i].gen <= gen
    /\ reader # None => reader.gen <= gen
    /\ \A g \in ended : g <= gen
    /\ cut => reader = None
    /\ \A i \in DOMAIN down : Asks(i) => Fresh(i)

TapeInv == InOrder /\ Numbered /\ Row(history, skipped)

\* The message b may come after a.
Joined(a, b, S) == b \in Lines => a = Reset \/ (a \in Lines /\ After(a, b, S))

\* Who has no connection has no queue, and the end of a stream is the last that comes.
Attached(p) ==
    /\ sock[p] # "up" => queue[p] = <<>>
    /\ sock[p] = "down" => p \notin subs
    /\ shown[p] = "ended" => p \notin subs /\ queue[p] = <<>>
    /\ \A k \in DOMAIN queue[p] : queue[p][k] = End => k = Len(queue[p]) /\ p \notin subs

\* The queue of a page goes on where the page is, and ends where what is kept ends.
Seamless(p) ==
    /\ \A k \in 2..Len(queue[p]) : Joined(queue[p][k - 1], queue[p][k], skipped)
    /\ view[p] # <<>> /\ queue[p] # <<>> => Joined(LastOf(view[p]), queue[p][1], skipped)
UpToDate(p) ==
    IF queue[p] = <<>>
    THEN view[p] # <<>> => history # <<>> /\ LastOf(view[p]) = LastOf(history)
    ELSE \/ history = <<>> /\ LastOf(queue[p]) = Reset
         \/ history # <<>> /\ LastOf(queue[p]) = LastOf(history)
PageOK(p) ==
    /\ Attached(p)
    /\ sock[p] = "up" /\ shown[p] # "no" => Seamless(p) /\ (p \in subs => UpToDate(p))

ViewInv == TapeInv /\ ViewFaithful /\ \A p \in Pages : PageOK(p)

----------------------------------------------------------------------------
LEMMA UpTyped ==
    ASSUME TypeOK
    PROVE  /\ up \in Seq(Message) /\ gen \in Nat /\ down \in Seq(Commands)
           /\ history \in Seq(Nat) /\ history \in Seq(Lines)
           /\ reader # None => reader.gen \in Nat /\ reader.pos \in Nat
           /\ \A i \in DOMAIN up : up[i].gen \in Nat /\ (up[i].type = "log" => up[i].line \in Lines)
           /\ \A i \in DOMAIN down : down[i].gen \in Nat
           /\ \A g \in ended : g \in Nat
           /\ Lines \subseteq Nat
<1>1. /\ up \in Seq(Message) /\ gen \in Nat /\ down \in Seq(Commands)
      /\ history \in Seq(Lines) /\ ended \subseteq Nat
      BY DEF TypeOK, Gens, Commands, Lines
<1>2. Lines \subseteq Nat BY ConstantsAssumption DEF Lines
<1>3. history \in Seq(Nat) BY <1>1, <1>2, Wider
<1>4. reader # None => reader.gen \in Nat /\ reader.pos \in Nat
      BY ConstantsAssumption DEF TypeOK, Stream, Gens
<1>5. \A i \in DOMAIN up : up[i] \in Message BY <1>1
<1>6. \A m \in Message : m.gen \in Nat /\ (m.type = "log" => m.line \in Lines)
      BY DEF Message, Gens, Lines
<1>7. \A i \in DOMAIN down : down[i] \in Commands BY <1>1
<1>8. \A i \in DOMAIN down : down[i].gen \in Nat BY <1>7 DEF Commands, Gens
<1> QED BY <1>1, <1>2, <1>3, <1>4, <1>5, <1>6, <1>8

LEMMA NewestRow ==
    ASSUME NEW S, NEW s \in Seq(Nat), Row(s, S), s # <<>>
    PROVE  LET n == Newest(s, Kept) IN Row(n, S) /\ n # <<>> /\ LastOf(n) = LastOf(s)
<1> DEFINE f == IF Len(s) > Kept THEN Len(s) - Kept + 1 ELSE 1
           n == SubSeq(s, f, Len(s))
<1>1. Kept \in Nat \ {0} BY ConstantsAssumption
<1>2. f \in 1..Len(s) BY <1>1
<1>3. Newest(s, Kept) = n BY DEF Newest
<1> HIDE DEF f
<1>4. n \in Seq(Nat) /\ Len(n) = Len(s) - f + 1 /\ \A k \in 1..Len(n) : n[k] = s[f + k - 1]
      BY <1>2
<1>5. \A k \in 2..Len(n) : n[k] = s[f + k - 1] /\ n[k - 1] = s[f + k - 2] /\ f + k - 1 \in 2..Len(s)
      BY <1>2, <1>4
<1>6. Row(n, S)
  <2> SUFFICES ASSUME NEW k \in 2..Len(n) PROVE After(n[k - 1], n[k], S) BY DEF Row
  <2>1. f + k - 1 \in 2..Len(s) /\ (f + k - 1) - 1 = f + k - 2 BY <1>2, <1>5
  <2> QED BY <1>5, <2>1 DEF Row
<1> HIDE DEF n
<1>7. Len(n) \in 1..Len(n) /\ f + Len(n) - 1 = Len(s) /\ n # <<>> BY <1>2, <1>4
<1>8. n[Len(n)] = s[Len(s)] BY <1>4, <1>7
<1> QED BY <1>3, <1>6, <1>7, <1>8 DEF LastOf, n

LEMMA RowGrows ==
    ASSUME NEW S, NEW s \in Seq(Nat), Row(s, S), NEW l \in Nat, s = <<>> \/ After(LastOf(s), l, S)
    PROVE  Row(Append(s, l), S) /\ LastOf(Append(s, l)) = l /\ Append(s, l) # <<>>
<1>1. Len(Append(s, l)) = Len(s) + 1 /\ Append(s, l)[Len(s) + 1] = l
      /\ \A k \in 1..Len(s) : Append(s, l)[k] = s[k]
      OBVIOUS
<1>2. ASSUME NEW k \in 2..(Len(s) + 1) PROVE After(Append(s, l)[k - 1], Append(s, l)[k], S)
  <2>1. CASE k = Len(s) + 1
    <3>1. s # <<>> /\ Len(s) \in 1..Len(s) /\ k - 1 = Len(s) BY <2>1
    <3>2. After(s[Len(s)], l, S) BY <3>1 DEF LastOf
    <3> QED BY <1>1, <2>1, <3>1, <3>2
  <2>2. CASE k # Len(s) + 1
    <3>1. k \in 2..Len(s) /\ k - 1 \in 1..Len(s) /\ k \in 1..Len(s) BY <2>2
    <3> QED BY <1>1, <3>1 DEF Row
  <2> QED BY <2>1, <2>2
<1>3. LastOf(Append(s, l)) = l /\ Append(s, l) # <<>> BY <1>1 DEF LastOf
<1>4. Row(Append(s, l), S) BY <1>1, <1>2 DEF Row
<1> QED BY <1>3, <1>4

\* More lines that were dropped: what came after one another still does.
LEMMA MoreDropped ==
    ASSUME NEW S, NEW T, S \subseteq T
    PROVE  /\ \A s : Row(s, S) => Row(s, T)
           /\ \A a, b : Joined(a, b, S) => Joined(a, b, T)
BY DEF Row, Joined, After

LEMMA PutWhole ==
    ASSUME NEW S, NEW q \in Seq(S), NEW ms \in Seq(S), Len(q) <= QueueMax,
           Len(Put(q, ms)) < QueueMax
    PROVE  Put(q, ms) = q \o ms
<1> DEFINE n == IF Len(q) + Len(ms) <= QueueMax THEN Len(ms) ELSE QueueMax - Len(q)
<1>1. QueueMax \in Nat BY ConstantsAssumption
<1>2. n \in 0..Len(ms) BY <1>1
<1>3. SubSeq(ms, 1, n) \in Seq(S) /\ Len(SubSeq(ms, 1, n)) = n BY <1>2, Prefix
<1>4. Put(q, ms) = q \o SubSeq(ms, 1, n) BY DEF Put
<1>5. Len(q) + n < QueueMax
  <2> HIDE DEF n
  <2> QED BY <1>2, <1>3, <1>4
<1>6. n = Len(ms) BY <1>1, <1>5
<1>7. SubSeq(ms, 1, Len(ms)) = ms OBVIOUS
<1> QED BY <1>4, <1>6, <1>7

----------------------------------------------------------------------------
(* Pieces of the log.                                                      *)

\* Less is on its way: what is missing was dropped, or comes after all that is left of a
\* stream that is over.
LEMMA WholeLess ==
    ASSUME NEW K, NEW C, NEW P, NEW S, NEW L \in SUBSET K, NEW D \in SUBSET C,
           NEW Q \in SUBSET P, NEW T, S \subseteq T, Whole(K, C, P, S),
           \A c \in C \ D : c \in T \/ (Q = {} /\ \A d \in D : d \in Nat /\ c \in Nat /\ d < c)
    PROVE  Whole(L, D, Q, T)
<1>1. ASSUME NEW n \in Lines, \E a \in L \cup D : a < n,
             (\E c \in D : n < c) \/ (\E p \in Q : n <= p)
      PROVE  n \in D \cup T
  <2>1. n \in C \cup S BY <1>1 DEF Whole
  <2>2. CASE n \in C \ D
    <3>1. n \in Nat BY ConstantsAssumption DEF Lines
    <3>2. ASSUME Q = {}, \A d \in D : d \in Nat /\ n \in Nat /\ d < n PROVE FALSE
      <4>1. PICK c \in D : n < c BY <1>1, <3>2
      <4>2. c < n /\ c \in Nat BY <3>2, <4>1
      <4> QED BY <3>1, <4>1, <4>2
    <3> QED BY <2>2, <3>2
  <2> QED BY <2>1, <2>2
<1> QED BY <1>1 DEF Whole

\* The first of the lines on their way arrives.
LEMMA WholeArrives ==
    ASSUME NEW K \in SUBSET Lines, NEW C \in SUBSET Lines, NEW P \in SUBSET Nat, NEW S,
           Whole(K, C, P, S), NEW l \in C, \A c \in C \ {l} : l < c
    PROVE  /\ Whole({l}, C \ {l}, P, S)
           /\ \A k \in K : After(k, l, S)
<1>0. Lines \subseteq Nat BY ConstantsAssumption DEF Lines
<1>1. ASSUME NEW n \in Lines, \E a \in {l} \cup (C \ {l}) : a < n,
             (\E c \in C \ {l} : n < c) \/ (\E p \in P : n <= p)
      PROVE  n \in (C \ {l}) \cup S
  <2>1. l < n BY <1>0, <1>1
  <2>2. n \in C \cup S BY <1>1, <2>1 DEF Whole
  <2>3. n # l BY <1>0, <2>1
  <2> QED BY <2>2, <2>3
<1>2. Whole({l}, C \ {l}, P, S) BY <1>1 DEF Whole
<1>3. ASSUME NEW k \in K PROVE After(k, l, S)
  <2>1. k < l BY DEF Whole
  <2>2. ASSUME NEW n \in (k + 1)..(l - 1) PROVE n \in S
    <3>0. k \in Lines /\ l \in Lines /\ k \in Nat /\ l \in Nat BY <1>0
    <3>1. n \in Lines /\ k < n /\ n < l BY <3>0, ConstantsAssumption DEF Lines
    <3>2. n \in C \cup S BY <3>1 DEF Whole
    <3>3. n \notin C BY <1>0, <3>1
    <3> QED BY <3>2, <3>3
  <2> QED BY <2>1, <2>2 DEF After
<1> QED BY <1>2, <1>3

\* The agent comes from p to q.
LEMMA WholeMore ==
    ASSUME NEW K \in SUBSET Lines, NEW C \in SUBSET Lines, NEW p \in Nat, NEW q \in Nat,
           p <= q, NEW S, Whole(K, C, {p}, S)
    PROVE  Whole(K, C \cup ((p + 1)..q), {q}, S)
<1>0. Lines \subseteq Nat BY ConstantsAssumption DEF Lines
<1> DEFINE D == (p + 1)..q
<1>1. \A c \in K \cup C : c <= p /\ c \in Nat BY <1>0 DEF Whole
<1>2. \A d \in D : d \in Nat /\ p < d /\ d <= q OBVIOUS
<1>3. \A k \in K, c \in C : k < c BY DEF Whole
<1>4. \A n \in Nat : n <= q /\ p < n => n \in D OBVIOUS
<1> HIDE DEF D
<1>5. ASSUME NEW n \in Lines, \E a \in K \cup (C \cup D) : a < n,
             (\E c \in C \cup D : n < c) \/ n <= q
      PROVE  n \in (C \cup D) \cup S
  <2>1. n \in Nat BY <1>0
  <2>2. n <= q BY <1>1, <1>2, <1>5, <2>1
  <2>3. CASE p < n BY <1>4, <2>1, <2>2, <2>3
  <2>4. CASE n <= p
    <3>1. \E a \in K \cup C : a < n BY <1>2, <1>5, <2>1, <2>4
    <3> QED BY <2>4, <3>1 DEF Whole
  <2> QED BY <2>1, <2>3, <2>4
<1>6. \A k \in K, c \in C \cup D : k < c BY <1>1, <1>2, <1>3
<1>7. \A c \in K \cup (C \cup D) : c <= q BY <1>1, <1>2
<1>8. Whole(K, C \cup D, {q}, S) BY <1>5, <1>6, <1>7 DEF Whole
<1> QED BY <1>8 DEF D

LEMMA LinesTyped ==
    ASSUME NEW s \in Seq(Message), NEW g
    PROVE  LinesOf(s, g) \subseteq Lines
<1>1. \A i \in DOMAIN s : s[i] \in Message OBVIOUS
<1>2. \A m \in Message : m.type = "log" => m.line \in Lines BY DEF Message, Lines
<1> QED BY <1>1, <1>2 DEF LinesOf, IsLine

\* What is left after a drop is in order, and the lines that are missing were dropped.
LEMMA SpillLines ==
    ASSUME NEW s \in Seq(Message), NEW n \in 0..Len(s), NEW k \in 0..n, Spill(s, n, k), NEW g
    PROVE  /\ Ordered(s, g) => Ordered(up', g)
           /\ LinesOf(up', g) \subseteq LinesOf(s, g)
           /\ \A l \in LinesOf(s, g) \ LinesOf(up', g) : l \in skipped'
           /\ skipped \subseteq skipped'
           /\ \A i \in DOMAIN up' : \E j \in DOMAIN s : up'[i] = s[j]
<1>1. PICK u : u = up' OBVIOUS
<1>2. PICK S : S = skipped' OBVIOUS
<1>3. /\ skipped \subseteq S
      /\ \E f \in [DOMAIN u -> DOMAIN s] :
            /\ \A i \in DOMAIN u : u[i] = s[f[i]]
            /\ \A i, j \in DOMAIN u : i < j => f[i] < f[j]
            /\ \A i \in DOMAIN s :
                  (\E j \in DOMAIN u : f[j] = i) \/ (s[i].type = "log" => s[i].line \in S)
      BY <1>1, <1>2, Spills
<1>4. PICK f \in [DOMAIN u -> DOMAIN s] :
         /\ \A i \in DOMAIN u : u[i] = s[f[i]]
         /\ \A i, j \in DOMAIN u : i < j => f[i] < f[j]
         /\ \A i \in DOMAIN s :
               (\E j \in DOMAIN u : f[j] = i) \/ (s[i].type = "log" => s[i].line \in S)
      BY <1>3
<1>5. Ordered(s, g) => Ordered(u, g) BY <1>4 DEF Ordered
<1>6. LinesOf(u, g) \subseteq LinesOf(s, g) BY <1>4 DEF LinesOf
<1>7. ASSUME NEW l \in LinesOf(s, g), l \notin LinesOf(u, g) PROVE l \in S
  <2>1. PICK i \in DOMAIN s : IsLine(s[i], g) /\ l = s[i].line BY DEF LinesOf
  <2>2. ~ \E j \in DOMAIN u : f[j] = i BY <1>4, <1>7, <2>1 DEF LinesOf
  <2> QED BY <1>4, <2>1, <2>2 DEF IsLine
<1>8. \A i \in DOMAIN u : \E j \in DOMAIN s : u[i] = s[j] BY <1>4
<1> QED BY <1>1, <1>2, <1>3, <1>5, <1>6, <1>7, <1>8

\* The messages u have the lines of s and then those of t.
Both(u, s, t, g) ==
    /\ LinesOf(u, g) = LinesOf(s, g) \cup LinesOf(t, g)
    /\ /\ Ordered(s, g) /\ Ordered(t, g)
       /\ \A a \in LinesOf(s, g), b \in LinesOf(t, g) : a < b
       => Ordered(u, g)
    /\ \A i \in DOMAIN u : \/ \E j \in DOMAIN s : u[i] = s[j]
                           \/ \E j \in DOMAIN t : u[i] = t[j]

LEMMA JoinedLines ==
    ASSUME NEW s \in Seq(Message), NEW t \in Seq(Message), NEW u, u = s \o t, NEW g
    PROVE  Both(u, s, t, g)
<1>1. /\ DOMAIN u = 1..(Len(s) + Len(t)) /\ \A i \in 1..Len(s) : u[i] = s[i]
      /\ \A i \in 1..Len(t) : u[Len(s) + i] = t[i]
      BY Joins
<1>2. /\ Len(s) \in Nat /\ Len(t) \in Nat /\ DOMAIN s = 1..Len(s) /\ DOMAIN t = 1..Len(t)
      OBVIOUS
<1> DEFINE at(i) == i - Len(s)
<1>3. ASSUME NEW i \in DOMAIN u
      PROVE  \/ i \in DOMAIN s /\ u[i] = s[i]
             \/ /\ i \notin DOMAIN s /\ at(i) \in DOMAIN t /\ u[i] = t[at(i)]
                /\ \A j \in DOMAIN s : j < i
  <2>1. CASE i \in 1..Len(s) BY <1>1, <1>2, <2>1
  <2>2. CASE i \notin 1..Len(s)
    <3>1. PICK k : k = i - Len(s) OBVIOUS
    <3>2. k \in 1..Len(t) /\ i = Len(s) + k BY <1>1, <1>2, <2>2, <3>1
    <3>3. u[i] = t[k] BY <1>1, <3>2
    <3>4. \A j \in 1..Len(s) : j < i BY <1>2, <3>2
    <3> QED BY <1>2, <2>2, <3>1, <3>2, <3>3, <3>4
  <2> QED BY <2>1, <2>2
<1>4. \A i \in DOMAIN s : i \in DOMAIN u /\ u[i] = s[i] BY <1>1, <1>2
<1>5. \A i \in DOMAIN t : Len(s) + i \in DOMAIN u /\ u[Len(s) + i] = t[i] BY <1>1, <1>2
<1>6. \A i, j \in DOMAIN u : i < j => at(i) < at(j) BY <1>1, <1>2
<1>7. \A i \in DOMAIN u : i \in Nat /\ \A j \in DOMAIN u : i < j => ~(j < i) BY <1>1, <1>2
<1> HIDE DEF at
<1>8. LinesOf(u, g) = LinesOf(s, g) \cup LinesOf(t, g)
  <2>1. LinesOf(s, g) \subseteq LinesOf(u, g) BY <1>4 DEF LinesOf
  <2>2. ASSUME NEW i \in DOMAIN t, IsLine(t[i], g) PROVE t[i].line \in LinesOf(u, g)
    <3>1. PICK k \in DOMAIN u : u[k] = t[i] BY <1>5
    <3> QED BY <2>2, <3>1 DEF LinesOf
  <2>3. LinesOf(t, g) \subseteq LinesOf(u, g) BY <2>2 DEF LinesOf
  <2>4. ASSUME NEW i \in DOMAIN u, IsLine(u[i], g)
        PROVE  u[i].line \in LinesOf(s, g) \cup LinesOf(t, g)
    <3>1. CASE i \in DOMAIN s BY <1>4, <2>4, <3>1 DEF LinesOf
    <3>2. CASE i \notin DOMAIN s
      <4>1. PICK k \in DOMAIN t : u[i] = t[k] BY <1>3, <3>2
      <4> QED BY <2>4, <4>1 DEF LinesOf
    <3> QED BY <3>1, <3>2
  <2>5. LinesOf(u, g) \subseteq LinesOf(s, g) \cup LinesOf(t, g) BY <2>4 DEF LinesOf
  <2> QED BY <2>1, <2>3, <2>5
<1>9. ASSUME Ordered(s, g), Ordered(t, g),
             \A a \in LinesOf(s, g), b \in LinesOf(t, g) : a < b,
             NEW i \in DOMAIN u, NEW j \in DOMAIN u, i < j, IsLine(u[i], g), IsLine(u[j], g)
      PROVE  u[i].line < u[j].line
  <2>1. CASE i \in DOMAIN s /\ j \in DOMAIN s BY <1>4, <1>9, <2>1 DEF Ordered
  <2>2. CASE i \in DOMAIN s /\ j \notin DOMAIN s
    <3>1. u[i].line \in LinesOf(s, g) BY <1>4, <1>9, <2>2 DEF LinesOf
    <3>2. u[j].line \in LinesOf(t, g) BY <1>3, <1>9, <2>2 DEF LinesOf
    <3> QED BY <1>9, <3>1, <3>2
  <2>3. CASE i \notin DOMAIN s /\ j \in DOMAIN s BY <1>3, <1>7, <1>9, <2>3
  <2>4. CASE i \notin DOMAIN s /\ j \notin DOMAIN s
    <3>1. at(i) \in DOMAIN t /\ at(j) \in DOMAIN t /\ u[i] = t[at(i)] /\ u[j] = t[at(j)]
          BY <1>3, <2>4
    <3> QED BY <1>6, <1>9, <3>1 DEF Ordered
  <2> QED BY <2>1, <2>2, <2>3, <2>4
<1>10. \A i \in DOMAIN u : \/ \E j \in DOMAIN s : u[i] = s[j]
                           \/ \E j \in DOMAIN t : u[i] = t[j]
       BY <1>3
<1>11. /\ Ordered(s, g) /\ Ordered(t, g)
       /\ \A a \in LinesOf(s, g), b \in LinesOf(t, g) : a < b
       => Ordered(u, g)
       BY <1>9 DEF Ordered
<1> QED BY <1>8, <1>10, <1>11 DEF Both

LEMMA TapeTyped ==
    ASSUME TypeOK
    PROVE  /\ Latest \subseteq Lines /\ Position \subseteq Nat
           /\ LinesOf(up, gen) \subseteq Lines /\ Lines \subseteq Nat
<1>1. up \in Seq(Message) /\ history \in Seq(Lines) /\ Lines \subseteq Nat BY UpTyped
<1>2. history # <<>> => LastOf(history) \in Lines BY <1>1 DEF LastOf
<1>3. Position \subseteq Nat BY UpTyped DEF Position
<1> QED BY <1>1, <1>2, <1>3, LinesTyped DEF Latest

----------------------------------------------------------------------------
(* The log, from the agent to what is kept.                                *)

\* Nothing that carries the log moves, but the stream may be given up.
LEMMA TapeQuiet ==
    ASSUME TypeOK, TapeInv, UNCHANGED <<up, skipped, reader, gen, cut>>, ended' \subseteq ended,
           \/ down' = down \/ \E g \in Gens : down' = Sent("log_unsubscribe", g),
           UNCHANGED <<wanted, history>> \/ (~wanted' /\ history' \in {history, <<>>})
    PROVE  TapeInv'
<1>1. InOrder' BY DEF TapeInv, InOrder, Latest, Position
<1>2. Row(history, skipped)' BY DEF TapeInv, Row
<1>3. \A i \in DOMAIN down' : Asks(i)' =>
         i \in DOMAIN down /\ Asks(i) /\ down'[i] = down[i]
      /\ \A k \in DOMAIN down' : k < i => k \in DOMAIN down /\ down'[k] = down[k]
  <2>1. CASE down' = down BY <2>1, UpTyped DEF Asks
  <2>2. ASSUME NEW g \in Gens, down' = Sent("log_unsubscribe", g), down' # down
        PROVE  <1>3!:
    <3> DEFINE c == [type |-> "log_unsubscribe", gen |-> g]
    <3>1. c \in Commands /\ c.type # "log_subscribe" /\ down \in Seq(Commands)
          BY UpTyped DEF Commands
    <3>2. down' = Append(down, c) BY <2>2 DEF Sent
    <3> HIDE DEF c
    <3>3. \A i \in DOMAIN down' :
             \/ i \in DOMAIN down /\ down'[i] = down[i]
             \/ i = Len(down) + 1 /\ down'[i] = c
          BY <3>1, <3>2, AppendKeeps
    <3>4. \A k \in DOMAIN down' : k < Len(down) + 1 => k \in DOMAIN down
          BY <3>1, <3>2, <3>3
    <3>5. \A i \in DOMAIN down : i < Len(down) + 1 /\ i \in Nat BY <3>1
    <3>6. \A k \in DOMAIN down' : k \in Nat BY <3>1, <3>2
    <3> QED BY <3>1, <3>3, <3>4, <3>5, <3>6 DEF Asks
  <2> QED BY <2>1, <2>2
<1>4. Numbered'
  <2>1. ASSUME NEW i \in DOMAIN down', Asks(i)' PROVE Fresh(i)'
        BY <1>3, <2>1 DEF TapeInv, Numbered, Fresh, Asks
  <2> QED BY <2>1 DEF TapeInv, Numbered
<1> QED BY <1>1, <1>2, <1>4 DEF TapeInv

\* A stream of which nothing came yet is whole.
LEMMA WholeNew ==
    ASSUME NEW P, NEW S
    PROVE  Whole({}, {}, P, S)
BY DEF Whole

LEMMA NoLines ==
    ASSUME NEW s, NEW g, \A i \in DOMAIN s : ~IsLine(s[i], g)
    PROVE  LinesOf(s, g) = {} /\ Ordered(s, g)
BY DEF LinesOf, Ordered

\* A new stream is asked for, or none while there is no connection.
LEMMA TapeBegins ==
    ASSUME TypeOK, TapeInv, gen' = gen + 1, history' = <<>>, skipped' = skipped,
           \/ /\ UNCHANGED <<up, reader, ended, cut>>
              /\ down' = down \/ down' = Sent("log_subscribe", gen + 1)
           \/ up' = <<>> /\ reader' = None /\ ended' = {}
              /\ down' = <<[type |-> "log_subscribe", gen |-> gen + 1]>>
    PROVE  TapeInv'
<1>0. gen \in Nat /\ Numbered BY UpTyped DEF TapeInv
<1>1. /\ \A i \in DOMAIN up' : up'[i].gen < gen'
      /\ reader' # None => reader'.gen < gen'
      /\ \A g \in ended' : g < gen'
      BY <1>0, UpTyped DEF Numbered
<1>2. InOrder'
  <2>1. \A i \in DOMAIN up' : ~IsLine(up'[i], gen') BY <1>0, <1>1 DEF IsLine
  <2>2. PICK u, g : u = up' /\ g = gen' OBVIOUS
  <2>3. LinesOf(u, g) = {} /\ Ordered(u, g) BY <2>1, <2>2, NoLines
  <2>4. Latest' = {} BY DEF Latest
  <2>5. Whole({}, {}, Position', skipped') BY WholeNew
  <2> QED BY <2>2, <2>3, <2>4, <2>5 DEF InOrder
<1>3. Row(history, skipped)' BY DEF Row
<1>4. ASSUME NEW i \in DOMAIN down', Asks(i)' PROVE Fresh(i)'
  <2> DEFINE c == [type |-> "log_subscribe", gen |-> gen + 1]
  <2>1. \/ down' \in {down, Append(down, c)} /\ up' = up /\ reader' = reader
        \/ down' = <<c>> /\ reader' = None /\ up' = <<>>
        BY DEF Sent
  <2>2. down \in Seq(Commands) /\ c \in Commands /\ c.gen = gen'
        BY UpTyped DEF Commands, Gens
  <2>3. \A k \in DOMAIN down : Asks(k) => down[k].gen < gen'
        BY <1>0, UpTyped DEF Numbered, Fresh
  <2> HIDE DEF c
  <2>4. CASE down' = <<c>> /\ reader' = None /\ up' = <<>>
    <3>1. i = 1 /\ down'[1] = c /\ \A k \in DOMAIN down' : ~(k < i) BY <2>4
    <3> QED BY <2>2, <2>4, <3>1, <1>0 DEF Fresh
  <2>5. CASE /\ i \in DOMAIN down /\ (down' = down \/ down' = Append(down, c))
             /\ up' = up /\ reader' = reader
    <3>1. /\ down'[i] = down[i]
          /\ \A k \in DOMAIN down' : k < i => k \in DOMAIN down /\ down'[k] = down[k]
      <4>1. CASE down' = down BY <4>1
      <4>2. CASE down' = Append(down, c) BY <2>2, <2>5, <4>2
      <4> QED BY <2>5, <4>1, <4>2
    <3>2. Asks(i) BY <1>4, <3>1 DEF Asks
    <3> QED BY <1>0, <2>3, <2>5, <3>1, <3>2, UpTyped DEF Numbered, Fresh, Asks
  <2>6. CASE i = Len(down) + 1 /\ down' = Append(down, c) /\ up' = up /\ reader' = reader
    <3>1. /\ down'[i] = c
          /\ \A k \in DOMAIN down' : k < i => k \in DOMAIN down /\ down'[k] = down[k]
          BY <2>2, <2>6
    <3> QED BY <1>0, <1>1, <2>2, <2>3, <2>6, <3>1, UpTyped DEF Fresh, Asks
  <2>7. down' = Append(down, c) => i \in DOMAIN down \/ i = Len(down) + 1
        BY <2>2, AppendKeeps
  <2> QED BY <2>1, <2>4, <2>5, <2>6, <2>7
<1>6. cut' => reader' = None BY <1>0 DEF Numbered
<1>5. Numbered' BY <1>0, <1>1, <1>4, <1>6, UpTyped DEF Numbered
<1> QED BY <1>2, <1>3, <1>5 DEF TapeInv

LEMMA TailLines ==
    ASSUME NEW s \in Seq(Message), s # <<>>, NEW u, u = Tail(s), NEW g
    PROVE  /\ 1 \in DOMAIN s /\ Head(s) = s[1]
           /\ Ordered(s, g) => Ordered(u, g)
           /\ ~IsLine(s[1], g) => LinesOf(u, g) = LinesOf(s, g)
           /\ IsLine(s[1], g) /\ Ordered(s, g) =>
                 /\ s[1].line \in LinesOf(s, g) /\ LinesOf(u, g) = LinesOf(s, g) \ {s[1].line}
                 /\ \A c \in LinesOf(s, g) \ {s[1].line} : s[1].line < c
<1>1. /\ 1 \in DOMAIN s /\ Head(s) = s[1]
      /\ \A i \in DOMAIN u : i \in Nat \ {0} /\ i + 1 \in DOMAIN s /\ u[i] = s[i + 1]
      BY TailMoves
<1>2. \A j \in DOMAIN s : j # 1 => \E i \in DOMAIN u : u[i] = s[j]
  <2> SUFFICES ASSUME NEW j \in DOMAIN s, j # 1 PROVE \E i \in DOMAIN u : u[i] = s[j] OBVIOUS
  <2>1. j \in 2..Len(s) /\ Len(u) = Len(s) - 1 /\ DOMAIN u = 1..Len(u) OBVIOUS
  <2>2. j - 1 \in DOMAIN u /\ (j - 1) + 1 = j BY <2>1
  <2> QED BY <1>1, <2>2
<1>3. \A j \in DOMAIN s : j \in Nat \ {0} OBVIOUS
<1>4. Ordered(s, g) => Ordered(u, g) BY <1>1 DEF Ordered
<1>5. LinesOf(u, g) \subseteq LinesOf(s, g) BY <1>1 DEF LinesOf
<1>6. ~IsLine(s[1], g) => LinesOf(u, g) = LinesOf(s, g)
  <2> SUFFICES ASSUME ~IsLine(s[1], g) PROVE LinesOf(s, g) \subseteq LinesOf(u, g) BY <1>5
  <2> SUFFICES ASSUME NEW j \in DOMAIN s, IsLine(s[j], g) PROVE s[j].line \in LinesOf(u, g)
      BY DEF LinesOf
  <2>1. PICK i \in DOMAIN u : u[i] = s[j] BY <1>2
  <2> QED BY <2>1 DEF LinesOf
<1>7. ASSUME IsLine(s[1], g), Ordered(s, g)
      PROVE  /\ s[1].line \in LinesOf(s, g) /\ LinesOf(u, g) = LinesOf(s, g) \ {s[1].line}
             /\ \A c \in LinesOf(s, g) \ {s[1].line} : s[1].line < c
  <2>1. \A m \in Message : m.type = "log" => m.line \in Nat
        BY ConstantsAssumption DEF Message
  <2>2. s[1].line \in Nat BY <1>1, <1>7, <2>1 DEF IsLine
  <2>3. \A j \in DOMAIN s : j # 1 /\ IsLine(s[j], g) => s[1].line < s[j].line
        BY <1>1, <1>3, <1>7 DEF Ordered
  <2>4. s[1].line \in LinesOf(s, g) BY <1>1, <1>7 DEF LinesOf
  <2>5. \A c \in LinesOf(s, g) \ {s[1].line} : s[1].line < c BY <2>3 DEF LinesOf
  <2>6. \A c \in LinesOf(s, g) \ {s[1].line} : c \in LinesOf(u, g)
    <3> SUFFICES ASSUME NEW j \in DOMAIN s, IsLine(s[j], g), j # 1
                 PROVE s[j].line \in LinesOf(u, g)
        BY DEF LinesOf
    <3>1. PICK i \in DOMAIN u : u[i] = s[j] BY <1>2
    <3> QED BY <3>1 DEF LinesOf
  <2>7. s[1].line \notin LinesOf(u, g)
    <3>1. \A i \in DOMAIN u : i + 1 # 1 BY <1>1
    <3>2. \A i \in DOMAIN u : IsLine(u[i], g) => s[1].line < u[i].line BY <1>1, <2>3, <3>1
    <3> QED BY <2>2, <3>2 DEF LinesOf
  <2> QED BY <1>5, <2>4, <2>5, <2>6, <2>7
<1> QED BY <1>1, <1>4, <1>6, <1>7

\* A line of the stream comes after what is kept, and nothing between them is missing but
\* what was dropped.
LEMMA NextLine ==
    ASSUME TypeOK, TapeInv, wanted, up # <<>>, IsLine(up[1], gen)
    PROVE  /\ history = <<>> \/ After(LastOf(history), up[1].line, skipped)
           /\ Whole({up[1].line}, LinesOf(up, gen) \ {up[1].line}, Position, skipped)
<1>1. up \in Seq(Message) /\ Latest \subseteq Lines /\ Position \subseteq Nat
      /\ LinesOf(up, gen) \subseteq Lines
      BY UpTyped, TapeTyped
<1>2. Ordered(up, gen) /\ Whole(Latest, LinesOf(up, gen), Position, skipped)
      BY DEF TapeInv, InOrder
<1>3. PICK l : l = up[1].line OBVIOUS
<1>4. PICK u : u = Tail(up) OBVIOUS
<1>5. l \in LinesOf(up, gen) /\ \A c \in LinesOf(up, gen) \ {l} : l < c
      BY <1>1, <1>2, <1>3, <1>4, TailLines
<1>6. /\ Whole({l}, LinesOf(up, gen) \ {l}, Position, skipped)
      /\ \A k \in Latest : After(k, l, skipped)
      BY <1>1, <1>2, <1>5, WholeArrives
<1> QED BY <1>3, <1>6 DEF Latest

LEMMA TapeReceive ==
    ASSUME TypeOK, Counted, TapeInv, Receive
    PROVE  TapeInv'
<1>1. /\ up \in Seq(Message) /\ up' = Tail(up) /\ Len(up) > held /\ held \in Nat
      /\ UNCHANGED <<gen, down, reader, ended, cut, skipped>>
      BY UpTyped, ConstantsAssumption DEF Receive, agentVars, linkVars, TypeOK
<1>2. up # <<>> BY <1>1
<1>3. /\ Head(up) = up[1] /\ 1 \in DOMAIN up
      /\ \A i \in DOMAIN up' : i + 1 \in DOMAIN up /\ up'[i] = up[i + 1]
      BY <1>1, <1>2, TailMoves
<1>4. ReceiveLog(up[1]) \/ ReceiveEnd(up[1]) BY <1>3 DEF Receive
<1>5. IsLine(up[1], gen) /\ wanted =>
         wanted' = wanted /\ history' = Newest(Append(history, up[1].line), Kept)
      BY <1>4 DEF ReceiveLog, ReceiveEnd, IsLine, Current, Counted
<1>6. ~IsLine(up[1], gen) \/ ~wanted =>
         UNCHANGED <<wanted, history>> \/ (~wanted' /\ history' = <<>>)
      BY <1>4 DEF ReceiveLog, ReceiveEnd, IsLine, Current, Counted
<1>7. PICK u : u = up' OBVIOUS
<1>8. /\ Ordered(up, gen) => Ordered(u, gen)
      /\ ~IsLine(up[1], gen) => LinesOf(u, gen) = LinesOf(up, gen)
      /\ IsLine(up[1], gen) /\ Ordered(up, gen) =>
            LinesOf(u, gen) = LinesOf(up, gen) \ {up[1].line}
      BY <1>1, <1>2, <1>7, TailLines
<1>9. ASSUME wanted, IsLine(up[1], gen)
      PROVE  Row(history', skipped) /\ history' # <<>> /\ LastOf(history') = up[1].line
  <2>1. up[1].line \in Nat /\ history \in Seq(Nat) BY <1>3, <1>9, UpTyped DEF IsLine
  <2>2. history = <<>> \/ After(LastOf(history), up[1].line, skipped)
        BY <1>2, <1>9, NextLine
  <2>3. PICK h : h = Append(history, up[1].line) OBVIOUS
  <2>4. h \in Seq(Nat) /\ Row(h, skipped) /\ h # <<>> /\ LastOf(h) = up[1].line
        BY <2>1, <2>2, <2>3, RowGrows DEF TapeInv
  <2>5. history' = Newest(h, Kept) BY <1>5, <1>9, <2>3
  <2> QED BY <2>4, <2>5, NewestRow
<1>10. Row(history, skipped)'
  <2>1. CASE IsLine(up[1], gen) /\ wanted BY <1>1, <1>9, <2>1
  <2>2. CASE ~(IsLine(up[1], gen) /\ wanted) BY <1>1, <1>6, <2>2 DEF Row, TapeInv
  <2> QED BY <2>1, <2>2
<1>11. InOrder'
  <2> SUFFICES ASSUME wanted'
               PROVE  Ordered(u, gen) /\ Whole(Latest', LinesOf(u, gen), Position', skipped)
      BY <1>1, <1>7 DEF InOrder
  <2>1. wanted BY <1>5, <1>6
  <2>2. Ordered(up, gen) /\ Whole(Latest, LinesOf(up, gen), Position, skipped)
        BY <2>1 DEF TapeInv, InOrder
  <2>3. Position' = Position BY <1>1 DEF Position
  <2>4. CASE IsLine(up[1], gen)
    <3>1. Latest' = {up[1].line} BY <1>9, <2>1, <2>4 DEF Latest
    <3>2. Whole({up[1].line}, LinesOf(up, gen) \ {up[1].line}, Position, skipped)
          BY <1>2, <2>1, <2>4, NextLine
    <3> QED BY <1>8, <2>2, <2>3, <2>4, <3>1, <3>2
  <2>5. CASE ~IsLine(up[1], gen)
    <3>1. Latest' = Latest BY <1>6, <2>5 DEF Latest
    <3> QED BY <1>8, <2>2, <2>3, <2>5, <3>1
  <2> QED BY <2>4, <2>5
<1>12. Numbered'
  <2>1. ASSUME NEW i \in DOMAIN down', Asks(i)' PROVE Fresh(i)'
    <3>1. i \in DOMAIN down /\ Asks(i) /\ Fresh(i)
          BY <1>1, <2>1 DEF Asks, TapeInv, Numbered
    <3>2. wanted' => wanted /\ (history = <<>> => history' = <<>> \/ IsLine(up[1], gen))
          BY <1>5, <1>6
    <3>3. down[i].gen = gen => ~IsLine(up[1], gen)
          BY <1>3, <3>1, UpTyped DEF Fresh, IsLine
    <3> QED BY <1>1, <1>3, <3>1, <3>2, <3>3 DEF Fresh, Asks
  <2> QED BY <1>1, <1>3, <2>1 DEF TapeInv, Numbered
<1> QED BY <1>10, <1>11, <1>12 DEF TapeInv

\* The messages s are under way, of which some are dropped then.
LEMMA TapePushed ==
    ASSUME TypeOK, TapeInv, NEW s \in Seq(Message), NEW n \in 0..Len(s), NEW k \in 0..n,
           Spill(s, n, k),
           UNCHANGED <<wanted, history, gen, down, cut>>, ended' \subseteq ended,
           reader' = None \/ (reader # None /\ reader' # None /\ reader'.gen = reader.gen),
           wanted => Ordered(s, gen) /\ Whole(Latest, LinesOf(s, gen), Position', skipped),
           \A i \in DOMAIN s : \/ \E j \in DOMAIN up : s[i] = up[j]
                               \/ /\ s[i].gen <= gen
                                  /\ s[i].type = "log" => reader # None /\ s[i].gen = reader.gen
    PROVE  TapeInv'
<1>1. PICK u, S : u = up' /\ S = skipped' OBVIOUS
<1>2. /\ Ordered(s, gen) => Ordered(u, gen)
      /\ LinesOf(u, gen) \subseteq LinesOf(s, gen)
      /\ \A l \in LinesOf(s, gen) \ LinesOf(u, gen) : l \in S
      /\ skipped \subseteq S
      /\ \A i \in DOMAIN u : \E j \in DOMAIN s : u[i] = s[j]
      BY <1>1, SpillLines
<1>3. InOrder'
  <2> SUFFICES ASSUME wanted
               PROVE  Ordered(u, gen) /\ Whole(Latest', LinesOf(u, gen), Position', S)
      BY <1>1 DEF InOrder
  <2>1. PICK P : P = Position' OBVIOUS
  <2>2. Latest' = Latest BY DEF Latest
  <2>3. Whole(Latest, LinesOf(s, gen), P, skipped) BY <2>1
  <2>4. Whole(Latest, LinesOf(u, gen), P, S) BY <1>2, <2>3, WholeLess
  <2> QED BY <1>2, <2>1, <2>2, <2>4
<1>4. Row(history, skipped)'
  <2>1. Row(history, S) BY <1>2, MoreDropped DEF TapeInv
  <2> QED BY <1>1, <2>1
<1>5. Numbered'
  <2>1. \A i \in DOMAIN u : \/ \E j \in DOMAIN up : u[i] = up[j]
                            \/ /\ u[i].gen <= gen
                               /\ u[i].type = "log" => reader # None /\ u[i].gen = reader.gen
        BY <1>2
  <2>2. \A i \in DOMAIN u : u[i].gen <= gen BY <2>1 DEF TapeInv, Numbered
  <2>3. ASSUME NEW i \in DOMAIN down', Asks(i)' PROVE Fresh(i)'
    <3>1. i \in DOMAIN down /\ Asks(i) /\ Fresh(i)
          BY <2>3 DEF Asks, TapeInv, Numbered
    <3>2. \A j \in DOMAIN u : u[j].type = "log" => u[j].gen < down[i].gen
          BY <2>1, <3>1 DEF Fresh
    <3> QED BY <1>1, <3>1, <3>2 DEF Fresh, Asks
  <2> QED BY <1>1, <2>2, <2>3 DEF TapeInv, Numbered
<1> QED BY <1>3, <1>4, <1>5 DEF TapeInv

\* The agent reads on.
LEMMA TapeLine ==
    ASSUME TypeOK, TapeInv, ReadLine
    PROVE  TapeInv'
<1> DEFINE e(i) == [type |-> "log", gen |-> reader.gen, line |-> reader.pos + i]
<1>1. /\ reader # None /\ UNCHANGED <<wanted, history, gen, down, ended, cut>>
      /\ reader.gen <= gen /\ ~cut
      BY DEF ReadLine, cpVars, linkVars, TapeInv, Numbered
<1>2. PICK n \in 1..(lines - reader.pos) :
         reader' = [reader EXCEPT !.pos = @ + n] /\ Push([i \in 1..n |-> e(i)])
      BY DEF ReadLine
<1>3. /\ reader' \in Stream /\ reader'.gen = reader.gen /\ reader'.pos = reader.pos + n
      /\ [i \in 1..n |-> e(i)] \in Seq(Message)
      BY <1>1, <1>2, ReadTyped
<1>4. reader' # None BY <1>3, StreamAssumption
<1>5. \A i \in 1..n : e(i).type = "log" /\ e(i).gen = reader.gen /\ e(i).line = reader.pos + i
      OBVIOUS
<1> HIDE DEF e
<1>6. PICK ms \in Seq(Message) : ms = [i \in 1..n |-> e(i)] BY <1>3
<1>7. DOMAIN ms = 1..n /\ \A i \in 1..n : ms[i] = e(i) BY <1>6
<1>8. up \in Seq(Message) /\ reader.pos \in Nat /\ reader.gen \in Nat /\ gen \in Nat
      BY <1>1, UpTyped
<1>9. n \in Nat
  <2>1. lines \in Int BY ConstantsAssumption DEF TypeOK
  <2> QED BY <1>8, <2>1
<1>10. PICK s \in Seq(Message) : s = up \o ms
  <2>1. up \o ms \in Seq(Message) BY <1>8
  <2> QED BY <2>1
<1>11. PICK a \in 0..Len(s) : \E k \in 0..a : Spill(s, a, k)
  <2>1. \E a \in 0..Len(up \o ms) : \E k \in 0..a : Spill(up \o ms, a, k)
        BY <1>1, <1>2, <1>6, Pushes
  <2> QED BY <1>10, <2>1
<1>12. PICK k \in 0..a : Spill(s, a, k) BY <1>11
<1>13. PICK p \in Nat, q \in Nat : p = reader.pos /\ q = p + n BY <1>8, <1>9
<1>14. reader.gen = gen => LinesOf(ms, gen) = (p + 1)..q
  <2> SUFFICES ASSUME reader.gen = gen PROVE LinesOf(ms, gen) = (p + 1)..q OBVIOUS
  <2>1. \A i \in 1..n : IsLine(ms[i], gen) /\ ms[i].line = p + i
        BY <1>5, <1>7, <1>13 DEF IsLine
  <2>2. LinesOf(ms, gen) \subseteq (p + 1)..q
    <3> SUFFICES ASSUME NEW i \in 1..n PROVE ms[i].line \in (p + 1)..q BY <1>7 DEF LinesOf
    <3>1. i \in Nat /\ 1 <= i /\ i <= n BY <1>9
    <3>2. p + i \in (p + 1)..q BY <1>9, <1>13, <3>1
    <3> QED BY <2>1, <3>2
  <2>3. ASSUME NEW l \in (p + 1)..q PROVE l \in LinesOf(ms, gen)
    <3>1. PICK i : i = l - p OBVIOUS
    <3>2. l \in Nat /\ p + 1 <= l /\ l <= p + n BY <1>9, <1>13
    <3>3. i \in 1..n /\ l = p + i BY <1>9, <3>1, <3>2
    <3> QED BY <1>7, <2>1, <3>3 DEF LinesOf
  <2> QED BY <2>2, <2>3
<1>15. reader.gen # gen => LinesOf(ms, gen) = {}
       BY <1>5, <1>7 DEF LinesOf, IsLine
<1>16. Ordered(ms, gen)
  <2> SUFFICES ASSUME NEW i \in 1..n, NEW j \in 1..n, i < j PROVE ms[i].line < ms[j].line
      BY <1>7 DEF Ordered
  <2>1. ms[i].line = p + i /\ ms[j].line = p + j BY <1>5, <1>7, <1>13
  <2> QED BY <1>9, <2>1
<1>17. /\ LinesOf(s, gen) = LinesOf(up, gen) \cup LinesOf(ms, gen)
       /\ /\ Ordered(up, gen) /\ Ordered(ms, gen)
          /\ \A c \in LinesOf(up, gen), d \in LinesOf(ms, gen) : c < d
          => Ordered(s, gen)
       /\ \A i \in DOMAIN s : \/ \E j \in DOMAIN up : s[i] = up[j]
                              \/ \E j \in DOMAIN ms : s[i] = ms[j]
  <2>1. Both(s, up, ms, gen) BY <1>8, <1>10, JoinedLines
  <2> QED BY <2>1 DEF Both
<1>18. ASSUME wanted
       PROVE  Ordered(s, gen) /\ Whole(Latest, LinesOf(s, gen), Position', skipped)
  <2>1. /\ Ordered(up, gen) /\ Whole(Latest, LinesOf(up, gen), Position, skipped)
        /\ Latest \subseteq Lines /\ LinesOf(up, gen) \subseteq Lines /\ Lines \subseteq Nat
        BY <1>18, TapeTyped DEF TapeInv, InOrder
  <2>2. CASE reader.gen = gen
    <3>1. Position = {p} /\ Position' = {q} BY <1>1, <1>3, <1>4, <1>13, <2>2 DEF Position
    <3>2. \A c \in LinesOf(up, gen) : c <= p /\ c \in Nat BY <2>1, <3>1 DEF Whole
    <3>3. \A d \in (p + 1)..q : d \in Nat /\ p < d OBVIOUS
    <3>4. \A c \in LinesOf(up, gen), d \in LinesOf(ms, gen) : c < d
          BY <1>14, <2>2, <3>2, <3>3
    <3>5. p <= q BY <1>9, <1>13
    <3>6. Whole(Latest, LinesOf(up, gen) \cup ((p + 1)..q), {q}, skipped)
          BY <2>1, <3>1, <3>5, WholeMore
    <3> QED BY <1>14, <1>16, <1>17, <2>1, <2>2, <3>1, <3>4, <3>6
  <2>3. CASE reader.gen # gen
    <3>1. Position = {} /\ Position' = {} BY <1>1, <1>3, <2>3 DEF Position
    <3> QED BY <1>15, <1>16, <1>17, <2>1, <2>3, <3>1
  <2> QED BY <2>2, <2>3
<1>19. \A i \in DOMAIN s : \/ \E j \in DOMAIN up : s[i] = up[j]
                           \/ /\ s[i].gen <= gen
                              /\ s[i].type = "log" => reader # None /\ s[i].gen = reader.gen
       BY <1>1, <1>5, <1>7, <1>17
<1> QED BY <1>1, <1>3, <1>4, <1>12, <1>18, <1>19, TapePushed

\* The end of a stream is reported, at once or later.
LEMMA TapeEnd ==
    ASSUME TypeOK, TapeInv, ReadEnd \/ ReportEnd
    PROVE  TapeInv'
<1>1. /\ reader' = reader \/ reader' = None
      /\ reader # None => reader \in Stream
      /\ ended' \subseteq ended
      /\ UNCHANGED <<wanted, history, gen, down, cut>>
      BY DEF ReadEnd, ReportEnd, cpVars, linkVars, TypeOK
<1>2. PICK g \in Nat : g <= gen /\ Push(<<[type |-> "log_end", gen |-> g]>>)
      BY UpTyped DEF ReadEnd, ReportEnd, TapeInv, Numbered
<1> DEFINE m == [type |-> "log_end", gen |-> g]
<1>3. m \in Message /\ m.type # "log" /\ m.gen = g BY DEF Message, Gens
<1>4. Push(<<m>>) BY <1>2
<1> HIDE DEF m
<1>5. PICK ms \in Seq(Message) : ms = <<m>> BY <1>3, Short
<1>6. CASE cut
  <2>1. reader = None /\ reader' = None BY <1>1, <1>6 DEF TapeInv, Numbered
  <2>2. UNCHANGED <<up, skipped>> BY <1>4, <1>6 DEF Push, upVars
  <2> QED BY <1>1, <2>1, <2>2, TapeQuiet
<1>7. CASE ~cut
  <2>1. up \in Seq(Message) BY UpTyped
  <2>2. PICK s \in Seq(Message) : s = up \o ms
    <3>1. up \o ms \in Seq(Message) BY <2>1
    <3> QED BY <3>1
  <2>3. PICK a \in 0..Len(s) : \E k \in 0..a : Spill(s, a, k)
    <3>1. \E a \in 0..Len(up \o ms) : \E k \in 0..a : Spill(up \o ms, a, k)
          BY <1>4, <1>5, <1>7, Pushes
    <3> QED BY <2>2, <3>1
  <2>4. PICK k \in 0..a : Spill(s, a, k) BY <2>3
  <2>5. \A i \in DOMAIN ms : ms[i] = m BY <1>5
  <2>6. \A i \in DOMAIN ms : ~IsLine(ms[i], gen) BY <1>3, <2>5 DEF IsLine
  <2>7. LinesOf(ms, gen) = {} /\ Ordered(ms, gen) BY <2>6, NoLines
  <2>8. /\ LinesOf(s, gen) = LinesOf(up, gen)
        /\ Ordered(up, gen) => Ordered(s, gen)
        /\ \A i \in DOMAIN s : (\E j \in DOMAIN up : s[i] = up[j]) \/ s[i] = m
    <3>1. Both(s, up, ms, gen) BY <2>1, <2>2, JoinedLines
    <3> QED BY <2>5, <2>7, <3>1 DEF Both
  <2>9. ASSUME wanted
        PROVE  Ordered(s, gen) /\ Whole(Latest, LinesOf(s, gen), Position', skipped)
    <3>1. Ordered(up, gen) /\ Whole(Latest, LinesOf(up, gen), Position, skipped)
          BY <2>9 DEF TapeInv, InOrder
    <3>2. PICK Q : Q = Position' OBVIOUS
    <3>3. Q \subseteq Position BY <1>1, <3>2 DEF Position
    <3>4. Whole(Latest, LinesOf(up, gen), Q, skipped) BY <3>1, <3>3, WholeLess
    <3> QED BY <2>8, <3>1, <3>2, <3>4
  <2> QED BY <1>1, <1>2, <1>3, <2>4, <2>8, <2>9, TapePushed
<1> QED BY <1>6, <1>7

\* What waits in send_q is dropped.
LEMMA TapeCrowded ==
    ASSUME TypeOK, TapeInv, Crowded
    PROVE  TapeInv'
<1>1. UNCHANGED <<wanted, history, gen, down, cut, ended, reader>>
      BY DEF Crowded, cpVars, linkVars, agentVars
<1>2. up \in Seq(Message) /\ held \in 0..Len(up)
      BY ConstantsAssumption DEF TypeOK
<1>3. PICK k \in 0..held : Spill(up, held, k) BY <1>2 DEF Crowded
<1>4. Position' = Position BY <1>1 DEF Position
<1>5. wanted => Ordered(up, gen) /\ Whole(Latest, LinesOf(up, gen), Position', skipped)
      BY <1>4 DEF TapeInv, InOrder
<1> QED BY <1>1, <1>2, <1>3, <1>5, TapePushed

\* The agent opens a stream or gives one up.
LEMMA TapeCommand ==
    ASSUME TypeOK, TapeInv, Command
    PROVE  TapeInv'
<1>1. /\ down \in Seq(Commands) /\ down # <<>> /\ down' = Tail(down) /\ ~cut
      /\ UNCHANGED <<wanted, history, gen, up, skipped, cut>>
      BY UpTyped DEF Command, cpVars, linkVars, upVars
<1>2. /\ Head(down) = down[1] /\ 1 \in DOMAIN down
      /\ \A i \in DOMAIN down' : i \in Nat \ {0} /\ i + 1 \in DOMAIN down /\ down'[i] = down[i + 1]
      BY <1>1, TailMoves
<1>3. \/ /\ Asks(1) /\ reader' = Reader(down[1].gen)
         /\ ended' = IF reader = None THEN ended ELSE ended \cup {reader.gen}
      \/ reader # None /\ reader' = None /\ ended' = ended \cup {reader.gen}
      \/ UNCHANGED <<reader, ended>>
      BY <1>2 DEF Command, Asks, Streams
<1>4. \A g \in ended' : g <= gen BY <1>3 DEF TapeInv, Numbered
<1>5. Asks(1) => /\ Fresh(1) /\ Reader(down[1].gen) # None
                 /\ Reader(down[1].gen).gen = down[1].gen
                 /\ Reader(down[1].gen).pos \in Nat
  <2>1. down[1].gen \in Gens BY <1>2, UpTyped DEF Gens
  <2>2. Reader(down[1].gen) \in Stream /\ Reader(down[1].gen) # None
        /\ Reader(down[1].gen).gen = down[1].gen
        BY <2>1, ReaderTyped
  <2>3. Reader(down[1].gen).pos \in Nat BY <2>2, ConstantsAssumption DEF Stream
  <2> QED BY <1>2, <2>2, <2>3 DEF TapeInv, Numbered
<1>6. reader' # None => reader'.gen <= gen
      BY <1>3, <1>5 DEF TapeInv, Numbered, Fresh
<1>7. InOrder'
  <2> SUFFICES ASSUME wanted
               PROVE  Ordered(up, gen) /\ Whole(Latest', LinesOf(up, gen), Position', skipped)
      BY <1>1 DEF InOrder
  <2>1. Ordered(up, gen) /\ Whole(Latest, LinesOf(up, gen), Position, skipped)
        BY DEF TapeInv, InOrder
  <2>2. Latest' = Latest BY <1>1 DEF Latest
  <2>3. PICK Q : Q = Position' OBVIOUS
  <2>4. CASE Q \subseteq Position
    <3>1. Whole(Latest, LinesOf(up, gen), Q, skipped) BY <2>1, <2>4, WholeLess
    <3> QED BY <2>1, <2>2, <2>3, <3>1
  <2>5. CASE ~(Q \subseteq Position)
    <3>1. Asks(1) /\ reader' = Reader(down[1].gen) /\ down[1].gen = gen
          BY <1>1, <1>3, <1>5, <2>3, <2>5 DEF Position
    <3>2. Fresh(1) BY <1>5, <3>1
    <3>3. history = <<>> /\ \A i \in DOMAIN up : ~IsLine(up[i], gen)
          BY <3>1, <3>2, UpTyped DEF Fresh, IsLine
    <3>4. Latest = {} BY <3>3 DEF Latest
    <3>5. LinesOf(up, gen) = {} BY <3>3, NoLines
    <3>6. Whole({}, {}, Q, skipped) BY WholeNew
    <3> QED BY <2>1, <2>2, <2>3, <3>4, <3>5, <3>6
  <2> QED BY <2>4, <2>5
<1>8. ASSUME NEW i \in DOMAIN down', Asks(i)' PROVE Fresh(i)'
  <2>1. i + 1 \in DOMAIN down /\ down'[i] = down[i + 1] /\ Asks(i + 1) /\ Fresh(i + 1)
        BY <1>2, <1>8 DEF Asks, TapeInv, Numbered
  <2>2. Asks(1) => down[1].gen < down[i + 1].gen BY <1>2, <2>1 DEF Fresh
  <2>3. reader' # None => reader'.gen < down'[i].gen BY <1>3, <1>5, <2>1, <2>2 DEF Fresh
  <2>4. ASSUME NEW k \in DOMAIN down', k < i, Asks(k)' PROVE down'[k].gen < down'[i].gen
    <3>1. k + 1 \in DOMAIN down /\ k + 1 < i + 1 /\ down'[k] = down[k + 1] /\ Asks(k + 1)
          BY <1>2, <2>4 DEF Asks
    <3> QED BY <2>1, <3>1 DEF Fresh
  <2> QED BY <1>1, <2>1, <2>3, <2>4 DEF Fresh
<1>9. Numbered' BY <1>1, <1>4, <1>6, <1>8 DEF TapeInv, Numbered
<1> QED BY <1>1, <1>7, <1>9 DEF TapeInv

\* What is under way is lost, or its end is.
LEMMA TapeBroken ==
    ASSUME TypeOK, TapeInv, NEW k \in 0..Len(up), up' = SubSeq(up, 1, k), down' = <<>>,
           reader' = None, ended' = {},
           UNCHANGED <<wanted, history, gen, skipped>>
    PROVE  TapeInv'
<1>1. PICK u : u = SubSeq(up, 1, k) OBVIOUS
<1>2. /\ up \in Seq(Message) /\ \A i \in DOMAIN u : i \in DOMAIN up /\ u[i] = up[i]
      /\ \A i \in DOMAIN up : i \notin DOMAIN u => \A j \in DOMAIN u : j < i
      BY <1>1, UpTyped
<1>3. Ordered(up, gen) => Ordered(u, gen) BY <1>2 DEF Ordered
<1>4. LinesOf(u, gen) \subseteq LinesOf(up, gen) BY <1>2 DEF LinesOf
<1>5. ASSUME Ordered(up, gen), NEW c \in LinesOf(up, gen) \ LinesOf(u, gen),
             NEW d \in LinesOf(u, gen)
      PROVE  d \in Nat /\ c \in Nat /\ d < c
  <2>1. PICK i \in DOMAIN up : IsLine(up[i], gen) /\ c = up[i].line BY DEF LinesOf
  <2>2. PICK j \in DOMAIN u : IsLine(u[j], gen) /\ d = u[j].line BY DEF LinesOf
  <2>3. i \notin DOMAIN u BY <1>2, <1>5, <2>1 DEF LinesOf
  <2>4. j \in DOMAIN up /\ u[j] = up[j] /\ j < i BY <1>2, <2>2, <2>3
  <2>5. d < c BY <1>5, <2>1, <2>2, <2>4 DEF Ordered
  <2> QED BY <1>4, <2>5, TapeTyped
<1>6. InOrder'
  <2> SUFFICES ASSUME wanted
               PROVE  Ordered(u, gen) /\ Whole(Latest', LinesOf(u, gen), Position', skipped)
      BY <1>1 DEF InOrder
  <2>1. Ordered(up, gen) /\ Whole(Latest, LinesOf(up, gen), Position, skipped)
        BY DEF TapeInv, InOrder
  <2>2. Latest' = Latest /\ Position' = {} BY DEF Latest, Position
  <2>3. Whole(Latest, LinesOf(u, gen), {}, skipped) BY <1>4, <1>5, <2>1, WholeLess
  <2> QED BY <1>3, <2>1, <2>2, <2>3
<1>7. Numbered' BY <1>1, <1>2 DEF TapeInv, Numbered
<1> QED BY <1>6, <1>7 DEF TapeInv

LEMMA TapeCleared ==
    ASSUME TypeOK, TapeInv, up' = <<>>, down' = <<>>, reader' = None, ended' = {},
           skipped' = skipped,
           UNCHANGED <<wanted, history, gen>> \/ (~wanted' /\ history' = <<>>)
    PROVE  TapeInv'
<1>1. Row(<<>>, skipped) BY DEF Row
<1>2. CASE ~wanted' /\ history' = <<>>
  <2>1. Numbered' /\ InOrder' BY <1>2 DEF InOrder, Numbered
  <2> QED BY <1>1, <1>2, <2>1 DEF TapeInv
<1>3. CASE UNCHANGED <<wanted, history, gen>>
  <2>1. up' = SubSeq(up, 1, 0) /\ 0 \in 0..Len(up) BY UpTyped
  <2> QED BY <1>3, <2>1, TapeBroken
<1> QED BY <1>2, <1>3

LEMMA TapeInit == Init => TapeInv
<1> SUFFICES ASSUME Init PROVE TapeInv OBVIOUS
<1>1. ~wanted /\ history = <<>> BY DEF Init
<1>2. InOrder /\ Row(history, skipped) BY <1>1 DEF InOrder, Row
<1>3. Numbered BY DEF Init, Numbered
<1> QED BY <1>2, <1>3 DEF TapeInv

\* What a page does to the streams.
LEMMA TapeSubscribe ==
    ASSUME TypeOK, TapeInv, NEW p \in Pages, Subscribe(p),
           UNCHANGED <<up, skipped, reader, ended, cut>>
    PROVE  TapeInv'
<1>1. CASE UNCHANGED <<wanted, gen, history, down>> BY <1>1, TapeQuiet
<1>2. CASE /\ gen' = gen + 1 /\ history' = <<>>
           /\ down' = down \/ down' = Sent("log_subscribe", gen + 1)
      BY <1>2, TapeBegins
<1> QED BY <1>1, <1>2 DEF Subscribe

LEMMA TapeStep ==
    ASSUME TypeOK, Counted, TapeInv, [Next]_vars
    PROVE  TapeInv'
<1>1. CASE UNCHANGED vars
      BY <1>1, TapeQuiet DEF vars, cpVars, linkVars, wire, upVars, agentVars
<1>2. CASE Receive BY <1>2, TapeReceive
<1>3. CASE Command BY <1>3, TapeCommand
<1>4. CASE ReadLine BY <1>4, TapeLine
<1>5. CASE ReadEnd \/ ReportEnd BY <1>5, TapeEnd
<1>13. CASE Crowded BY <1>13, TapeCrowded
<1>6. CASE \/ ConnectFails \/ Metrics \/ Watchdog \/ Write \/ StopOrStart \/ Answers
           \/ Send
      BY <1>6, TapeQuiet DEF ConnectFails, Metrics, Watchdog, Write, StopOrStart, Answers,
         Send, cpVars, linkVars, wire, upVars, agentVars
<1>7. CASE Connect
  <2>1. CASE wanted BY <1>7, <2>1, TapeBegins DEF Connect, NoSession
  <2>2. CASE ~wanted BY <1>7, <2>2, TapeCleared DEF Connect, NoSession
  <2> QED BY <2>1, <2>2
<1>8. CASE Disconnected BY <1>8, TapeCleared DEF Disconnected, NoSession, cpVars
<1>9. CASE Restart BY <1>9, TapeCleared DEF Restart, NoSession
<1>10. CASE Break
  <2>1. PICK k \in 0..(Len(up) - held) : up' = SubSeq(up, 1, k) BY <1>10 DEF Break
  <2>2. k \in 0..Len(up) BY ConstantsAssumption DEF TypeOK
  <2> QED BY <1>10, <2>1, <2>2, TapeBroken DEF Break, cpVars
<1>11. CASE SendUnsubscribe
  <2>1. \E g \in Gens : down' = Sent("log_unsubscribe", g)
        BY <1>11 DEF SendUnsubscribe, TypeOK
  <2> QED BY <1>11, <2>1, TapeQuiet DEF SendUnsubscribe, agentVars, linkVars, upVars
<1>12. ASSUME NEW p \in Pages, Enter(p) \/ Leave(p) \/ LoseSocket(p) \/ PageSteps(p)
       PROVE  TapeInv'
  <2>0. gen \in Gens BY DEF TypeOK
  <2>1. CASE Enter(p) BY <2>1, TapeSubscribe DEF Enter, agentVars, linkVars, upVars
  <2>2. CASE Leave(p)
    <3>1. CASE Unsubscribe(p)
          BY <2>0, <2>2, <3>1, TapeQuiet
             DEF Leave, Unsubscribe, Dropped, agentVars, linkVars, upVars
    <3>2. CASE UNCHANGED <<cpVars, down>>
          BY <2>2, <3>2, TapeQuiet DEF Leave, cpVars, agentVars, linkVars, upVars
    <3> QED BY <2>2, <3>1, <3>2 DEF Leave
  <2>3. CASE LoseSocket(p) \/ Deliver(p)
        BY <2>3, TapeQuiet DEF LoseSocket, Deliver, cpVars, wire, upVars, agentVars, linkVars
  <2>4. CASE Unregister(p)
        BY <2>4, TapeQuiet DEF Unregister, Dropped, wire, upVars, agentVars, linkVars
  <2>5. CASE Reconnect(p)
    <3>1. CASE Subscribe(p)
          BY <2>5, <3>1, TapeSubscribe DEF Reconnect, agentVars, linkVars, upVars
    <3>2. CASE UNCHANGED <<cpVars, down>>
          BY <2>5, <3>2, TapeQuiet DEF Reconnect, cpVars, agentVars, linkVars, upVars
    <3> QED BY <2>5, <3>1, <3>2 DEF Reconnect
  <2> QED BY <1>12, <2>1, <2>2, <2>3, <2>4, <2>5 DEF PageSteps
<1> QED BY <1>1, <1>2, <1>3, <1>4, <1>5, <1>6, <1>7, <1>8, <1>9, <1>10, <1>11, <1>12,
       <1>13
    DEF Next, System
----------------------------------------------------------------------------
(* The pages, one by one.                                                  *)

LEMMA PageTyped ==
    ASSUME TypeOK, NEW p \in Pages
    PROVE  /\ queue[p] \in Seq(Shows) /\ Len(queue[p]) \in Nat
           /\ Len(queue[p]) <= QueueMax /\ QueueMax \in Nat
           /\ view[p] \in Seq(Lines) /\ Len(view[p]) \in Nat
           /\ Lines \subseteq Nat /\ Lines \subseteq Shows /\ {Reset, End} \subseteq Shows
           /\ Reset \notin Lines /\ End \notin Lines /\ Reset # End
           /\ Shows = Lines \cup {Reset, End}
BY ConstantsAssumption DEF TypeOK, Shows, Lines

LEMMA NoneOf ==
    ASSUME NEW S, NEW s \in Seq(S), Len(s) = 0
    PROVE  s = <<>>
OBVIOUS

\* A page that nothing happens to, but what others do to the stream.
LEMMA PageFrame ==
    ASSUME NEW p \in Pages, PageOK(p),
           queue'[p] = queue[p], view'[p] = view[p], sock'[p] = sock[p], shown'[p] = shown[p],
           skipped \subseteq skipped',
           p \in subs' => p \in subs /\ history' = history
    PROVE  PageOK(p)'
<1>1. \A a, b : Joined(a, b, skipped) => Joined(a, b, skipped')
  <2>1. PICK S, T : S = skipped /\ T = skipped' OBVIOUS
  <2> QED BY <2>1, MoreDropped
<1>2. Seamless(p) => Seamless(p)' BY <1>1 DEF Seamless
<1>3. p \in subs' /\ UpToDate(p) => UpToDate(p)' BY DEF UpToDate
<1>4. Attached(p)' BY DEF PageOK, Attached
<1> QED BY <1>2, <1>3, <1>4 DEF PageOK

\* A message that is put into the queue of a page is its last.
LEMMA PutLast ==
    ASSUME TypeOK, Roomy', NEW p \in Pages, NEW m \in Shows,
           queue'[p] = Put(queue[p], <<m>>)
    PROVE  /\ Len(queue'[p]) = Len(queue[p]) + 1 /\ queue'[p] # <<>>
           /\ LastOf(queue'[p]) = m
           /\ \A k \in 1..Len(queue[p]) : queue'[p][k] = queue[p][k]
           /\ queue'[p][Len(queue[p]) + 1] = m
<1>1. queue[p] \in Seq(Shows) /\ <<m>> \in Seq(Shows) /\ Len(queue[p]) <= QueueMax
      BY PageTyped
<1>2. Len(queue'[p]) < QueueMax BY DEF Roomy
<1>3. queue'[p] = queue[p] \o <<m>> BY <1>1, <1>2, PutWhole
<1> QED BY <1>1, <1>3 DEF LastOf

\* A page that is subscribed and connected gets a message that goes on where its queue
\* ends, if the message is a line.
LEMMA PageGets ==
    ASSUME TypeOK, Roomy', NEW p \in Pages, PageOK(p), NEW m \in Shows,
           p \in subs, sock[p] = "up",
           queue'[p] = Put(queue[p], <<m>>),
           view'[p] = view[p], sock'[p] = sock[p], shown'[p] = shown[p], skipped' = skipped,
           \/ m = End /\ p \notin subs'
           \/ m = Reset /\ history' = <<>>
           \/ /\ m \in Lines /\ history' # <<>> /\ LastOf(history') = m
              /\ history = <<>> \/ After(LastOf(history), m, skipped)
    PROVE  PageOK(p)'
<1>0. /\ queue[p] \in Seq(Shows) /\ Len(queue[p]) \in Nat /\ DOMAIN queue[p] = 1..Len(queue[p])
      /\ view[p] \in Seq(Lines) /\ Lines \subseteq Nat
      /\ Reset \notin Lines /\ End \notin Lines /\ Reset # End
      BY PageTyped
<1>8. queue'[p] \in Seq(Shows)
  <2>1. <<m>> \in Seq(Shows) /\ Len(queue[p]) <= QueueMax BY PageTyped
  <2> QED BY <1>0, <2>1, PutTyped
<1>1. PICK n \in Nat : n = Len(queue[p]) BY <1>0
<1>2. /\ Len(queue'[p]) = n + 1 /\ queue'[p] # <<>> /\ LastOf(queue'[p]) = m
      /\ \A k \in 1..n : queue'[p][k] = queue[p][k]
      /\ queue'[p][n + 1] = m
      BY <1>1, PutLast
<1>3. DOMAIN queue'[p] = 1..(n + 1) BY <1>8, <1>2
<1>4. \A k \in 1..(n + 1) : k \in 1..n \/ k = n + 1 BY <1>1
<1>5. \A k \in 1..n : queue[p][k] # End
      BY <1>0, <1>1 DEF PageOK, Attached
<1>6. Attached(p)'
  <2>1. shown'[p] # "ended" BY DEF PageOK, Attached
  <2>2. sock'[p] = "up" OBVIOUS
  <2>3. \A k \in DOMAIN queue'[p] : queue'[p][k] = End => k = Len(queue'[p]) /\ p \notin subs'
        BY <1>0, <1>2, <1>3, <1>4, <1>5
  <2> QED BY <2>1, <2>2, <2>3 DEF Attached
<1>7. ASSUME shown[p] # "no" PROVE Seamless(p)' /\ (p \in subs' => UpToDate(p)')
  <2>1. Seamless(p) /\ UpToDate(p) BY <1>7 DEF PageOK
  <2>2. CASE n = 0
    <3>1. queue[p] = <<>> BY <1>0, <1>1, <2>2, NoneOf
    <3>2. queue'[p][1] = m BY <1>2, <2>2
    <3>3. ASSUME view[p] # <<>>, m \in Lines
          PROVE LastOf(view[p]) \in Lines /\ After(LastOf(view[p]), m, skipped)
      <4>1. LastOf(view[p]) = LastOf(history) /\ history # <<>>
            BY <2>1, <3>1, <3>3 DEF UpToDate
      <4>2. LastOf(view[p]) \in Lines BY <1>0, <3>3 DEF LastOf
      <4>3. After(LastOf(history), m, skipped) BY <1>0, <3>3, <4>1
      <4> QED BY <4>1, <4>2, <4>3
    <3>4. Joined(LastOf(view'[p]), queue'[p][1], skipped) \/ view'[p] = <<>>
          BY <3>2, <3>3 DEF Joined
    <3>5. Len(queue'[p]) = 1 BY <1>2, <2>2
    <3>6. \A k \in 2..1 : FALSE OBVIOUS
    <3>7. \A k \in 2..Len(queue'[p]) : FALSE BY <3>5, <3>6
    <3> QED BY <1>2, <3>4, <3>7 DEF Seamless, UpToDate
  <2>3. CASE n # 0
    <3>1. queue[p] # <<>> /\ 1 \in 1..n /\ n \in 1..n BY <1>0, <1>1, <2>3
    <3>2. Joined(queue[p][n], m, skipped)
      <4>1. \/ history = <<>> /\ queue[p][n] = Reset
            \/ history # <<>> /\ queue[p][n] = LastOf(history)
            BY <1>1, <2>1, <3>1 DEF UpToDate, LastOf
      <4>2. ASSUME m \in Lines, history # <<>>, queue[p][n] = LastOf(history)
            PROVE  queue[p][n] \in Lines /\ After(queue[p][n], m, skipped)
        <5>1. history \in Seq(Lines) BY UpTyped
        <5>2. LastOf(history) \in Lines BY <5>1, <4>2 DEF LastOf
        <5>3. After(LastOf(history), m, skipped) BY <1>0, <4>2
        <5> QED BY <4>2, <5>2, <5>3
      <4> QED BY <4>1, <4>2 DEF Joined
    <3>3. \A k \in 2..(n + 1) : Joined(queue'[p][k - 1], queue'[p][k], skipped)
      <4> SUFFICES ASSUME NEW k \in 2..(n + 1)
            PROVE Joined(queue'[p][k - 1], queue'[p][k], skipped)
          OBVIOUS
      <4>1. CASE k = n + 1
        <5>1. k - 1 = n BY <4>1
        <5> QED BY <1>2, <3>1, <3>2, <4>1, <5>1
      <4>2. CASE k # n + 1
        <5>1. k \in 2..n /\ k \in 1..n /\ k - 1 \in 1..n BY <4>2
        <5> QED BY <1>1, <1>2, <2>1, <5>1 DEF Seamless
      <4> QED BY <4>1, <4>2
    <3>4. view'[p] # <<>> => Joined(LastOf(view'[p]), queue'[p][1], skipped)
          BY <1>2, <2>1, <3>1 DEF Seamless
    <3> QED BY <1>0, <1>2, <3>3, <3>4 DEF Seamless, UpToDate
  <2> QED BY <2>2, <2>3
<1> QED BY <1>6, <1>7 DEF PageOK

\* A row of lines, perhaps after a reset, has no gap.
LEMMA RowJoined ==
    ASSUME NEW S, NEW h \in Seq(Lines), Row(h, S), Lines \subseteq Nat, NEW q,
           q = h \/ q = <<Reset>> \o h, NEW k \in 2..Len(q)
    PROVE  Joined(q[k - 1], q[k], S)
<1>1. CASE q = h
  <2>1. h[k - 1] \in Lines /\ After(h[k - 1], h[k], S) BY <1>1 DEF Row
  <2> QED BY <1>1, <2>1 DEF Joined
<1>2. CASE q = <<Reset>> \o h
  <2>1. /\ q[1] = Reset /\ Len(q) = Len(h) + 1 /\ Len(h) \in Nat
        /\ \A j \in 2..Len(q) : q[j] = h[j - 1]
        BY <1>2
  <2>2. CASE k = 2 BY <2>1, <2>2 DEF Joined
  <2>3. CASE k # 2
    <3>1. k - 1 \in 2..Len(q) /\ k - 1 \in 2..Len(h) /\ k - 2 \in 1..Len(h) /\ (k - 1) - 1 = k - 2
          BY <2>1, <2>3
    <3>2. q[k] = h[k - 1] /\ q[k - 1] = h[k - 2] BY <2>1, <3>1
    <3>3. h[k - 2] \in Lines /\ After(h[k - 2], h[k - 1], S) BY <3>1 DEF Row
    <3> QED BY <3>2, <3>3 DEF Joined
  <2> QED BY <2>2, <2>3
<1> QED BY <1>1, <1>2

\* A page that subscribes gets what is kept, perhaps after a reset, and nothing else.
LEMMA PageSubscribes ==
    ASSUME TypeOK, Roomy', TapeInv, NEW p \in Pages, Subscribe(p), queue[p] = <<>>,
           view'[p] = <<>>, sock'[p] = "up", shown'[p] = "yes", skipped' = skipped
    PROVE  PageOK(p)'
<1>0. /\ history \in Seq(Lines) /\ Row(history, skipped) /\ Lines \subseteq Nat
      /\ history \in Seq(Shows)
      /\ queue \in [Pages -> Seq(Shows)] /\ Reset \in Shows
      /\ Reset \notin Lines /\ End \notin Lines /\ Reset # End /\ QueueMax \in Nat
  <2>1. queue \in [Pages -> Seq(Shows)] BY DEF TypeOK, Shows
  <2>2. history \in Seq(Lines) /\ Lines \subseteq Shows BY UpTyped, PageTyped
  <2>3. history \in Seq(Shows) BY <2>2, Wider
  <2> QED BY <2>1, <2>2, <2>3, PageTyped DEF TapeInv
<1>1. ASSUME NEW ms \in Seq(Shows), queue' = [queue EXCEPT ![p] = Put(@, ms)]
      PROVE  queue'[p] = ms
  <2>1. queue'[p] = Put(queue[p], ms) BY <1>0, <1>1
  <2>2. queue'[p] = Put(<<>>, ms) BY <2>1
  <2>3. Len(Put(<<>>, ms)) < QueueMax BY <2>2 DEF Roomy
  <2>4. <<>> \in Seq(Shows) /\ Len(<<>>) <= QueueMax BY <1>0
  <2>5. Put(<<>>, ms) = <<>> \o ms BY <2>3, <2>4, PutWhole
  <2> QED BY <2>2, <2>5
<1>2. ASSUME queue'[p] = history \/ queue'[p] = <<Reset>> \o history, history' = history
      PROVE  PageOK(p)'
  <2>1. \A k \in DOMAIN queue'[p] : queue'[p][k] # End
    <3>1. CASE queue'[p] = history BY <1>0, <3>1
    <3>2. CASE queue'[p] = <<Reset>> \o history
      <4>1. \A k \in DOMAIN queue'[p] :
               \/ queue'[p][k] = Reset
               \/ k - 1 \in DOMAIN history /\ queue'[p][k] = history[k - 1]
            BY <1>0, <3>2
      <4> QED BY <1>0, <4>1
    <3> QED BY <1>2, <3>1, <3>2
  <2>2. Attached(p)' BY <2>1 DEF Attached
  <2>3. Seamless(p)' BY <1>0, <1>2, RowJoined DEF Seamless
  <2>4. UpToDate(p)'
    <3>1. CASE queue'[p] = history BY <1>2, <3>1 DEF UpToDate
    <3>2. CASE queue'[p] = <<Reset>> \o history
      <4>1. queue'[p] # <<>> /\ Len(queue'[p]) = Len(history) + 1 /\ Len(history) \in Nat
            BY <1>0, <3>2
      <4>2. CASE history = <<>>
        <5>1. LastOf(queue'[p]) = Reset BY <1>0, <3>2, <4>2 DEF LastOf
        <5> QED BY <1>2, <4>1, <4>2, <5>1 DEF UpToDate
      <4>3. CASE history # <<>>
        <5>1. Len(history) \in 1..Len(history) BY <1>0, <4>3
        <5>2. LastOf(queue'[p]) = LastOf(history) BY <1>0, <3>2, <4>1, <5>1 DEF LastOf
        <5> QED BY <1>2, <4>1, <4>3, <5>2 DEF UpToDate
      <4> QED BY <4>2, <4>3
    <3> QED BY <1>2, <3>1, <3>2
  <2> QED BY <2>2, <2>3, <2>4 DEF PageOK
<1>3. CASE queue' = [queue EXCEPT ![p] = Put(@, <<Reset>> \o history)] /\ history' = history
  <2>1. <<Reset>> \o history \in Seq(Shows) BY <1>0
  <2>2. queue'[p] = <<Reset>> \o history BY <1>1, <1>3, <2>1
  <2> QED BY <1>2, <1>3, <2>2
<1>4. CASE queue' = [queue EXCEPT ![p] = Put(@, history)] /\ history' = history
  <2>1. queue'[p] = history BY <1>0, <1>1, <1>4
  <2> QED BY <1>2, <1>4, <2>1
<1>5. CASE queue' = queue
  <2>1. queue'[p] = <<>> /\ Len(<<>>) = 0 /\ DOMAIN <<>> = {} BY <1>5
  <2>2. Attached(p)' BY <2>1 DEF Attached
  <2>3. Seamless(p)' BY <2>1 DEF Seamless
  <2>4. UpToDate(p)' BY <2>1 DEF UpToDate
  <2> QED BY <2>2, <2>3, <2>4 DEF PageOK
<1> QED BY <1>3, <1>4, <1>5 DEF Subscribe

\* Another page subscribes.
LEMMA OtherSubscribes ==
    ASSUME TypeOK, Counted, NEW p \in Pages, NEW r \in Pages, r # p, PageOK(r), Subscribe(p),
           view'[r] = view[r], sock'[r] = sock[r], shown'[r] = shown[r], skipped' = skipped
    PROVE  PageOK(r)'
<1>1. queue'[r] = queue[r] BY DEF Subscribe, TypeOK
<1>2. r \in subs' => r \in subs /\ history' = history BY DEF Subscribe, Counted
<1> QED BY <1>1, <1>2, PageFrame

\* A page, perhaps another one, is no longer subscribed.
LEMMA PageDropped ==
    ASSUME NEW p \in Pages, NEW r \in Pages, PageOK(r), Dropped(p),
           queue'[r] = queue[r], view'[r] = view[r], sock'[r] = sock[r], shown'[r] = shown[r],
           skipped' = skipped
    PROVE  PageOK(r)'
BY PageFrame DEF Dropped, LastPage

\* The browser takes the first message.
LEMMA PageDelivers ==
    ASSUME TypeOK, NEW p \in Pages, PageOK(p), Deliver(p)
    PROVE  PageOK(p)'
<1>0. /\ queue[p] \in Seq(Shows) /\ queue[p] # <<>> /\ view[p] \in Seq(Lines) /\ Lines \subseteq Nat
      /\ Reset \notin Lines /\ End \notin Lines /\ Reset # End /\ Shows = Lines \cup {Reset, End}
      BY PageTyped DEF Deliver
<1>1. PICK q \in Seq(Shows) : q = queue[p] BY <1>0
<1>2. PICK m \in Shows : m = q[1] /\ m = Head(q) BY <1>0, <1>1, TailMoves
<1>3. /\ sock[p] = "up" /\ sock' = sock /\ subs' = subs /\ history' = history
      /\ queue'[p] = Tail(q) /\ skipped' = skipped
      BY <1>1 DEF Deliver, cpVars, wire, upVars, TypeOK
<1>4. /\ Len(q) \in Nat \ {0} /\ Tail(q) \in Seq(Shows) /\ Len(Tail(q)) = Len(q) - 1
      /\ DOMAIN Tail(q) = 1..(Len(q) - 1) /\ DOMAIN q = 1..Len(q)
      /\ \A k \in 1..(Len(q) - 1) : k + 1 \in 2..Len(q) /\ Tail(q)[k] = q[k + 1]
      BY <1>0, <1>1
<1>5. shown[p] # "ended" BY <1>0 DEF PageOK, Attached
<1>6. \A k \in DOMAIN q : q[k] = End => k = Len(q) /\ p \notin subs
      BY <1>1 DEF PageOK, Attached
<1>7. \A k \in DOMAIN queue'[p] : queue'[p][k] = End => k = Len(queue'[p]) /\ p \notin subs'
  <2> SUFFICES ASSUME NEW k \in DOMAIN Tail(q), Tail(q)[k] = End
               PROVE  k = Len(q) - 1 /\ p \notin subs
      BY <1>3, <1>4
  <2>1. k + 1 \in DOMAIN q /\ q[k + 1] = End /\ k \in Nat BY <1>4
  <2>2. k + 1 = Len(q) /\ p \notin subs BY <1>6, <2>1
  <2>3. k \in Nat /\ Len(q) \in Nat BY <1>4, <2>1
  <2>4. k = Len(q) - 1 BY <2>2, <2>3
  <2> QED BY <2>2, <2>4
<1>8. CASE shown[p] = "no"
  <2>1. shown' = shown BY <1>8 DEF Deliver
  <2> QED BY <1>3, <1>7, <1>8, <2>1 DEF PageOK, Attached
<1>9. CASE shown[p] # "no"
  <2>0. /\ \A k \in 2..Len(q) : Joined(q[k - 1], q[k], skipped)
        /\ view[p] # <<>> => Joined(LastOf(view[p]), m, skipped)
        /\ p \in subs => \/ history = <<>> /\ LastOf(q) = Reset
                         \/ history # <<>> /\ LastOf(q) = LastOf(history)
        BY <1>0, <1>1, <1>2, <1>3, <1>9 DEF PageOK, Seamless, UpToDate
  <2>1. \A k \in 2..Len(queue'[p]) : Joined(queue'[p][k - 1], queue'[p][k], skipped)
    <3> SUFFICES ASSUME NEW k \in 2..(Len(q) - 1) PROVE Joined(Tail(q)[k - 1], Tail(q)[k], skipped)
        BY <1>3, <1>4
    <3>1. k \in 1..(Len(q) - 1) /\ k - 1 \in 1..(Len(q) - 1) /\ (k - 1) + 1 = k
          /\ k + 1 \in 2..Len(q) /\ (k + 1) - 1 = k
          BY <1>4
    <3>2. Tail(q)[k - 1] = q[k] /\ Tail(q)[k] = q[k + 1] BY <1>4, <3>1
    <3>3. Joined(q[(k + 1) - 1], q[k + 1], skipped) BY <2>0, <3>1
    <3> QED BY <3>1, <3>2, <3>3
  <2>2. ASSUME queue'[p] # <<>>
        PROVE queue'[p][1] = q[2] /\ Joined(m, q[2], skipped) /\ LastOf(queue'[p]) = LastOf(q)
    <3>1. Len(Tail(q)) # 0 BY <1>3, <1>4, <2>2, NoneOf
    <3>2. 2 \in 2..Len(q) /\ 1 \in 1..(Len(q) - 1) /\ Len(q) - 1 \in 1..(Len(q) - 1)
          /\ (Len(q) - 1) + 1 = Len(q)
          BY <1>4, <3>1
    <3>3. Tail(q)[1] = q[2] /\ Tail(q)[Len(q) - 1] = q[Len(q)] BY <1>4, <3>2
    <3>4. Joined(q[2 - 1], q[2], skipped) /\ 2 - 1 = 1 BY <2>0, <3>2
    <3>5. Joined(m, q[2], skipped) BY <1>2, <3>4
    <3>6. LastOf(Tail(q)) = LastOf(q) BY <1>4, <3>3 DEF LastOf
    <3> QED BY <1>3, <3>3, <3>5, <3>6
  <2>3. queue'[p] = <<>> => LastOf(q) = m
    <3> SUFFICES ASSUME queue'[p] = <<>> PROVE LastOf(q) = m OBVIOUS
    <3>1. Len(q) = 1 BY <1>3, <1>4
    <3> QED BY <1>2, <3>1 DEF LastOf
  <2>4. CASE m = End
    <3>1. 1 = Len(q) /\ p \notin subs BY <1>2, <1>4, <1>6, <2>4
    <3>2. queue'[p] = <<>> BY <1>3, <1>4, <3>1, NoneOf
    <3>3. Attached(p)' BY <1>3, <1>7, <3>1, <3>2 DEF Attached
    <3>4. Seamless(p)' BY <2>1, <3>2 DEF Seamless
    <3> QED BY <1>3, <3>1, <3>3, <3>4 DEF PageOK
  <2>5. CASE m = Reset
    <3>1. view'[p] = <<>> /\ shown' = shown
          BY <1>0, <1>1, <1>2, <1>9, <2>5 DEF Deliver, TypeOK
    <3>2. Attached(p)' BY <1>3, <1>5, <1>7, <3>1 DEF Attached
    <3>3. Seamless(p)' BY <1>3, <2>1, <3>1 DEF Seamless
    <3>4. p \in subs' => UpToDate(p)' BY <1>3, <2>0, <2>2, <3>1 DEF UpToDate
    <3> QED BY <3>2, <3>3, <3>4 DEF PageOK
  <2>6. CASE m \in Lines
    <3>0. m # Reset /\ m # End BY <1>0, <2>6
    <3>1. view'[p] = Append(view[p], m) /\ shown' = shown
          BY <1>0, <1>1, <1>2, <1>9, <3>0 DEF Deliver, TypeOK
    <3>2. view'[p] # <<>> /\ LastOf(view'[p]) = m BY <1>0, <2>6, <3>1 DEF LastOf
    <3>3. Attached(p)' BY <1>3, <1>5, <1>7, <3>1 DEF Attached
    <3>4. Seamless(p)' BY <1>3, <2>1, <2>2, <3>2 DEF Seamless
    <3>5. p \in subs' => UpToDate(p)' BY <1>3, <2>0, <2>2, <2>3, <3>0, <3>2 DEF UpToDate
    <3> QED BY <3>3, <3>4, <3>5 DEF PageOK
  <2> QED BY <1>0, <2>4, <2>5, <2>6
<1> QED BY <1>8, <1>9

\* What the browser shows after it.
LEMMA ShownRow ==
    ASSUME TypeOK, NEW p \in Pages, PageOK(p), Row(view[p], skipped), Deliver(p)
    PROVE  Row(view'[p], skipped)
<1>0. /\ queue[p] \in Seq(Shows) /\ queue[p] # <<>> /\ view[p] \in Seq(Nat)
      /\ view[p] \in Seq(Lines)
      /\ Reset \notin Lines /\ Lines \subseteq Nat
      /\ Shows = Lines \cup {Reset, End}
      BY PageTyped, Wider DEF Deliver
<1>1. PICK m \in Shows : m = queue[p][1] /\ m = Head(queue[p]) BY <1>0, TailMoves
<1>2. \/ view'[p] = view[p] \/ view'[p] = <<>>
      \/ shown[p] # "no" /\ m \in Lines /\ view'[p] = Append(view[p], m)
      BY <1>0, <1>1 DEF Deliver, TypeOK
<1>3. ASSUME shown[p] # "no", m \in Lines PROVE Row(Append(view[p], m), skipped)
  <2>1. view[p] # <<>> => Joined(LastOf(view[p]), m, skipped)
        BY <1>0, <1>1, <1>3 DEF PageOK, Seamless, Deliver
  <2>2. view[p] # <<>> => LastOf(view[p]) \in Lines BY <1>0 DEF LastOf
  <2>3. view[p] = <<>> \/ After(LastOf(view[p]), m, skipped)
        BY <1>0, <1>3, <2>1, <2>2 DEF Joined
  <2>4. m \in Nat BY <1>0, <1>3
  <2> QED BY <1>0, <2>3, <2>4, RowGrows
<1>4. Row(<<>>, skipped) BY DEF Row
<1> QED BY <1>2, <1>3, <1>4

\* A page that has no connection misses what is sent to the pages.
LEMMA PageAway ==
    ASSUME NEW p \in Pages, PageOK(p), sock[p] # "up", p \in subs' => p \in subs,
           queue'[p] = queue[p], view'[p] = view[p], sock'[p] = sock[p], shown'[p] = shown[p]
    PROVE  PageOK(p)'
BY DEF PageOK, Attached

\* A message to all pages that are subscribed.
LEMMA PagesGet ==
    ASSUME TypeOK, Roomy', \A p \in Pages : PageOK(p), NEW m \in Shows,
           queue' = ToPages(subs, m), UNCHANGED <<view, sock, shown, skipped>>,
           subs # {} => \/ m = End /\ subs' = {}
                        \/ m = Reset /\ history' = <<>>
                        \/ /\ m \in Lines /\ history' # <<>> /\ LastOf(history') = m
                           /\ history = <<>> \/ After(LastOf(history), m, skipped),
           subs' \in {subs, {}}
    PROVE  \A p \in Pages : PageOK(p)'
<1> TAKE p \in Pages
<1>1. queue'[p] = IF p \in subs /\ sock[p] = "up" THEN Put(queue[p], <<m>>) ELSE queue[p]
      BY DEF ToPages
<1>2. p \in subs' => p \in subs OBVIOUS
<1>3. CASE p \in subs /\ sock[p] = "up"
  <2>1. \/ m = End /\ p \notin subs'
        \/ m = Reset /\ history' = <<>>
        \/ /\ m \in Lines /\ history' # <<>> /\ LastOf(history') = m
           /\ history = <<>> \/ After(LastOf(history), m, skipped)
        BY <1>3
  <2> QED BY <1>1, <1>3, <2>1, PageGets
<1>4. CASE sock[p] # "up" BY <1>1, <1>2, <1>4, PageAway
<1>5. CASE p \notin subs BY <1>1, <1>2, <1>5, PageFrame
<1> QED BY <1>3, <1>4, <1>5

LEMMA PagesReceive ==
    ASSUME TypeOK, Counted, TapeInv, Roomy', \A p \in Pages : PageOK(p), Receive
    PROVE  \A p \in Pages : PageOK(p)'
<1>1. up \in Seq(Message) /\ up # <<>> /\ UNCHANGED <<view, sock, shown, skipped>>
  <2>1. Len(up) > held /\ held \in Nat BY ConstantsAssumption DEF Receive, TypeOK
  <2> QED BY <2>1, UpTyped DEF Receive
<1>2. Head(up) = up[1] /\ 1 \in DOMAIN up BY <1>1, TailMoves
<1>3. ReceiveLog(up[1]) \/ ReceiveEnd(up[1]) BY <1>2 DEF Receive
<1>4. CASE UNCHANGED <<history, queue, subs>>
  <2> TAKE p \in Pages
  <2> QED BY <1>1, <1>4, PageFrame
<1>5. CASE ReceiveLog(up[1]) /\ Current(up[1].gen)
  <2>1. IsLine(up[1], gen) /\ up[1].line \in Lines /\ up[1].line \in Shows
        BY <1>2, <1>5, UpTyped DEF ReceiveLog, Current, IsLine, Shows, Lines
  <2>2. queue' = ToPages(subs, up[1].line) /\ subs' = subs BY <1>5 DEF ReceiveLog
  <2>3. PICK l \in Lines : l = up[1].line BY <2>1
  <2>4. ASSUME subs # {}
        PROVE  /\ history' # <<>> /\ LastOf(history') = l
               /\ history = <<>> \/ After(LastOf(history), l, skipped)
    <3>1. wanted /\ history' = Newest(Append(history, l), Kept)
          BY <1>5, <2>3, <2>4 DEF ReceiveLog, Counted
    <3>2. history = <<>> \/ After(LastOf(history), l, skipped)
          BY <1>1, <2>1, <2>3, <3>1, NextLine
    <3>3. l \in Nat /\ history \in Seq(Nat) BY <2>3, UpTyped
    <3>4. PICK h : h = Append(history, l) OBVIOUS
    <3>5. h \in Seq(Nat) /\ Row(h, skipped) /\ h # <<>> /\ LastOf(h) = l
          BY <3>2, <3>3, <3>4, RowGrows DEF TapeInv
    <3>6. Newest(h, Kept) # <<>> /\ LastOf(Newest(h, Kept)) = l BY <3>5, NewestRow
    <3> QED BY <3>1, <3>2, <3>4, <3>6
  <2>5. l \in Shows BY <2>1, <2>3
  <2>6. queue' = ToPages(subs, l) BY <2>2, <2>3
  <2> QED BY <1>1, <2>2, <2>4, <2>5, <2>6, PagesGet
<1>6. CASE ReceiveEnd(up[1]) /\ Current(up[1].gen)
  <2>1. queue' = ToPages(subs, End) /\ subs' = {} BY <1>6 DEF ReceiveEnd
  <2>2. End \in Shows BY DEF Shows
  <2> QED BY <1>1, <2>1, <2>2, PagesGet
<1> QED BY <1>3, <1>4, <1>5, <1>6 DEF ReceiveLog, ReceiveEnd

\* What was dropped stays so.
LEMMA SkippedGrows ==
    ASSUME [Next]_vars
    PROVE  skipped \subseteq skipped'
<1>1. \A s, n, k : Spill(s, n, k) => skipped \subseteq skipped' BY DEF Spill
<1>2. \A ms : Push(ms) => skipped \subseteq skipped' BY <1>1 DEF Push, upVars
<1>3. CASE ReadLine \/ ReadEnd \/ ReportEnd BY <1>2, <1>3 DEF ReadLine, ReadEnd, ReportEnd
<1>4. CASE Crowded BY <1>1, <1>4 DEF Crowded
<1>5. CASE \E p \in Pages : Enter(p) \/ Leave(p) \/ LoseSocket(p) \/ PageSteps(p)
      BY <1>5 DEF Enter, Leave, LoseSocket, PageSteps, Unregister, Deliver, Reconnect,
         wire, upVars
<1>6. CASE \/ UNCHANGED vars \/ Connect \/ Receive \/ Restart
           \/ ConnectFails \/ Disconnected \/ SendUnsubscribe \/ Command
           \/ Metrics \/ Watchdog \/ Write \/ StopOrStart \/ Break \/ Answers \/ Send
      BY <1>6 DEF vars, Connect, Receive, Restart, ConnectFails, Disconnected,
         SendUnsubscribe, Command, Metrics, Watchdog, Write, StopOrStart, Break, Answers, Send,
         NoSession, wire, upVars
<1> QED BY <1>3, <1>4, <1>5, <1>6 DEF Next, System

LEMMA PagesStep ==
    ASSUME TypeOK, Counted, TapeInv, Roomy', "hurry" \notin Ops, [Next]_vars,
           \A p \in Pages : PageOK(p)
    PROVE  \A p \in Pages : PageOK(p)'
<1>0. skipped \subseteq skipped' BY SkippedGrows
<1>1. CASE UNCHANGED <<queue, view, sock, shown, subs, history>>
  <2> TAKE p \in Pages
  <2> QED BY <1>0, <1>1, PageFrame
<1>2. CASE Receive BY <1>2, PagesReceive
<1>3. CASE Connect
  <2>1. UNCHANGED <<subs, sock, shown, view, skipped>> BY <1>3 DEF Connect, NoSession
  <2>2. CASE wanted
    <3>1. history' = <<>> /\ queue' = ToPages(subs, Reset) BY <1>3, <2>2 DEF Connect
    <3>2. Reset \in Shows BY DEF Shows
    <3> QED BY <2>1, <3>1, <3>2, PagesGet
  <2>3. CASE ~wanted BY <1>1, <1>3, <2>1, <2>3 DEF Connect
  <2> QED BY <2>2, <2>3
<1>4. CASE Restart
  <2> SUFFICES ASSUME NEW p \in Pages PROVE PageOK(p)' OBVIOUS
  <2>1. sock'[p] = "down" /\ queue'[p] = <<>> /\ p \notin subs' BY <1>4 DEF Restart
  <2> QED BY <2>1 DEF PageOK, Attached
<1>5. ASSUME NEW p \in Pages, NEW r \in Pages,
             Enter(p) \/ Leave(p) \/ LoseSocket(p) \/ PageSteps(p)
      PROVE  PageOK(r)'
  <2>0. PageOK(r) /\ PageOK(p)
        /\ p \in DOMAIN sock /\ p \in DOMAIN queue /\ p \in DOMAIN shown /\ p \in DOMAIN view
        /\ r \in DOMAIN sock /\ r \in DOMAIN queue /\ r \in DOMAIN shown /\ r \in DOMAIN view
        BY DEF TypeOK
  <2>7. skipped' = skipped
        BY <1>5 DEF Enter, Leave, LoseSocket, PageSteps, Unregister, Deliver, Reconnect,
           wire, upVars
  <2>1. CASE Enter(p)
    <3>1. /\ Subscribe(p) /\ queue[p] = <<>> /\ sock' = sock /\ sock[p] = "up"
          /\ shown' = [shown EXCEPT ![p] = "yes"] /\ view' = [view EXCEPT ![p] = <<>>]
          BY <2>1 DEF Enter
    <3>2. CASE r = p
      <4>1. view'[p] = <<>> /\ sock'[p] = "up" /\ shown'[p] = "yes" BY <2>0, <3>1
      <4> QED BY <3>1, <3>2, <4>1, <2>7, PageSubscribes
    <3>3. CASE r # p
      <4>1. view'[r] = view[r] /\ sock'[r] = sock[r] /\ shown'[r] = shown[r]
            BY <2>0, <3>1, <3>3
      <4> QED BY <2>0, <3>1, <3>3, <4>1, <2>7, OtherSubscribes
    <3> QED BY <3>2, <3>3
  <2>2. CASE Leave(p)
    <3>1. /\ UNCHANGED <<sock, queue, view>> /\ shown' = [shown EXCEPT ![p] = "no"]
          /\ Dropped(p) \/ UNCHANGED <<subs, history>>
          BY <2>2 DEF Leave, Unsubscribe, cpVars
    <3>2. CASE r = p
      <4>1. shown'[p] = "no" /\ (p \in subs' => p \in subs) BY <2>0, <3>1 DEF Dropped
      <4> QED BY <2>0, <3>1, <3>2, <4>1 DEF PageOK, Attached
    <3>3. CASE r # p
      <4>1. shown'[r] = shown[r] BY <2>0, <3>1, <3>3
      <4> QED BY <2>0, <3>1, <4>1, <2>7, PageDropped, PageFrame
    <3> QED BY <3>2, <3>3
  <2>3. CASE LoseSocket(p)
    <3>1. /\ UNCHANGED <<view, shown, subs, history>>
          /\ sock' = [sock EXCEPT ![p] = "lost"] /\ queue' = [queue EXCEPT ![p] = <<>>]
          BY <2>3 DEF LoseSocket, cpVars
    <3>2. CASE r = p
      <4>1. sock'[p] = "lost" /\ queue'[p] = <<>> BY <2>0, <3>1
      <4> QED BY <2>0, <3>1, <3>2, <4>1 DEF PageOK, Attached
    <3>3. CASE r # p
      <4>1. sock'[r] = sock[r] /\ queue'[r] = queue[r] BY <2>0, <3>1, <3>3
      <4> QED BY <2>0, <3>1, <4>1, <2>7, PageFrame
    <3> QED BY <3>2, <3>3
  <2>4. CASE Deliver(p)
    <3>1. CASE r = p BY <2>0, <2>4, <3>1, PageDelivers
    <3>2. CASE r # p
      <4>1. UNCHANGED <<sock, subs, history>> BY <2>4 DEF Deliver, cpVars
      <4>2. queue'[r] = queue[r] /\ view'[r] = view[r] /\ shown'[r] = shown[r]
            BY <2>0, <2>4, <3>2 DEF Deliver
      <4> QED BY <2>0, <4>1, <4>2, <2>7, PageFrame
    <3> QED BY <3>1, <3>2
  <2>5. CASE Unregister(p)
    <3>1. /\ Dropped(p) /\ UNCHANGED <<shown, queue, view>>
          /\ sock[p] = "lost" /\ sock' = [sock EXCEPT ![p] = "down"]
          BY <2>5 DEF Unregister
    <3>2. CASE r = p
      <4>1. sock'[p] = "down" /\ p \notin subs' /\ queue[p] = <<>>
            BY <2>0, <3>1 DEF Dropped, PageOK, Attached
      <4> QED BY <3>1, <3>2, <4>1 DEF PageOK, Attached
    <3>3. CASE r # p
      <4>1. sock'[r] = sock[r] BY <2>0, <3>1, <3>3
      <4> QED BY <2>0, <3>1, <4>1, <2>7, PageDropped
    <3> QED BY <3>2, <3>3
  <2>6. CASE Reconnect(p)
    <3>1. /\ sock[p] = "down" /\ sock' = [sock EXCEPT ![p] = "up"] /\ shown' = shown
          /\ queue[p] = <<>> /\ p \notin subs
          BY <2>0, <2>6 DEF Reconnect, PageOK, Attached
    <3>2. CASE shown[p] = "yes"
      <4>1. Subscribe(p) /\ view' = [view EXCEPT ![p] = <<>>] BY <2>6, <3>2 DEF Reconnect
      <4>2. CASE r = p
        <5>1. view'[p] = <<>> /\ sock'[p] = "up" /\ shown'[p] = "yes"
              BY <2>0, <3>1, <3>2, <4>1
        <5> QED BY <3>1, <4>1, <4>2, <5>1, <2>7, PageSubscribes
      <4>3. CASE r # p
        <5>1. view'[r] = view[r] /\ sock'[r] = sock[r] /\ shown'[r] = shown[r]
              BY <2>0, <3>1, <4>1, <4>3
        <5> QED BY <2>0, <4>1, <4>3, <5>1, <2>7, OtherSubscribes
      <4> QED BY <4>2, <4>3
    <3>3. CASE shown[p] # "yes"
      <4>1. UNCHANGED <<subs, history, queue, view>> BY <2>6, <3>3 DEF Reconnect, cpVars
      <4>2. CASE r = p
        <5>1. /\ sock'[p] = "up" /\ queue'[p] = <<>> /\ p \notin subs'
              /\ Len(<<>>) = 0 /\ DOMAIN <<>> = {}
              BY <2>0, <3>1, <4>1
        <5>2. Attached(p)' BY <5>1 DEF Attached
        <5>3. Seamless(p)' BY <5>1 DEF Seamless
        <5> QED BY <4>2, <5>1, <5>2, <5>3 DEF PageOK
      <4>3. CASE r # p
        <5>1. sock'[r] = sock[r] BY <2>0, <3>1, <4>3
        <5> QED BY <2>0, <3>1, <4>1, <5>1, <2>7, PageFrame
      <4> QED BY <4>2, <4>3
    <3> QED BY <3>2, <3>3
  <2> QED BY <1>5, <2>1, <2>2, <2>3, <2>4, <2>5, <2>6 DEF PageSteps
<1>6. CASE \/ UNCHANGED vars
           \/ ConnectFails \/ Disconnected \/ SendUnsubscribe \/ Command \/ ReadLine \/ ReadEnd
           \/ ReportEnd \/ Metrics \/ Watchdog \/ Write \/ StopOrStart \/ Break \/ Answers
           \/ Send \/ Crowded
      BY <1>1, <1>6
         DEF vars, ConnectFails, Disconnected, SendUnsubscribe, Command, ReadLine,
         ReadEnd, ReportEnd, Metrics, Watchdog, Write, StopOrStart, Break, Answers,
         Send, Crowded, cpVars, pageVars
<1> QED BY <1>2, <1>3, <1>4, <1>5, <1>6 DEF Next, System

LEMMA ViewStep ==
    ASSUME StreamInv, ViewInv, "hurry" \notin Ops, Roomy', [Next]_vars
    PROVE  ViewInv'
<1>1. TypeOK /\ Counted /\ TapeInv /\ (\A p \in Pages : PageOK(p))
      BY DEF StreamInv, ViewInv
<1>2. TapeInv' BY <1>1, TapeStep
<1>3. \A p \in Pages : PageOK(p)' BY <1>1, PagesStep
<1>4. \A p \in Pages : Row(view[p], skipped) BY DEF ViewInv, ViewFaithful, Row, Follows, After
<1>7. \A r : Row(r, skipped) => Row(r, skipped')
  <2>1. PICK S, T : S = skipped /\ T = skipped' OBVIOUS
  <2>2. S \subseteq T BY <2>1, SkippedGrows
  <2> QED BY <2>1, <2>2, MoreDropped
<1>5. ASSUME NEW p \in Pages PROVE Row(view'[p], skipped')
  <2>1. CASE view'[p] = view[p] BY <1>4, <1>7, <2>1
  <2>2. CASE view'[p] = <<>> BY <2>2 DEF Row
  <2>3. CASE Deliver(p) BY <1>1, <1>4, <1>7, <2>3, ShownRow
  <2>4. \/ view' = view
        \/ \E r \in Pages : Deliver(r) \/ view' = [view EXCEPT ![r] = <<>>]
    <3>1. CASE \E r \in Pages : Enter(r) \/ Leave(r) \/ LoseSocket(r) \/ PageSteps(r)
          BY <3>1 DEF Enter, Leave, LoseSocket, PageSteps, Unregister, Reconnect
    <3>2. CASE \/ UNCHANGED vars \/ Connect \/ Receive \/ Restart
               \/ ConnectFails \/ Disconnected \/ SendUnsubscribe \/ Command \/ ReadLine \/ ReadEnd
               \/ ReportEnd \/ Metrics \/ Watchdog \/ Write \/ StopOrStart \/ Break \/ Answers
               \/ Send \/ Crowded
          BY <3>2 DEF vars, Connect, Receive, Restart, ConnectFails, Disconnected,
             SendUnsubscribe, Command, ReadLine, ReadEnd, ReportEnd, Metrics, Watchdog, Write,
             StopOrStart, Break, Answers, Send, Crowded, pageVars
    <3> QED BY <3>1, <3>2 DEF Next, System
  <2>5. ASSUME NEW r \in Pages, Deliver(r), r # p PROVE view'[p] = view[p]
        BY <1>1, <2>5 DEF Deliver, TypeOK
  <2>6. ASSUME NEW r \in Pages, view' = [view EXCEPT ![r] = <<>>]
        PROVE  view'[p] = view[p] \/ view'[p] = <<>>
        BY <1>1, <2>6 DEF TypeOK
  <2> QED BY <2>1, <2>2, <2>3, <2>4, <2>5, <2>6
<1>6. ViewFaithful' BY <1>5 DEF ViewFaithful, Row, Follows, After
<1> QED BY <1>2, <1>3, <1>6 DEF ViewInv

LEMMA ViewInit == Init => ViewInv
<1> SUFFICES ASSUME Init PROVE ViewInv OBVIOUS
<1>1. TapeInv BY TapeInit
<1>2. ASSUME NEW p \in Pages
      PROVE  sock[p] = "up" /\ shown[p] = "no" /\ queue[p] = <<>> /\ view[p] = <<>>
      BY DEF Init
<1>3. ASSUME NEW p \in Pages PROVE PageOK(p)
  <2>1. \A k \in DOMAIN queue[p] : FALSE BY <1>2
  <2> QED BY <1>2, <2>1 DEF PageOK, Attached
<1>4. ViewFaithful BY <1>2 DEF ViewFaithful
<1> QED BY <1>1, <1>3, <1>4 DEF ViewInv

\* What a page shows has no line twice or out of order and no gap, but for lines that a full
\* send_q dropped, whatever was reset, replayed, broken off or sent by an earlier stream in
\* between, for every number of pages, of lines, of lines that are kept and of messages that
\* fit into send_q (subscribe_log, _replay_log_history, _handle_message, _connect_node,
\* _enqueue): if the page is not opened again while messages of before still wait in its
\* queue, and no queue of a page is ever full, since a message to a full one is dropped.
THEOREM ViewCorrect ==
    ASSUME "hurry" \notin Ops
    PROVE  Spec /\ []Roomy => []ViewFaithful
<1>1. Init => StreamInv BY StreamInit
<1>2. StreamInv /\ ViewInv /\ Roomy' /\ [Next]_vars => StreamInv' /\ ViewInv'
      BY StreamStep, ViewStep
<1>3. ViewInv => ViewFaithful BY DEF ViewInv
<1> QED BY <1>1, <1>2, <1>3, ViewInit, PTL DEF Spec
=============================================================================
