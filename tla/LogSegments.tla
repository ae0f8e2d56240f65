----------------------------- MODULE LogSegments -----------------------------
(***************************************************************************)
(* From the bytes of "docker logs" to the lines of a page: log_reader and  *)
(* _log_segments of agent/main.py cut what they happen to read into        *)
(* segments, onLog of pages/tasks/[id].vue puts them on the screen.  A     *)
(* segment with "update" replaces the last line when that was an update    *)
(* too.  What AgentChannel calls a line is a segment here; that a full     *)
(* send_q drops some is modelled there, here every segment arrives.        *)
(***************************************************************************)
EXTENDS Integers, Sequences

CONSTANTS
    Letters,    \* what is neither CR nor LF
    CR, LF,     \* the two ends of a line
    MaxBytes,   \* bound on what the container writes
    MaxChunk,   \* bytes that one read gives at most
    MaxBuf,     \* a longer segment is sent without waiting for its end
    Adjacent,   \* whether lines rewritten in place may follow each other
    Torn        \* whether a read may end between CR and LF

VARIABLES
    text,       \* all that was read so far
    buf, prev,  \* of log_reader: the segment that has no end yet, prev_update
    screen,     \* the lines on the page
    last,       \* lastLogLineUpdate
    open        \* the reader goes on

vars == <<text, buf, prev, screen, last, open>>

Bytes == Letters \cup {CR, LF}

TypeOK ==
    /\ text \in Seq(Bytes) /\ Len(text) <= MaxBytes
    /\ buf \in Seq(Letters) /\ Len(buf) <= MaxBuf
    /\ prev \in BOOLEAN /\ last \in BOOLEAN /\ open \in BOOLEAN
    /\ \A i \in 1..Len(screen) : screen[i] \in Seq(Letters) \ {<<>>}

Init ==
    /\ text = <<>> /\ buf = <<>> /\ prev = FALSE
    /\ screen = <<>> /\ last = FALSE /\ open = TRUE

----------------------------------------------------------------------------
(* The agent.                                                              *)

Segment(s, update) == IF s = <<>> THEN <<>> ELSE <<[line |-> s, update |-> update]>>

\* Mutant of EndsLine: a CR always begins to rewrite the line.
EndsLineAtLF(b, i) == b[i] = LF

\* The end of a line: LF, or CR that is read together with its LF.
EndsLine(b, i) == b[i] = LF \/ (b[i] = CR /\ i < Len(b) /\ b[i + 1] = LF)

\* _log_segments: what is done with the first i bytes of b.
Cut(b, update) ==
    LET cut[i \in 0..Len(b)] ==
          IF i = 0 THEN [out |-> <<>>, buf |-> <<>>, prev |-> update]
          ELSE LET c == cut[i - 1]
               IN  CASE EndsLine(b, i) ->
                          [out |-> c.out \o Segment(c.buf, c.prev), buf |-> <<>>,
                           prev |-> FALSE]
                     [] ~EndsLine(b, i) /\ b[i] = CR ->
                          [out |-> c.out \o Segment(c.buf, TRUE), buf |-> <<>>,
                           prev |-> c.prev \/ c.buf # <<>>]
                     [] OTHER -> [c EXCEPT !.buf = Append(@, b[i])]
    IN  cut[Len(b)]

----------------------------------------------------------------------------
(* The page.                                                               *)

\* onLog, for one segment after the other.
Shows(page, segments) ==
    LET show[i \in 0..Len(segments)] ==
          IF i = 0 THEN page
          ELSE LET p == show[i - 1]  s == segments[i]  n == Len(p.screen)
               IN  [screen |-> IF s.update /\ p.last /\ n > 0
                               THEN [p.screen EXCEPT ![n] = s.line]
                               ELSE Append(p.screen, s.line),
                    last |-> s.update]
    IN  show[Len(segments)]
Page == [screen |-> screen, last |-> last]
Display(segments) ==
    /\ screen' = Shows(Page, segments).screen
    /\ last' = Shows(Page, segments).last

----------------------------------------------------------------------------
(* What the container means by its bytes.                                  *)

\* A terminal: LF ends a line, and what is written after CR replaces the line; an
\* empty line is not counted.  "again" tells that a line was rewritten right after one
\* that had been.
Terminal(t) ==
    LET Bare(i) == i = Len(t) \/ t[i + 1] # LF
        term[i \in 0..Len(t)] ==
          IF i = 0 THEN [done |-> <<>>, now |-> <<>>, new |-> <<>>, rewritten |-> FALSE,
                         before |-> FALSE, again |-> FALSE]
          ELSE LET s == term[i - 1]
                   line == IF s.new = <<>> THEN s.now ELSE s.new
               IN  CASE t[i] = LF /\ line = <<>> -> s
                     [] t[i] = LF /\ line # <<>> ->
                          [s EXCEPT !.done = Append(@, line), !.now = <<>>, !.new = <<>>,
                                    !.before = s.rewritten, !.rewritten = FALSE]
                     [] t[i] = CR /\ s.new # <<>> /\ Bare(i) ->
                          [s EXCEPT !.now = line, !.new = <<>>, !.rewritten = TRUE,
                                    !.again = @ \/ (s.before /\ ~s.rewritten)]
                     [] t[i] \in Letters -> [s EXCEPT !.new = Append(@, t[i])]
                     [] OTHER -> s
    IN  term[Len(t)]

\* What a read may bring.
Possible(chunk) ==
    LET t == text \o chunk
    IN  /\ Len(t) <= MaxBytes
        /\ text # <<>> /\ ~Torn => ~(text[Len(text)] = CR /\ chunk[1] = LF)
        /\ Terminal(t).again => Adjacent

----------------------------------------------------------------------------
(* Steps.                                                                  *)

\* log_reader: a read, and all that comes of it.
Read(chunk) ==
    LET c == Cut(buf \o chunk, prev)
        long == Len(c.buf) > MaxBuf
    IN  /\ open /\ Possible(chunk)
        /\ text' = text \o chunk
        /\ buf' = IF long THEN <<>> ELSE c.buf
        /\ prev' = (c.prev /\ ~long)
        /\ Display(c.out \o IF long THEN Segment(c.buf, FALSE) ELSE <<>>)
        /\ UNCHANGED open

\* The end of the stream: what is left is a line.
Close ==
    /\ open /\ open' = FALSE
    /\ Display(Segment(buf, FALSE))
    /\ UNCHANGED <<text, buf, prev>>

Next == Close \/ \E n \in 1..MaxChunk : \E chunk \in [1..n -> Bytes] : Read(chunk)
Spec == Init /\ [][Next]_vars

----------------------------------------------------------------------------
(* Properties.                                                             *)

\* The page shows what a terminal would: the lines that have ended, and the newest state
\* of one that is being rewritten.  It does so however the bytes are cut into reads, if
\* lines that are rewritten in place do not follow each other (~Adjacent) and no read ends
\* between CR and LF (~Torn).
ScreenIsTerminal ==
    LET t == Terminal(text)
    IN  open => screen = t.done \o IF t.now = <<>> THEN <<>> ELSE <<t.now>>

\* A line that has ended stays on the page: the LF ends the rewriting of the line
\* (the comments of _log_segments, test_agent_main.py).
EndedLinesStay ==
    LET t == Terminal(text)
    IN  Len(screen) >= Len(t.done) /\ SubSeq(screen, 1, Len(t.done)) = t.done
=============================================================================
