----------------------- MODULE ResumableDownloadProofs -----------------------
(***************************************************************************)
(* Theorems about ResumableDownload, for every choice of its constants.    *)
(*                                                                         *)
(* Most steps only drop a name and move one call (Quietly); the three that *)
(* do more open, write or rename a file.  Each invariant is then kept      *)
(* step by step over these shapes (Shaped) instead of over every handler.  *)
(***************************************************************************)
EXTENDS ResumableDownload, FiniteSetTheorems, SequenceTheorems, TLAPS

Caller == [pc : Ended \cup {"ask", "sent", "read", "check", "rename", "mark"},
           fd : Files \cup {None}, append : BOOLEAN, have : Nat,
           tries : 0..Tries[kind], hash : Seq(Blocks)]
Marking == {"blob", "archive"}      \* the kinds that mark a file

\* A call has a file open exactly while it reads, and its last try is behind it only for a
\* shared file that starts over.
CallerOK(x) ==
    /\ x \in Caller /\ (x.fd # None <=> x.pc = "read")
    /\ x.pc = "mark" => kind \in Marking
    /\ x.tries = Tries[kind] =>
          kind = "shared" /\ (x.pc \in {"ask", "sent"} => x.have = 0)

\* What TypeOK needs beside itself, and that a file has one name.
TypeInv ==
    /\ TypeOK /\ data \in [Files -> Seq(Blocks)]
    /\ \A r \in Writers : CallerOK(w[r])
    /\ part # None => part # target
    /\ marked => kind \in Marking

----------------------------------------------------------------------------
(* The disk.                                                               *)

LEMMA Constants ==
    /\ Files \subseteq Nat /\ None \notin Files
    /\ Ended = {"idle", "ok", "failed"} /\ Wrong \in Blocks /\ 1..Size \subseteq Blocks
<1>1. Cardinality(Writers) \in Nat
      BY ConstantsAssumption, FS_CardinalityType
<1> QED BY <1>1, ConstantsAssumption DEF Files, Ended, Wrong, Blocks

LEMMA Triable == ASSUME kind \in Kinds PROVE Tries[kind] \in Nat /\ Tries[kind] # 0
BY ConstantsAssumption

LEMMA CallerTyped ==
    ASSUME TypeInv, NEW r \in Writers
    PROVE  w[r] \in Caller /\ CallerOK(w[r])
BY DEF TypeInv, CallerOK

\* There is a file to create: every other call has one open at most.
LEMMA NewFileFree ==
    ASSUME TypeInv, NEW r \in Writers, w[r].fd = None
    PROVE  /\ NewFile \in Files /\ NewFile \notin {part, target}
           /\ \A v \in Writers : w[v].fd # NewFile
<1> DEFINE S == Writers \ {r}
           g == [v \in S |-> w[v].fd]
           R == {g[v] : v \in S}
           U == (R \cup {part}) \cup {target}
           n == Cardinality(Writers)
<1>1. IsFiniteSet(Writers) /\ n \in Nat
      BY ConstantsAssumption, FS_CardinalityType
<1>2. IsFiniteSet(S) /\ Cardinality(S) = n - 1
      BY <1>1, FS_RemoveElement
<1>3. IsFiniteSet(R) /\ Cardinality(R) <= Cardinality(S)
  <2>1. g \in Surjection(S, R)
        BY DEF Surjection
  <2> HIDE DEF g, R, S
  <2> QED BY <1>2, <2>1, FS_Surjection
<1> HIDE DEF R
<1>4. IsFiniteSet(R \cup {part}) /\ Cardinality(R \cup {part}) <= Cardinality(R) + 1
      /\ Cardinality(R \cup {part}) \in Nat /\ Cardinality(R) \in Nat
  <2>1. Cardinality(R) \in Nat
        BY <1>3, FS_CardinalityType
  <2>2. /\ IsFiniteSet(R \cup {part})
        /\ Cardinality(R \cup {part}) = IF part \in R THEN Cardinality(R) ELSE Cardinality(R) + 1
        BY <1>3, FS_AddElement
  <2> QED BY <2>1, <2>2
<1>5. IsFiniteSet(U) /\ Cardinality(U) <= Cardinality(R) + 2 /\ Cardinality(U) \in Nat
  <2>1. /\ IsFiniteSet(U)
        /\ Cardinality(U) = IF target \in R \cup {part} THEN Cardinality(R \cup {part})
                            ELSE Cardinality(R \cup {part}) + 1
        BY <1>4, FS_AddElement
  <2> QED BY <1>4, <2>1
<1> HIDE DEF U
<1>6. Cardinality(Files) = n + 2
  <2>1. /\ IsFiniteSet(1..(n + 2))
        /\ Cardinality(1..(n + 2)) = IF 1 > n + 2 THEN 0 ELSE (n + 2) - 1 + 1
        BY <1>1, FS_Interval
  <2> QED BY <1>1, <2>1 DEF Files
<1>7. ~(Files \subseteq U)
  <2> SUFFICES ASSUME Files \subseteq U PROVE FALSE
      OBVIOUS
  <2>1. Cardinality(Files) <= Cardinality(U)
        BY <1>5, FS_Subset
  <2> QED BY <1>1, <1>2, <1>3, <1>4, <1>5, <1>6, <2>1
<1>8. PICK f \in Files : f \notin U
      BY <1>7
<1>9. f \notin {part, target} /\ \A v \in Writers : w[v].fd # f
  <2>1. \A v \in S : g[v] # f
        BY <1>8 DEF U, R
  <2> QED BY <1>8, <2>1, Constants DEF U
<1> QED BY <1>9 DEF NewFile

\* What a step of one call leaves on the disk and of the calls.
LEMMA DiskStep ==
    ASSUME TypeInv, NEW r \in Writers, NEW x, CallerOK(x), NEW p \in Files \cup {None},
           NEW t \in Files \cup {None}, p # None => p # t, NEW d \in [Files -> Seq(Blocks)],
           Disk(p, t, d, Goes(r, x)), UNCHANGED <<kind, crowd>>, good' \in BOOLEAN,
           mixed' \in BOOLEAN, marked' \in BOOLEAN, marked' => kind \in Marking
    PROVE  /\ TypeInv' /\ part' = p /\ target' = t
           /\ w'[r] = x /\ \A v \in Writers : v # r => w'[v] = w[v]
<1>1. part' = p /\ target' = t /\ w' = [w EXCEPT ![r] = x]
      /\ data' = [f \in Files |-> IF f \in {p, t} THEN d[f] ELSE <<>>]
      BY DEF Disk, Goes
<1>2. w'[r] = x /\ \A v \in Writers : v # r => w'[v] = w[v]
      BY <1>1 DEF TypeInv, TypeOK
<1>3. data' \in [Files -> Seq(Blocks)]
  <2>1. <<>> \in Seq(Blocks)
        OBVIOUS
  <2> QED BY <1>1, <2>1
<1>4. Caller' = Caller
      BY DEF Caller
<1>5. \A v \in Writers : CallerOK(w'[v])
      BY <1>2, CallerTyped
<1>6. \A v \in Writers : CallerOK(w[v])'
      BY <1>4, <1>5 DEF CallerOK
<1>7. w' \in [Writers -> Caller]
      BY <1>1, CallerTyped DEF CallerOK, TypeInv, TypeOK, Caller
<1>8. TypeOK'
      BY <1>1, <1>3, <1>4, <1>7 DEF TypeInv, TypeOK, Caller
<1>9. TypeInv'
      BY <1>1, <1>3, <1>6, <1>8 DEF TypeInv
<1> QED BY <1>1, <1>2, <1>9

----------------------------------------------------------------------------
(* The steps of a call: all but Open, Read and Rename leave the files as   *)
(* they are, and drop a name at most.                                      *)

LEMMA Rules ==
    ASSUME TypeInv
    PROVE  /\ Rule.marks \in BOOLEAN /\ (Rule.marks <=> kind \in Marking)
           /\ Rule.restat <=> kind \in Marking
<1>1. kind \in KindNames
      BY ConstantsAssumption DEF TypeInv, TypeOK
<1>2. CASE kind = "blob"
  <2>1. Rule = Blob
        BY <1>2 DEF Rule
  <2> QED BY <1>2, <2>1 DEF Blob, Marking
<1>3. CASE kind = "archive"
  <2>1. Rule = Archive
        BY <1>3 DEF Rule
  <2> QED BY <1>3, <2>1 DEF Archive, Marking
<1>4. CASE kind = "shared"
  <2>1. Rule = Shared
        BY <1>4 DEF Rule
  <2> QED BY <1>4, <2>1 DEF Shared, Marking
<1>5. CASE kind = "pulled"
  <2>1. Rule = Pulled
        BY <1>5 DEF Rule
  <2> QED BY <1>5, <2>1 DEF Pulled, Marking
<1> QED BY <1>1, <1>2, <1>3, <1>4, <1>5 DEF KindNames

\* The target is right as far as a call can know without reading it.
Vouched(r) == Has(target) \/ (marked /\ Length(target) = Size) \/ w[r].pc = "mark"

Quietly(r, x, p, t) ==
    /\ CallerOK(x) /\ x.fd = None /\ x.pc # "mark"
    /\ p \in {None, part} /\ t \in {None, target} /\ Disk(p, t, data, Goes(r, x))
    /\ UNCHANGED <<kind, crowd>> /\ good' \in BOOLEAN /\ marked' \in BOOLEAN
    /\ mixed' = mixed \/ (mixed' = FALSE /\ t = None /\ x.pc = "ask" /\ ~Overlapped(r))
    /\ w[r].pc \notin Ended \/ crowd \/ \A v \in Writers : w[v].pc \in Ended
    /\ x.pc = "sent" /\ kind \in Marking => x.have = Length(p)
    /\ x.pc = "rename" =>
          /\ p = part
          /\ Has(part) \/ (kind = "blob" /\ w[r].pc = "read" /\ Right(w[r].hash))
    /\ x.pc = "ok" => t = target /\ Vouched(r)
    /\ marked' => kind \in Marking /\ t = target /\ (marked \/ Vouched(r))

\* A call that has been answered opens the .part, or a new one.
Opens(r) ==
    /\ w[r].pc = "sent" /\ Stays /\ UNCHANGED marked
    /\ \/ Open(r, None, 0)
       \/ /\ w[r].have < Size /\ (kind = "blob" /\ w[r].have > 0 => part # None)
          /\ Open(r, part, w[r].have)

Shaped(r) == \/ \E x, p, t : Quietly(r, x, p, t)
             \/ Opens(r) \/ Read(r) \/ (Rename(r) /\ part # None)

LEMMA Lengths ==
    ASSUME TypeInv, NEW p \in {None, part, target}
    PROVE  Length(p) \in Nat
BY Constants DEF TypeInv, TypeOK, Length

LEMMA IdleOK ==
    ASSUME TypeInv
    PROVE  /\ Idle \in Caller /\ Idle.pc = "idle" /\ Idle.fd = None /\ Idle.have = 0
           /\ Idle.tries = 0 /\ Tries[kind] \in Nat \ {0}
<1>1. 0 \in 0..Tries[kind] /\ Tries[kind] \in Nat \ {0}
      BY Triable DEF TypeInv, TypeOK
<1>2. <<>> \in Seq(Blocks)
      OBVIOUS
<1> QED BY <1>1, <1>2, Constants DEF Idle, Caller

LEMMA EndsOK ==
    ASSUME TypeInv, NEW pc \in Ended \cup {"rename"}
    PROVE  /\ CallerOK(Ends(pc)) /\ Ends(pc).fd = None /\ Ends(pc).pc = pc
           /\ [Idle EXCEPT !.pc = pc] = Ends(pc)
<1>1. /\ Ends(pc) \in Caller /\ Ends(pc).fd = None /\ Ends(pc).pc = pc /\ Ends(pc).tries = 0
      /\ [Idle EXCEPT !.pc = pc] = Ends(pc)
      BY IdleOK DEF Ends, Caller
<1> QED BY <1>1, IdleOK, Constants DEF CallerOK

LEMMA GivesUpQuietly ==
    ASSUME TypeInv, NEW r \in Writers, w[r].pc \notin Ended, GivesUp(r),
           UNCHANGED <<kind, crowd, mixed, marked>>, good' \in BOOLEAN
    PROVE  Quietly(r, Ends("failed"), part, target)
BY EndsOK, Constants DEF GivesUp, Quietly, TypeInv, TypeOK

LEMMA FailedQuietly ==
    ASSUME TypeInv, NEW r \in Writers, w[r].pc \notin Ended, NEW event, Failed(r, event),
           Stays, UNCHANGED marked
    PROVE  Shaped(r)
<1> DEFINE drop  == "drop" \in Rule[event] /\ ~(event = "size" /\ Last(r))
           again == "retry" \in Rule[event] /\ ~Last(r)
           h == IF drop \/ Rule.restat THEN 0 ELSE w[r].have
           p == IF drop THEN None ELSE part
           a == [Idle EXCEPT !.pc = "ask", !.tries = Counted(r), !.have = h]
           x == IF again THEN a ELSE Ends("failed")
<1>1. Disk(p, target, data, Goes(r, x))
      BY DEF Failed
<1>2. CallerOK(x) /\ x.fd = None /\ x.pc \in {"ask", "failed"}
  <2>1. CASE again
    <3>1. w[r].tries \in 0..Tries[kind] /\ h \in Nat /\ Tries[kind] \in Nat
          BY CallerTyped, Triable DEF Caller, TypeInv, TypeOK
    <3>2. Counted(r) \in 0..Tries[kind] /\ Counted(r) # Tries[kind]
          BY <2>1, <3>1 DEF Counted, Last
    <3>3. a \in Caller /\ a.fd = None /\ a.pc = "ask" /\ a.tries = Counted(r)
          BY <3>1, <3>2, IdleOK DEF Caller
    <3> HIDE DEF h, a, again
    <3>4. CallerOK(a) /\ a.fd = None /\ a.pc = "ask"
          BY <3>2, <3>3 DEF CallerOK
    <3> QED BY <2>1, <3>4
  <2>2. CASE ~again
        BY <2>2, EndsOK, Constants
  <2> QED BY <2>1, <2>2
<1>3. p \in {None, part}
      OBVIOUS
<1> HIDE DEF x, p
<1>4. Quietly(r, x, p, target)
      BY <1>1, <1>2, <1>3 DEF Quietly, Stays, TypeInv, TypeOK
<1> QED BY <1>4 DEF Shaped

LEMMA CallQuietly ==
    ASSUME TypeInv, NEW r \in Writers, Call(r)
    PROVE  Shaped(r)
<1>1. crowd \/ \A v \in Writers : w[v].pc \in Ended
      BY DEF Call
<1>2. good' \in BOOLEAN /\ UNCHANGED <<kind, crowd>>
      BY DEF Call, TypeInv, TypeOK
<1>3. CASE Reusable
  <2>1. /\ Disk(part, target, data, Goes(r, Ends("ok"))) /\ marked' = Rule.marks
        /\ UNCHANGED mixed
        BY <1>3 DEF Call
  <2>2. Vouched(r)
        BY <1>3 DEF Reusable, Vouched
  <2>3. marked' \in BOOLEAN /\ (marked' => kind \in Marking)
        BY <2>1, Rules
  <2>4. Quietly(r, Ends("ok"), part, target)
        BY <1>1, <1>2, <2>1, <2>2, <2>3, EndsOK, Constants DEF Quietly
  <2> QED BY <2>4 DEF Shaped
<1>4. CASE ~Reusable
  <2> DEFINE old == ~Rule.restat /\ Overlong
             p == IF old THEN None ELSE part
             h == IF old THEN 0 ELSE Length(part)
             x == [Idle EXCEPT !.pc = "ask", !.have = h]
  <2>1. /\ marked' = FALSE /\ Disk(p, None, data, Goes(r, x))
        /\ mixed' = mixed \/ (mixed' = FALSE /\ ~Overlapped(r))
        BY <1>4 DEF Call, Unmixes, TypeInv, TypeOK
  <2>2. h \in Nat
        BY Lengths
  <2>3. x \in Caller /\ x.fd = None /\ x.pc = "ask" /\ x.tries = 0
        BY <2>2, IdleOK DEF Caller
  <2>4. p \in {None, part}
        OBVIOUS
  <2> HIDE DEF h, x, p
  <2>5. CallerOK(x) /\ x.fd = None /\ x.pc = "ask"
        BY <2>3, IdleOK DEF CallerOK
  <2>6. Quietly(r, x, p, None)
        BY <1>1, <1>2, <2>1, <2>4, <2>5 DEF Quietly
  <2> QED BY <2>6 DEF Shaped
<1> QED BY <1>3, <1>4

LEMMA AskQuietly ==
    ASSUME TypeInv, NEW r \in Writers, Ask(r)
    PROVE  Shaped(r)
<1> DEFINE old == Rule.restat /\ Rule.trim /\ Overlong
           p == IF old THEN None ELSE part
           h == IF Rule.restat THEN IF old THEN 0 ELSE Length(part) ELSE w[r].have
           x == [w[r] EXCEPT !.pc = "sent", !.have = h]
<1>1. w[r].pc = "ask" /\ Stays /\ UNCHANGED marked /\ w[r] \in Caller /\ CallerOK(w[r])
      BY CallerTyped DEF Ask
<1>2. Disk(p, target, data, Goes(r, x))
  <2>1. CASE Rule.restat
    <3>1. [To(r, "sent") EXCEPT !.have = IF Rule.trim /\ Overlong THEN 0 ELSE Length(part)] = x
          BY <1>1, <2>1 DEF To, Caller
    <3> QED BY <2>1, <3>1 DEF Ask
  <2>2. CASE ~Rule.restat
    <3>1. To(r, "sent") = x
          BY <1>1, <2>2 DEF To, Caller
    <3> QED BY <2>2, <3>1 DEF Ask
  <2> QED BY <2>1, <2>2
<1>3. h \in Nat /\ (kind \in Marking => h = Length(p)) /\ (kind = "shared" => h = w[r].have)
      BY <1>1, Lengths, Rules DEF Length, Caller, Marking
<1>4. p \in {None, part}
      OBVIOUS
<1>5. x \in Caller /\ x.pc = "sent" /\ x.fd = w[r].fd /\ x.tries = w[r].tries /\ x.have = h
      BY <1>1, <1>3 DEF Caller
<1> HIDE DEF h, x, p
<1>6. CallerOK(x) /\ x.fd = None
      BY <1>1, <1>3, <1>5 DEF CallerOK
<1>7. w[r].pc \notin Ended /\ x.pc \notin {"mark", "rename", "ok"}
      BY <1>1, <1>5, Constants
<1>8. Quietly(r, x, p, target)
      BY <1>1, <1>2, <1>3, <1>4, <1>5, <1>6, <1>7 DEF Quietly, Stays, TypeInv, TypeOK
<1> QED BY <1>8 DEF Shaped

\* A .part that is ready to be renamed.
LEMMA ReadyQuietly ==
    ASSUME TypeInv, NEW r \in Writers, w[r].pc \notin Ended, NEW n \in Nat,
           n = 0 \/ n = w[r].tries,
           Disk(part, target, data, Goes(r, [Idle EXCEPT !.pc = "rename", !.tries = n])),
           Has(part) \/ (kind = "blob" /\ w[r].pc = "read" /\ Right(w[r].hash)),
           Stays, UNCHANGED marked, n # Tries[kind]
    PROVE  Shaped(r)
<1> DEFINE x == [Idle EXCEPT !.pc = "rename", !.tries = n]
<1>1. n \in 0..Tries[kind]
      BY CallerTyped, IdleOK DEF Caller
<1>2. x \in Caller /\ x.fd = None /\ x.pc = "rename" /\ x.tries = n
      BY <1>1, IdleOK DEF Caller
<1>3. CallerOK(x)
      BY <1>2 DEF CallerOK
<1>4. Disk(part, target, data, Goes(r, x))
      OBVIOUS
<1> HIDE DEF x
<1>5. Quietly(r, x, part, target)
      BY <1>2, <1>3, <1>4, Constants DEF Quietly, Stays, TypeInv, TypeOK
<1> QED BY <1>5 DEF Shaped

LEMMA RenameReady ==
    ASSUME TypeInv
    PROVE  [Idle EXCEPT !.pc = "rename"] = [Idle EXCEPT !.pc = "rename", !.tries = 0]
BY IdleOK DEF Caller

\* Steps that fail or end the call.
LEMMA GaveUp ==
    ASSUME TypeInv, NEW r \in Writers, w[r].pc \notin Ended, GivesUp(r),
           UNCHANGED <<kind, crowd, mixed, marked>>, good' \in BOOLEAN
    PROVE  Shaped(r)
BY GivesUpQuietly DEF Shaped

LEMMA AnswersShaped ==
    ASSUME TypeInv, NEW r \in Writers,
           AnswerRest(r) \/ AnswerAll(r) \/ AnswerRange(r) \/ AnswerError(r)
    PROVE  Shaped(r)
<1>1. /\ w[r].pc = "sent" /\ w[r].pc \notin Ended /\ Stays /\ UNCHANGED marked
      /\ UNCHANGED <<kind, crowd, mixed>> /\ good' \in BOOLEAN /\ w[r] \in Caller /\ CallerOK(w[r])
      BY CallerTyped, Constants
         DEF AnswerRest, AnswerAll, AnswerRange, AnswerError, Stays, TypeInv, TypeOK
<1>2. CASE AnswerRest(r)
  <2>1. CASE kind = "blob" /\ w[r].have > 0 /\ part = None
    <3>1. GivesUp(r)
          BY <1>2, <2>1 DEF AnswerRest
    <3> QED BY <1>1, <3>1, GaveUp
  <2>2. CASE ~(kind = "blob" /\ w[r].have > 0 /\ part = None)
    <3>1. Open(r, part, w[r].have) /\ w[r].have < Size
          BY <1>2, <2>2 DEF AnswerRest
    <3> QED BY <1>1, <2>2, <3>1 DEF Shaped, Opens
  <2> QED BY <2>1, <2>2
<1>3. CASE AnswerAll(r)
  <2>1. CASE Rule.restart = "go on"
    <3>1. Open(r, None, 0)
          BY <1>3, <2>1 DEF AnswerAll
    <3> QED BY <1>1, <3>1 DEF Shaped, Opens
  <2>2. CASE Rule.restart # "go on"
    <3> DEFINE n == w[r].tries + IF kind = "shared" THEN 1 ELSE 0
               x == [Idle EXCEPT !.pc = "ask", !.tries = n]
    <3>1. Disk(None, target, data, Goes(r, x)) /\ w[r].have > 0
          BY <1>3, <2>2 DEF AnswerAll
    <3>2. w[r].tries \in 0..Tries[kind] /\ w[r].have \in Nat /\ Tries[kind] \in Nat
          BY <1>1, IdleOK DEF Caller
    <3>3. w[r].tries # Tries[kind]
          BY <1>1, <3>1, <3>2 DEF CallerOK
    <3>4. n \in 0..Tries[kind] /\ (n = Tries[kind] => kind = "shared")
          BY <3>2, <3>3
    <3>5. x \in Caller /\ x.fd = None /\ x.pc = "ask" /\ x.tries = n /\ x.have = 0
          BY <3>4, IdleOK DEF Caller
    <3> HIDE DEF n
    <3>6. CallerOK(x)
          BY <3>4, <3>5 DEF CallerOK
    <3> HIDE DEF x
    <3>7. Quietly(r, x, None, target)
          BY <1>1, <3>1, <3>5, <3>6 DEF Quietly, TypeInv, TypeOK
    <3> QED BY <3>7 DEF Shaped
  <2> QED BY <2>1, <2>2
<1>4. CASE AnswerRange(r)
  <2>1. CASE ~Rule.marks \/ (kind = "archive" /\ w[r].have # Size)
    <3>1. Failed(r, "refused")
          BY <1>4, <2>1 DEF AnswerRange
    <3> QED BY <1>1, <3>1, FailedQuietly
  <2>2. CASE ~(~Rule.marks \/ (kind = "archive" /\ w[r].have # Size)) /\ Complete
    <3>1. Disk(part, target, data, Goes(r, [Idle EXCEPT !.pc = "rename"]))
          BY <1>4, <2>2 DEF AnswerRange
    <3> QED BY <1>1, <2>2, <3>1, ReadyQuietly, RenameReady, IdleOK DEF Complete
  <2>3. CASE ~(~Rule.marks \/ (kind = "archive" /\ w[r].have # Size)) /\ ~Complete
    <3>1. GivesUp(r) \/ Failed(r, "refused")
          BY <1>4, <2>3 DEF AnswerRange
    <3> QED BY <1>1, <3>1, GaveUp, FailedQuietly
  <2> QED BY <2>1, <2>2, <2>3
<1>5. CASE AnswerError(r)
      BY <1>1, <1>5, FailedQuietly DEF AnswerError
<1> QED BY <1>2, <1>3, <1>4, <1>5

LEMMA EndsShaped ==
    ASSUME TypeInv, NEW r \in Writers,
           Break(r) \/ End(r) \/ Check(r) \/ Mark(r) \/ Cancel(r) \/ (Rename(r) /\ part = None)
    PROVE  Shaped(r)
<1>1. /\ w[r].pc \in {"read", "check", "mark", "rename", "ask"} /\ w[r].pc \notin Ended
      /\ UNCHANGED <<kind, crowd, mixed>> /\ good' \in BOOLEAN /\ w[r] \in Caller /\ CallerOK(w[r])
      BY CallerTyped, Constants
         DEF Break, End, Check, Mark, Cancel, Rename, Stays, TypeInv, TypeOK
<1>2. CASE Break(r)
      BY <1>1, <1>2, FailedQuietly DEF Break
<1>3. CASE Cancel(r)
      BY <1>1, <1>3, GaveUp DEF Cancel
<1>4. CASE Rename(r) /\ part = None
  <2>1. GivesUp(r) /\ UNCHANGED marked
        BY <1>4 DEF Rename
  <2> QED BY <1>1, <2>1, GaveUp
<1>5. CASE Check(r)
  <2>1. CASE Whole
    <3>1. Disk(part, target, data, Goes(r, [Idle EXCEPT !.pc = "rename"]))
          BY <1>5, <2>1 DEF Check
    <3> QED BY <1>1, <1>5, <2>1, <3>1, ReadyQuietly, RenameReady, IdleOK DEF Check, Whole
  <2>2. CASE ~Whole
    <3>1. GivesUp(r) \/ Failed(r, "wrong")
          BY <1>5, <2>2 DEF Check
    <3> QED BY <1>1, <1>5, <3>1, GaveUp, FailedQuietly DEF Check
  <2> QED BY <2>1, <2>2
<1>6. CASE Mark(r)
  <2> DEFINE pc == IF target = None THEN "failed" ELSE "ok"
  <2>1. /\ w[r].pc = "mark" /\ marked' = (target # None)
        /\ Disk(part, target, data, Goes(r, Ends(pc)))
        BY <1>6 DEF Mark
  <2>2. kind \in Marking /\ Vouched(r)
        BY <1>1, <2>1 DEF CallerOK, Vouched
  <2>3. pc \in Ended /\ pc # "rename" /\ pc # "mark" /\ pc # "sent"
        BY Constants
  <2>4. marked' \in BOOLEAN
        BY <2>1
  <2> HIDE DEF pc
  <2>5. Quietly(r, Ends(pc), part, target)
        BY <1>1, <2>1, <2>2, <2>3, <2>4, EndsOK DEF Quietly
  <2> QED BY <2>5 DEF Shaped
<1>7. CASE End(r)
  <2>1. w[r].pc = "read" /\ Stays /\ UNCHANGED marked
        BY <1>7 DEF End
  <2>2. CASE GivesUp(r) \/ Failed(r, "size") \/ Failed(r, "wrong")
        BY <1>1, <2>1, <2>2, GaveUp, FailedQuietly
  <2>3. CASE ~(GivesUp(r) \/ Failed(r, "size") \/ Failed(r, "wrong"))
    <3> DEFINE y == IF kind = "blob" THEN "rename" ELSE "check"
               x == [Idle EXCEPT !.tries = w[r].tries, !.pc = y]
    <3>1. /\ Disk(part, target, data, Goes(r, x))
          /\ kind = "blob" => Right(w[r].hash)
          BY <1>7, <2>3 DEF End
    <3>2. w[r].tries \in 0..Tries[kind]
          BY <1>1 DEF Caller
    <3>3. x \in Caller /\ x.fd = None /\ x.pc = y /\ x.tries = w[r].tries
          BY <3>2, IdleOK DEF Caller
    <3>4. y \in {"rename", "check"} /\ (y = "rename" => kind = "blob")
          OBVIOUS
    <3> HIDE DEF x, y
    <3>5. CallerOK(x)
          BY <1>1, <2>1, <3>3, <3>4 DEF CallerOK
    <3>6. Quietly(r, x, part, target)
          BY <1>1, <2>1, <3>1, <3>3, <3>4, <3>5, Constants DEF Quietly, TypeInv, TypeOK
    <3> QED BY <3>6 DEF Shaped
  <2> QED BY <2>2, <2>3
<1> QED BY <1>1, <1>2, <1>3, <1>4, <1>5, <1>6, <1>7

LEMMA StepShaped ==
    ASSUME TypeInv, NEW r \in Writers, Call(r) \/ Step(r) \/ Cancel(r)
    PROVE  Shaped(r)
<1>1. CASE Call(r)
      BY <1>1, CallQuietly
<1>2. CASE Cancel(r)
      BY <1>2, EndsShaped
<1>3. CASE Step(r)
  <2>1. CASE Ask(r)
        BY <2>1, AskQuietly
  <2>2. CASE AnswerRest(r) \/ AnswerAll(r) \/ AnswerRange(r) \/ AnswerError(r)
        BY <2>2, AnswersShaped
  <2>3. CASE Break(r) \/ End(r) \/ Check(r) \/ Mark(r) \/ (Rename(r) /\ part = None)
        BY <2>3, EndsShaped
  <2> QED BY <1>3, <2>1, <2>2, <2>3 DEF Step, Shaped
<1> QED BY <1>1, <1>2, <1>3

\* The file a call opens: it continues the .part or has a new one, and cuts it when it
\* starts over.
LEMMA OpenStep ==
    ASSUME TypeInv, NEW r \in Writers, Opens(r)
    PROVE  /\ TypeInv' /\ UNCHANGED <<kind, crowd, good, mixed, marked, target>>
           /\ \A v \in Writers : v # r => w'[v] = w[v]
           /\ part' \in Files /\ part' # target
           /\ part' = part \/ \A v \in Writers : w[v].fd # part'
           /\ w'[r].pc = "read" /\ w'[r].fd = part'
           /\ w'[r].have = 0 => data'[part'] = <<>>
           /\ w'[r].have # 0 => /\ data'[part'] = data[part']
                                /\ w'[r].have = w[r].have /\ (part # None => part' = part)
                                /\ kind = "blob" => part # None
           /\ kind = "blob" => w'[r].hash = data'[part']
           /\ target # None => data'[target] = data[target]
<1>1. /\ w[r].pc = "sent" /\ w[r] \in Caller /\ CallerOK(w[r]) /\ w[r].fd = None
      /\ UNCHANGED <<kind, crowd, good, mixed, marked>>
      BY CallerTyped DEF Opens, Stays, CallerOK
<1>2. PICK p \in {part, None}, h \in {0, w[r].have} :
         /\ Open(r, p, h) /\ (p = part \/ h = 0)
         /\ kind = "blob" /\ h > 0 => part # None
      BY DEF Opens
<1> DEFINE f == IF p = None THEN NewFile ELSE p
           d == IF h = 0 THEN [data EXCEPT ![f] = <<>>] ELSE data
           x == [w[r] EXCEPT !.pc = "read", !.fd = f, !.append = h > 0, !.have = h,
                             !.hash = IF kind = "blob" /\ h > 0 THEN data[f] ELSE <<>>]
<1>3. f \in Files /\ f # target /\ (f = part \/ \A v \in Writers : w[v].fd # f)
      /\ (h > 0 /\ part # None => f = part)
      BY <1>1, <1>2, NewFileFree DEF TypeInv, TypeOK
<1>4. Disk(f, target, d, Goes(r, x))
  <2>1. [To(r, "read") EXCEPT !.fd = f, !.append = h > 0, !.have = h,
             !.hash = IF kind = "blob" /\ h > 0 THEN data[f] ELSE <<>>] = x
        BY <1>1 DEF To, Caller
  <2> QED BY <1>2, <2>1 DEF Open
<1>5. d \in [Files -> Seq(Blocks)] /\ (h = 0 => d[f] = <<>>)
      /\ (h # 0 => d[f] = data[f]) /\ \A g \in Files : g # f => d[g] = data[g]
  <2>1. <<>> \in Seq(Blocks)
        OBVIOUS
  <2> QED BY <1>3, <2>1 DEF TypeInv
<1> DEFINE y == IF kind = "blob" /\ h > 0 THEN data[f] ELSE <<>>
<1>6. h \in Nat /\ y \in Seq(Blocks) /\ (h > 0) \in BOOLEAN
  <2>1. data[f] \in Seq(Blocks) /\ <<>> \in Seq(Blocks)
        BY <1>3 DEF TypeInv
  <2> QED BY <1>1, <1>2, <2>1 DEF Caller
<1>7. /\ x \in Caller /\ x.pc = "read" /\ x.fd = f /\ x.have = h /\ x.hash = y
      /\ x.tries = w[r].tries
  <2>1. x = [w[r] EXCEPT !.pc = "read", !.fd = f, !.append = h > 0, !.have = h, !.hash = y]
        OBVIOUS
  <2> HIDE DEF f, d, y, x
  <2> QED BY <1>1, <1>3, <1>6, <2>1 DEF Caller
<1> HIDE DEF f, d
<1> HIDE DEF x
<1>8. CallerOK(x)
      BY <1>1, <1>3, <1>7, Constants DEF CallerOK
<1>9. /\ TypeInv' /\ part' = f /\ target' = target
      /\ w'[r] = x /\ \A v \in Writers : v # r => w'[v] = w[v]
      /\ data'[f] = d[f] /\ (target # None => data'[target] = d[target])
  <2>1. /\ target \in Files \cup {None} /\ good' \in BOOLEAN /\ marked' \in BOOLEAN
        /\ mixed' \in BOOLEAN
        /\ (marked' => kind \in Marking) /\ UNCHANGED <<kind, crowd>>
        /\ (f # None => f # target) /\ f \in Files \cup {None}
        BY <1>1, <1>3 DEF TypeInv, TypeOK
  <2> HIDE DEF y
  <2>2. d \in [Files -> Seq(Blocks)]
        BY <1>5
  <2>3. CallerOK(x)
        BY <1>8
  <2>4. Disk(f, target, d, Goes(r, x))
        BY <1>4
  <2>5. TypeInv' /\ part' = f /\ target' = target
        BY <2>1, <2>2, <2>3, <2>4, DiskStep
  <2>6. w'[r] = x /\ \A v \in Writers : v # r => w'[v] = w[v]
        BY <2>1, <2>2, <2>3, <2>4, DiskStep
  <2>7. data' = [g \in Files |-> IF g \in {f, target} THEN d[g] ELSE <<>>]
        BY <2>4 DEF Disk
  <2>8. /\ f # None => data'[f] = d[f]
        /\ target # None => data'[target] = d[target]
        BY <2>1, <2>7
  <2> QED BY <1>3, <2>5, <2>6, <2>8, Constants
<1>10. kind = "blob" => x.hash = data'[f]
  <2>1. h = 0 => y = <<>>
        OBVIOUS
  <2>2. h # 0 /\ kind = "blob" => y = data[f]
        BY <1>6
  <2> QED BY <1>5, <1>7, <1>9, <2>1, <2>2
<1>11. target # None => data'[target] = data[target]
       BY <1>3, <1>5, <1>9 DEF TypeInv, TypeOK
<1> HIDE DEF y
<1> QED BY <1>1, <1>2, <1>3, <1>5, <1>6, <1>7, <1>9, <1>10, <1>11

\* The file s with the block b behind its first h.
Placed(s, h, b) ==
    [k \in 1..(IF h + 1 > Len(s) THEN h + 1 ELSE Len(s)) |->
        IF k = h + 1 THEN b ELSE IF k <= Len(s) THEN s[k] ELSE Wrong]

LEMMA WrittenBlock ==
    ASSUME NEW s \in Seq(Blocks), NEW h \in Nat, NEW b \in Blocks
    PROVE  /\ Placed(s, h, b) \in Seq(Blocks)
           /\ Len(Placed(s, h, b)) = (IF h + 1 > Len(s) THEN h + 1 ELSE Len(s))
           /\ \A k \in 1..Len(s) : k # h + 1 => Placed(s, h, b)[k] = s[k]
           /\ Placed(s, h, b)[h + 1] = b
           /\ h = Len(s) => Placed(s, h, b) = Append(s, b)
<1> DEFINE z == Placed(s, h, b)
<1> DEFINE n == IF h + 1 > Len(s) THEN h + 1 ELSE Len(s)
<1>1. n \in Nat /\ Len(s) \in Nat
      BY LenProperties
<1>2. \A k \in 1..Len(s) : s[k] \in Blocks
      BY ElementOfSeq
<1>3. z = [k \in 1..n |-> IF k = h + 1 THEN b ELSE IF k <= Len(s) THEN s[k] ELSE Wrong]
      BY DEF Placed
<1> HIDE DEF z
<1>4. z \in [1..n -> Blocks]
      BY <1>1, <1>2, <1>3, Constants
<1>5. z \in Seq(Blocks) /\ Len(z) = n
      BY <1>1, <1>4, SeqDef, LenProperties
<1>6. h = Len(s) => z = Append(s, b)
  <2> SUFFICES ASSUME h = Len(s) PROVE z = Append(s, b)
      OBVIOUS
  <2>1. Append(s, b) \in Seq(Blocks) /\ Len(Append(s, b)) = Len(s) + 1
        /\ \A k \in 1..(Len(s) + 1) : Append(s, b)[k] = IF k <= Len(s) THEN s[k] ELSE b
        BY AppendProperties
  <2>2. \A k \in 1..Len(z) : z[k] = Append(s, b)[k]
        BY <1>1, <1>3, <1>5, <2>1
  <2>3. Len(z) = Len(Append(s, b))
        BY <1>1, <1>5, <2>1
  <2> HIDE DEF n
  <2> QED BY ONLY <1>5, <2>1, <2>2, <2>3, SeqEqual
<1> QED BY <1>1, <1>3, <1>5, <1>6 DEF z

\* A call that reads writes one block into the file it has open, which somebody can look
\* at if it has a name.
LEMMA ReadStep ==
    ASSUME TypeInv, NEW r \in Writers, Read(r)
    PROVE  /\ TypeInv' /\ UNCHANGED <<kind, crowd, good, part, target>>
           /\ w[r].pc = "read" /\ w[r].fd \in Files /\ w[r].have \in Nat
           /\ marked' = (marked /\ w[r].fd # target)
           /\ w'[r].pc = "read" /\ w'[r].fd = w[r].fd /\ w'[r].have = w[r].have + 1
           /\ \A v \in Writers : v # r => w'[v] = w[v]
           /\ \A f \in {part, target} : f # None /\ f # w[r].fd => data'[f] = data[f]
           /\ \E b \in Blocks :
                /\ \/ b = w[r].have + 1 /\ w[r].have < Size /\ mixed' = mixed
                   \/ b = Wrong /\ mixed' = (mixed \/ Overlapped(r))
                /\ w[r].fd \in {part, target} => data'[w[r].fd] = Written(r, b)
                /\ kind = "blob" => w'[r].hash = Append(w[r].hash, b)
<1>1. /\ w[r].pc = "read" /\ w[r] \in Caller /\ CallerOK(w[r]) /\ w[r].fd \in Files
      /\ w[r].have \in Nat /\ w[r].hash \in Seq(Blocks)
      /\ UNCHANGED <<kind, crowd, good>> /\ marked' = (marked /\ w[r].fd # target)
      BY CallerTyped, Constants DEF Read, CallerOK, Caller
<1> DEFINE f == w[r].fd
           h == w[r].have
<1>2. PICK b \in {h + 1, Wrong} :
         /\ IF b = Wrong THEN ~good /\ h < Longest ELSE h < Size
         /\ Mixes(r, b)
         /\ Disk(part, target, [data EXCEPT ![f] = Written(r, b)],
                 Goes(r, [w[r] EXCEPT !.have = @ + 1,
                            !.hash = IF kind = "blob" THEN Append(@, b) ELSE @]))
      BY DEF Read
<1>3. /\ b \in Blocks /\ mixed' \in BOOLEAN
      /\ \/ b = h + 1 /\ h < Size /\ mixed' = mixed
         \/ b = Wrong /\ mixed' = (mixed \/ Overlapped(r))
  <2>1. CASE b = Wrong
        BY <1>2, <2>1, Constants DEF Mixes
  <2>2. CASE b # Wrong
    <3>1. b = h + 1 /\ h < Size /\ mixed' = mixed /\ mixed \in BOOLEAN
          BY <1>2, <2>2 DEF Mixes, TypeInv, TypeOK
    <3>2. Size \in Nat /\ h \in Nat
          BY <1>1, ConstantsAssumption
    <3> HIDE DEF h
    <3>3. b \in Blocks
          BY <3>1, <3>2 DEF Blocks
    <3> QED BY <3>1, <3>3
  <2> QED BY <2>1, <2>2
<1> DEFINE z == Written(r, b)
           d == [data EXCEPT ![f] = z]
           y == IF kind = "blob" THEN Append(w[r].hash, b) ELSE w[r].hash
           x == [w[r] EXCEPT !.have = h + 1, !.hash = y]
<1>4. z \in Seq(Blocks)
  <2>1. data[f] \in Seq(Blocks)
        BY <1>1 DEF TypeInv
  <2>2. Append(data[f], b) \in Seq(Blocks)
        BY <1>3, <2>1, AppendProperties
  <2>3. Placed(data[f], h, b) \in Seq(Blocks)
        BY <1>1, <1>3, <2>1, WrittenBlock
  <2> QED BY <2>2, <2>3 DEF Written, Placed
<1> HIDE DEF z
<1>5. d \in [Files -> Seq(Blocks)] /\ d[f] = z /\ \A g \in Files : g # f => d[g] = data[g]
      BY <1>1, <1>4 DEF TypeInv
<1>6. y \in Seq(Blocks) /\ (kind = "blob" => y = Append(w[r].hash, b))
      BY <1>1, <1>3, AppendProperties
<1>7. Disk(part, target, d, Goes(r, x))
  <2>1. [w[r] EXCEPT !.have = @ + 1, !.hash = IF kind = "blob" THEN Append(@, b) ELSE @] = x
        BY <1>1 DEF Caller
  <2> QED BY <1>2, <2>1 DEF z
<1> HIDE DEF y, d
<1>8. x \in Caller /\ x.pc = "read" /\ x.fd = f /\ x.have = h + 1 /\ x.hash = y
      /\ x.tries = w[r].tries
  <2>1. h + 1 \in Nat
        BY <1>1
  <2>2. x = [w[r] EXCEPT !.have = h + 1, !.hash = y]
        OBVIOUS
  <2> HIDE DEF x
  <2> QED BY <1>1, <1>6, <2>1, <2>2 DEF Caller
<1> HIDE DEF x
<1>9. CallerOK(x)
      BY <1>1, <1>8 DEF CallerOK
<1>10. /\ part \in Files \cup {None} /\ target \in Files \cup {None} /\ good' \in BOOLEAN
       /\ mixed' \in BOOLEAN /\ marked' \in BOOLEAN /\ (marked' => kind \in Marking) /\ UNCHANGED <<kind, crowd>>
       /\ (part # None => part # target)
       BY <1>1, <1>3 DEF TypeInv, TypeOK
<1>11. /\ TypeInv' /\ part' = part /\ target' = target
       /\ w'[r] = x /\ \A v \in Writers : v # r => w'[v] = w[v]
       BY <1>5, <1>7, <1>9, <1>10, DiskStep
<1>12. data' = [g \in Files |-> IF g \in {part, target} THEN d[g] ELSE <<>>]
       BY <1>7 DEF Disk
<1>13. /\ f \in {part, target} => data'[f] = z
       /\ \A g \in {part, target} : g # None /\ g # f => data'[g] = data[g]
       BY <1>1, <1>5, <1>8, <1>10, <1>11, <1>12
<1>14. w'[r].pc = "read" /\ w'[r].fd = f /\ w'[r].have = h + 1
       /\ (kind = "blob" => w'[r].hash = Append(w[r].hash, b))
       BY <1>6, <1>8, <1>11
<1> QED BY <1>1, <1>3, <1>11, <1>13, <1>14 DEF z

\* The .part takes the target's name.
LEMMA RenameStep ==
    ASSUME TypeInv, NEW r \in Writers, Rename(r), part # None
    PROVE  /\ TypeInv' /\ UNCHANGED <<kind, crowd, good, mixed>>
           /\ w[r].pc = "rename" /\ part' = None /\ target' = part /\ marked' = FALSE
           /\ w'[r].pc \in {"mark", "ok"} /\ w'[r].fd = None
           /\ \A v \in Writers : v # r => w'[v] = w[v]
           /\ data'[part] = data[part]
<1> DEFINE x == IF Rule.marks THEN [Idle EXCEPT !.pc = "mark"] ELSE Ends("ok")
<1>1. /\ w[r].pc = "rename" /\ UNCHANGED <<kind, crowd, good, mixed>> /\ marked' = FALSE
      /\ Disk(None, part, data, Goes(r, x))
      BY DEF Rename, Stays
<1>2. CallerOK(x) /\ x.fd = None /\ x.pc \in {"mark", "ok"}
  <2>1. CASE Rule.marks
    <3>1. x \in Caller /\ x.pc = "mark" /\ x.fd = None /\ x.tries = 0
          BY <2>1, IdleOK DEF Caller
    <3> HIDE DEF x
    <3> QED BY <2>1, <3>1, IdleOK, Rules DEF CallerOK
  <2>2. CASE ~Rule.marks
        BY <2>2, EndsOK, Constants
  <2> QED BY <2>1, <2>2
<1> HIDE DEF x
<1>3. /\ part \in Files /\ good' \in BOOLEAN /\ mixed' \in BOOLEAN /\ data \in [Files -> Seq(Blocks)]
      /\ None \in Files \cup {None}
      BY <1>1 DEF TypeInv, TypeOK
<1>4. /\ TypeInv' /\ part' = None /\ target' = part
      /\ w'[r] = x /\ \A v \in Writers : v # r => w'[v] = w[v]
      BY <1>1, <1>2, <1>3, DiskStep
<1>5. data' = [g \in Files |-> IF g \in {None, part} THEN data[g] ELSE <<>>]
      BY <1>1, <1>4 DEF Disk
<1>6. data'[part] = data[part]
      BY <1>3, <1>5
<1> QED BY <1>1, <1>2, <1>4, <1>6

\* All other steps leave the files alone, and drop a name at most.
LEMMA QuietStep ==
    ASSUME TypeInv, NEW r \in Writers, NEW x, NEW p, NEW t, Quietly(r, x, p, t)
    PROVE  /\ TypeInv' /\ part' = p /\ target' = t /\ w'[r] = x
           /\ \A v \in Writers : v # r => w'[v] = w[v]
           /\ part' # None => data'[part'] = data[part]
           /\ target' # None => data'[target'] = data[target]
<1>1. /\ p \in Files \cup {None} /\ t \in Files \cup {None} /\ (p # None => p # t)
      /\ good' \in BOOLEAN /\ data \in [Files -> Seq(Blocks)] /\ marked' \in BOOLEAN
      /\ mixed' \in BOOLEAN
      /\ (marked' => kind \in Marking) /\ UNCHANGED <<kind, crowd>> /\ CallerOK(x)
      /\ Disk(p, t, data, Goes(r, x)) /\ p \in {None, part} /\ t \in {None, target}
      BY DEF Quietly, TypeInv, TypeOK
<1>2. TypeInv' /\ part' = p /\ target' = t
      BY <1>1, DiskStep
<1>3. w'[r] = x /\ \A v \in Writers : v # r => w'[v] = w[v]
      BY <1>1, DiskStep
<1>4. data' = [g \in Files |-> IF g \in {p, t} THEN data[g] ELSE <<>>]
      BY <1>1, <1>2 DEF Disk
<1> QED BY <1>1, <1>2, <1>3, <1>4

----------------------------------------------------------------------------
(* Calls that do not overlap.  What a call has hashed is what the .part    *)
(* holds, and nobody else touches it.                                      *)

CallSound(r) ==
    /\ w[r].pc = "sent" /\ kind = "blob" => w[r].have = Length(part)
    /\ w[r].pc = "read" => part # None /\ w[r].fd = part
    /\ w[r].pc = "read" /\ kind = "blob" =>
          w[r].hash = data[part] /\ w[r].have = Len(data[part])
    /\ w[r].pc = "rename" => Has(part)
    /\ w[r].pc = "mark" => Has(target)

MarkSound == marked /\ Length(target) = Size => Has(target)

SoloInv ==
    ~crowd =>
      /\ \A r, v \in Writers : w[r].pc \notin Ended /\ w[v].pc \notin Ended => r = v
      /\ \A r \in Writers : CallSound(r)
      /\ MarkSound

\* The call that moves is the only one that is not over.
LEMMA SoloStep ==
    ASSUME TypeInv, SoloInv, ~crowd, NEW r \in Writers, crowd' = crowd,
           w[r].pc \notin Ended \/ \A v \in Writers : w[v].pc \in Ended,
           \A v \in Writers : v # r => w'[v] = w[v],
           CallSound(r)', MarkSound'
    PROVE  SoloInv'
<1>1. \A v \in Writers : v # r => w'[v].pc \in Ended
      BY DEF SoloInv
<1>2. ASSUME NEW v \in Writers PROVE CallSound(v)'
  <2>1. CASE v = r
        BY <2>1
  <2>2. CASE v # r
    <3>1. w'[v].pc \in Ended
          BY <1>1, <2>2
    <3> QED BY <3>1, Constants DEF CallSound
  <2> QED BY <2>1, <2>2
<1>3. \A u, v \in Writers : w'[u].pc \notin Ended /\ w'[v].pc \notin Ended => u = v
      BY <1>1
<1>4. Ended' = Ended
      BY DEF Ended
<1> QED BY <1>2, <1>3, <1>4 DEF SoloInv

LEMMA QuietSolo ==
    ASSUME TypeInv, SoloInv, ~crowd, NEW r \in Writers,
           NEW x, NEW p, NEW t, Quietly(r, x, p, t)
    PROVE  SoloInv' /\ (w'[r].pc = "ok" => Has(target)')
<1>1. /\ TypeInv' /\ part' = p /\ target' = t /\ w'[r] = x
      /\ part' # None => data'[part'] = data[part]
      /\ target' # None => data'[target'] = data[target]
      BY QuietStep
<1>2. \A v \in Writers : v # r => w'[v] = w[v]
      BY QuietStep
<1>3. /\ CallerOK(x) /\ x.fd = None /\ x.pc # "mark" /\ UNCHANGED <<kind, crowd>>
      /\ w[r].pc \notin Ended \/ \A v \in Writers : w[v].pc \in Ended
      /\ p \in {None, part} /\ t \in {None, target}
      /\ x.pc = "sent" /\ kind \in Marking => x.have = Length(p)
      BY DEF Quietly
<1>4. x.pc = "rename" => p = part /\ Has(part)
  <2>1. CallSound(r)
        BY DEF SoloInv
  <2>2. x.pc = "rename" =>
          /\ p = part
          /\ Has(part) \/ (kind = "blob" /\ w[r].pc = "read" /\ Right(w[r].hash))
        BY DEF Quietly
  <2> QED BY <2>1, <2>2 DEF CallSound, Has
<1>5. Vouched(r) => Has(target)
      BY DEF Vouched, SoloInv, CallSound, MarkSound
<1>6. /\ x.pc = "ok" => t = target /\ Vouched(r)
      /\ marked' => t = target /\ (marked \/ Vouched(r))
      BY DEF Quietly
<1>7. t = target /\ Has(target) => Has(target)'
      BY <1>1 DEF Has, Right
<1>8. MarkSound'
  <2> SUFFICES ASSUME marked', Length(target)' = Size PROVE Has(target)'
      BY DEF MarkSound
  <2>1. t = target /\ Length(target) = Size
        BY <1>1, <1>6 DEF Length
  <2> QED BY <1>5, <1>6, <1>7, <2>1 DEF SoloInv, MarkSound
<1>9. CallSound(r)'
  <2>1. x.pc # "read"
        BY <1>3 DEF CallerOK
  <2>2. x.pc = "rename" => Has(part)'
        BY <1>1, <1>4 DEF Has, Right
  <2>3. x.pc = "sent" /\ kind = "blob" => x.have = Length(part)'
        BY <1>1, <1>3 DEF Length, Marking
  <2> QED BY <1>1, <1>3, <2>1, <2>2, <2>3 DEF CallSound
<1>10. SoloInv'
       BY <1>2, <1>3, <1>8, <1>9, SoloStep
<1> QED BY <1>1, <1>5, <1>6, <1>7, <1>10

LEMMA OpenSolo ==
    ASSUME TypeInv, SoloInv, ~crowd, NEW r \in Writers, Opens(r)
    PROVE  SoloInv' /\ w'[r].pc # "ok"
<1>1. /\ UNCHANGED <<kind, crowd, marked, target>> /\ part' \in Files
      /\ w'[r].pc = "read" /\ w'[r].fd = part'
      /\ w'[r].have = 0 => data'[part'] = <<>>
      /\ w'[r].have # 0 => /\ data'[part'] = data[part'] /\ w'[r].have = w[r].have
                           /\ (part # None => part' = part)
                           /\ kind = "blob" => part # None
      /\ kind = "blob" => w'[r].hash = data'[part']
      /\ target # None => data'[target] = data[target]
      BY OpenStep
<1>2. \A v \in Writers : v # r => w'[v] = w[v]
      BY OpenStep
<1>3. w[r].pc = "sent" /\ w[r].pc \notin Ended /\ CallSound(r)
      BY Constants DEF Opens, SoloInv
<1>4. MarkSound'
      BY <1>1 DEF SoloInv, MarkSound, Length, Has, Right
<1>5. kind = "blob" => w'[r].have = Len(data'[part'])
      BY <1>1, <1>3 DEF CallSound, Length
<1>6. CallSound(r)'
      BY <1>1, <1>5, Constants DEF CallSound
<1>7. SoloInv'
      BY <1>1, <1>2, <1>3, <1>4, <1>6, SoloStep
<1> QED BY <1>1, <1>7

LEMMA ReadSolo ==
    ASSUME TypeInv, SoloInv, ~crowd, NEW r \in Writers, Read(r)
    PROVE  SoloInv' /\ w'[r].pc # "ok"
<1>1. /\ UNCHANGED <<kind, crowd, part, target>>
      /\ w[r].pc = "read" /\ w[r].have \in Nat
      /\ marked' = (marked /\ w[r].fd # target)
      /\ w'[r].pc = "read" /\ w'[r].fd = w[r].fd /\ w'[r].have = w[r].have + 1
      BY ReadStep
<1>2. \A v \in Writers : v # r => w'[v] = w[v]
      BY ReadStep
<1>3. \A f \in {part, target} : f # None /\ f # w[r].fd => data'[f] = data[f]
      BY ReadStep
<1>4. PICK b \in Blocks : /\ w[r].fd \in {part, target} => data'[w[r].fd] = Written(r, b)
                          /\ kind = "blob" => w'[r].hash = Append(w[r].hash, b)
      BY ReadStep
<1>5. CallSound(r) /\ w[r].pc \notin Ended /\ w[r].fd = part /\ part # None /\ part # target
      /\ part \in Files
      BY <1>1, Constants DEF SoloInv, CallSound, TypeInv, TypeOK
<1>6. MarkSound'
      BY <1>1, <1>3, <1>5 DEF SoloInv, MarkSound, Length, Has, Right
<1>7. kind = "blob" => w'[r].hash = data'[part] /\ w'[r].have = Len(data'[part])
  <2> SUFFICES ASSUME kind = "blob"
               PROVE  w'[r].hash = data'[part] /\ w'[r].have = Len(data'[part])
      OBVIOUS
  <2>1. w[r].hash = data[part] /\ w[r].have = Len(data[part]) /\ data[part] \in Seq(Blocks)
        BY <1>1, <1>5 DEF CallSound, TypeInv
  <2>2. Written(r, b) = Append(data[part], b)
    <3>1. CASE w[r].append
          BY <1>5, <3>1 DEF Written
    <3>2. CASE ~w[r].append
      <4>1. Written(r, b) = Placed(data[part], w[r].have, b)
            BY <1>5, <3>2 DEF Written, Placed
      <4>2. Placed(data[part], w[r].have, b) = Append(data[part], b)
            BY <1>1, <1>4, <2>1, WrittenBlock
      <4> QED BY <4>1, <4>2
    <3> QED BY <3>1, <3>2
  <2>3. Len(Append(data[part], b)) = Len(data[part]) + 1
        BY <2>1, AppendProperties
  <2> QED BY <1>1, <1>4, <1>5, <2>1, <2>2, <2>3
<1>8. CallSound(r)'
      BY <1>1, <1>5, <1>7 DEF CallSound
<1>9. SoloInv'
      BY <1>1, <1>2, <1>5, <1>6, <1>8, SoloStep
<1> QED BY <1>1, <1>9

LEMMA RenameSolo ==
    ASSUME TypeInv, SoloInv, ~crowd, NEW r \in Writers, Rename(r), part # None
    PROVE  SoloInv' /\ Has(target)'
<1>1. /\ TypeInv' /\ UNCHANGED <<kind, crowd>>
      /\ w[r].pc = "rename" /\ part' = None /\ target' = part /\ marked' = FALSE
      /\ w'[r].pc \in {"mark", "ok"} /\ w'[r].fd = None /\ data'[part] = data[part]
      BY RenameStep
<1>2. \A v \in Writers : v # r => w'[v] = w[v]
      BY RenameStep
<1>3. CallSound(r) /\ w[r].pc \notin Ended
      BY <1>1, Constants DEF SoloInv
<1>4. Has(target)'
      BY <1>1, <1>3 DEF CallSound, Has, Right
<1>5. CallSound(r)' /\ MarkSound'
      BY <1>1, <1>4 DEF CallSound, MarkSound
<1>6. SoloInv'
      BY <1>1, <1>2, <1>3, <1>5, SoloStep
<1> QED BY <1>4, <1>6

LEMMA MoveSolo ==
    ASSUME TypeInv, SoloInv, NEW r \in Writers, Call(r) \/ Step(r) \/ Cancel(r)
    PROVE  /\ TypeInv' /\ SoloInv'
           /\ ~crowd /\ w'[r].pc = "ok" => \/ Has(target)'
                                           \/ w'[r] = w[r]
           /\ \A v \in Writers : v # r => w'[v] = w[v]
<1>1. CASE \E x, p, t : Quietly(r, x, p, t)
  <2>1. PICK x, p, t : Quietly(r, x, p, t)
        BY <1>1
  <2>2. TypeInv' /\ (\A v \in Writers : v # r => w'[v] = w[v]) /\ crowd' = crowd
        BY <2>1, QuietStep DEF Quietly
  <2>3. ~crowd => SoloInv' /\ (w'[r].pc = "ok" => Has(target)')
        BY <2>1, QuietSolo
  <2> QED BY <2>2, <2>3 DEF SoloInv
<1>2. CASE Opens(r)
  <2>1. TypeInv' /\ (\A v \in Writers : v # r => w'[v] = w[v]) /\ crowd' = crowd
        BY <1>2, OpenStep
  <2>2. ~crowd => SoloInv' /\ w'[r].pc # "ok"
        BY <1>2, OpenSolo
  <2> QED BY <2>1, <2>2 DEF SoloInv
<1>3. CASE Read(r)
  <2>1. TypeInv' /\ (\A v \in Writers : v # r => w'[v] = w[v]) /\ crowd' = crowd
        BY <1>3, ReadStep
  <2>2. ~crowd => SoloInv' /\ w'[r].pc # "ok"
        BY <1>3, ReadSolo
  <2> QED BY <2>1, <2>2 DEF SoloInv
<1>4. CASE Rename(r) /\ part # None
  <2>1. TypeInv' /\ (\A v \in Writers : v # r => w'[v] = w[v]) /\ crowd' = crowd
        BY <1>4, RenameStep
  <2>2. ~crowd => SoloInv' /\ Has(target)'
        BY <1>4, RenameSolo
  <2> QED BY <2>1, <2>2 DEF SoloInv
<1> QED BY <1>1, <1>2, <1>3, <1>4, StepShaped DEF Shaped

\* After a crash the files that have a name are as they were, and every call is over.
LEMMA CrashStep ==
    ASSUME TypeInv, Crash
    PROVE  /\ TypeInv' /\ UNCHANGED <<kind, crowd, mixed, marked, part, target>>
           /\ \A r \in Writers : w'[r] = Idle
           /\ part # None => data'[part] = data[part]
           /\ target # None => data'[target] = data[target]
<1>1. /\ UNCHANGED <<kind, crowd, mixed, marked, part, target>> /\ good' = FALSE
      /\ w' = [r \in Writers |-> Idle]
      /\ data' = [f \in Files |-> IF f \in {part, target} THEN data[f] ELSE <<>>]
      BY DEF Crash, Disk
<1>2. <<>> \in Seq(Blocks)
      OBVIOUS
<1>3. data' \in [Files -> Seq(Blocks)]
      BY <1>1, <1>2 DEF TypeInv
<1>4. Idle \in Caller /\ Idle.fd = None /\ Idle.pc = "idle" /\ Idle.tries # Tries[kind]
      BY IdleOK
<1>5. CallerOK(Idle)
      BY <1>4 DEF CallerOK
<1>6. Caller' = Caller
      BY <1>1 DEF Caller
<1>7. \A r \in Writers : w'[r] = Idle
      BY <1>1
<1>8. \A r \in Writers : CallerOK(w[r])'
      BY <1>1, <1>5, <1>6, <1>7 DEF CallerOK
<1>9. w' \in [Writers -> Caller]
      BY <1>1, <1>4
<1>10. TypeOK'
       BY <1>1, <1>3, <1>6, <1>9 DEF TypeInv, TypeOK, Caller
<1>11. TypeInv'
       BY <1>1, <1>3, <1>8, <1>10 DEF TypeInv
<1>12. part \in Files \cup {None} /\ target \in Files \cup {None}
       BY DEF TypeInv, TypeOK
<1> QED BY <1>1, <1>7, <1>11, <1>12

LEMMA CrashSolo ==
    ASSUME TypeInv, SoloInv, Crash
    PROVE  SoloInv'
<1> SUFFICES ASSUME ~crowd PROVE SoloInv'
    BY CrashStep DEF SoloInv
<1>1. /\ UNCHANGED <<kind, crowd, marked, target>>
      /\ target # None => data'[target] = data[target]
      BY CrashStep
<1>2. \A r \in Writers : w'[r] = Idle
      BY CrashStep
<1>3. Idle.pc = "idle" /\ "idle" \in Ended' /\ Idle.pc \in Ended
      BY IdleOK, Constants DEF Ended
<1>4. MarkSound'
      BY <1>1 DEF SoloInv, MarkSound, Length, Has, Right
<1>5. \A r \in Writers : CallSound(r)'
      BY <1>2, <1>3 DEF CallSound
<1> QED BY <1>1, <1>2, <1>3, <1>4, <1>5 DEF SoloInv

LEMMA Unchanged ==
    ASSUME TypeInv, UNCHANGED <<kind, crowd, part, target, data, marked, mixed, w>>, good' \in BOOLEAN
    PROVE  TypeInv' /\ (SoloInv => SoloInv')
BY DEF TypeInv, TypeOK, CallerOK, Caller, SoloInv, CallSound, MarkSound, Has, Right,
       Length, Files, Blocks, Ended, Marking

LEMMA NextSolo ==
    ASSUME TypeInv, SoloInv, [Next]_vars
    PROVE  /\ TypeInv' /\ SoloInv'
           /\ \A r \in Writers : ~crowd /\ w'[r].pc = "ok" /\ w[r].pc # "ok" => Has(target)'
<1>1. CASE Crash
  <2>1. \A r \in Writers : w'[r] = Idle
        BY <1>1, CrashStep
  <2> QED BY <1>1, <2>1, CrashStep, CrashSolo, IdleOK
<1>2. CASE UNCHANGED vars \/ SourceChanges
  <2>1. UNCHANGED <<kind, crowd, part, target, data, marked, mixed, w>> /\ good' \in BOOLEAN
        BY <1>2 DEF SourceChanges, vars, TypeInv, TypeOK
  <2> QED BY <2>1, Unchanged
<1>3. CASE \E r \in Writers : Call(r) \/ Step(r) \/ Cancel(r)
  <2>1. PICK r \in Writers : Call(r) \/ Step(r) \/ Cancel(r)
        BY <1>3
  <2>2. TypeInv' /\ SoloInv'
        BY <2>1, MoveSolo
  <2>3. /\ ~crowd /\ w'[r].pc = "ok" => Has(target)' \/ w'[r] = w[r]
        /\ \A v \in Writers : v # r => w'[v] = w[v]
        BY <2>1, MoveSolo
  <2> QED BY <2>2, <2>3
<1> QED BY <1>1, <1>2, <1>3 DEF Next

LEMMA InitSolo == Init => TypeInv /\ SoloInv
<1> SUFFICES ASSUME Init PROVE TypeInv /\ SoloInv
    OBVIOUS
<1>1. <<>> \in Seq(Blocks)
      OBVIOUS
<1>2. kind \in Kinds /\ crowd \in BOOLEAN /\ part = None /\ target = None /\ marked = FALSE
      /\ good = TRUE /\ mixed = FALSE /\ data = [f \in Files |-> <<>>] /\ w = [r \in Writers |-> Idle]
      BY DEF Init
<1>3. 0 \in 0..Tries[kind] /\ Tries[kind] # 0
      BY <1>2, Triable
<1>4. Idle \in Caller /\ Idle.pc = "idle" /\ Idle.fd = None /\ Idle.tries = 0
      BY <1>1, <1>3, Constants DEF Idle, Caller
<1>5. CallerOK(Idle)
      BY <1>3, <1>4 DEF CallerOK
<1>6. TypeOK
      BY <1>1, <1>2, <1>4 DEF TypeOK, Caller
<1>7. TypeInv
      BY <1>1, <1>2, <1>5, <1>6 DEF TypeInv
<1>8. \A r \in Writers : CallSound(r) /\ w[r].pc \in Ended
      BY <1>2, <1>4, Constants DEF CallSound
<1> QED BY <1>2, <1>7, <1>8 DEF SoloInv, MarkSound

\* At every moment the state has the type it was given, and the .part and the target are
\* different files.
THEOREM TypeCorrect == Spec => []TypeOK
<1>1. Init => TypeInv /\ SoloInv
      BY InitSolo
<1>2. TypeInv /\ SoloInv /\ [Next]_vars => (TypeInv /\ SoloInv)'
      BY NextSolo
<1>3. TypeInv => TypeOK
      BY DEF TypeInv
<1> QED BY <1>1, <1>2, <1>3, PTL DEF Spec

\* A call that succeeds, and that no other overlapped, has left the right content.
THEOREM RightWhenDoneCorrect == Spec => RightWhenDone
<1>1. Init => TypeInv /\ SoloInv
      BY InitSolo
<1>2. TypeInv /\ SoloInv /\ [Next]_vars => (TypeInv /\ SoloInv)'
      BY NextSolo
<1>3. TypeInv /\ SoloInv /\ [Next]_vars =>
        [\A r \in Writers :
           ~crowd /\ w'[r].pc = "ok" /\ w[r].pc # "ok" => Has(target)']_vars
      BY NextSolo
<1> QED BY <1>1, <1>2, <1>3, PTL DEF Spec, RightWhenDone

----------------------------------------------------------------------------
(* Two calls of an agent that overlap.  Whoever is about to rename has     *)
(* found the .part right; what the other call still writes then continues  *)
(* the file where it ends, or begins it again before it is marked.  Wrong  *)
(* content that comes to a call alone either is in the .part before        *)
(* another one looks at it, or takes the mark from the target.             *)

TwoCalls == \E a, b : Writers \subseteq {a, b}

Prefix(s) == Len(s) <= Size /\ \A k \in 1..Len(s) : s[k] = k
Sound(f) == \/ Right(data[f])
            \/ Len(data[f]) > Size
            \/ Prefix(data[f]) /\ \A r \in Writers : w[r].fd = f => w[r].have = Len(data[f])
\* What a call that is about to rename needs of the others.
Renamable ==
    /\ part # None => Sound(part)
    /\ Length(part) < Size =>
          \A r \in Writers : w[r].pc = "sent" => w[r].have \in {0, Length(part)}

Unmarked == ~marked /\ \A r \in Writers : w[r].pc # "mark"

PairInv ==
    /\ crowd /\ kind = "blob" => "layers" \in Ops
    /\ crowd /\ kind = "archive" /\ ~mixed =>
         /\ target # None => Sound(target) \/ Unmarked
         /\ target # None => \A r, v \in Writers : w[r].fd = target /\ w[v].fd = target => r = v
         /\ \A v \in Writers : w[v].pc = "rename" => Renamable

LEMMA RightIs ==
    ASSUME NEW s \in Seq(Blocks)
    PROVE  Right(s) <=> Len(s) = Size /\ \A k \in 1..Size : s[k] = k
<1>1. Size \in Nat
      BY ConstantsAssumption
<1>2. ASSUME Right(s) PROVE Len(s) = Size /\ \A k \in 1..Size : s[k] = k
  <2>1. s = [k \in 1..Size |-> k]
        BY <1>2 DEF Right
  <2> QED BY <1>1, <2>1, LenProperties
<1>3. ASSUME Len(s) = Size, \A k \in 1..Size : s[k] = k PROVE Right(s)
  <2>1. s = [k \in 1..Len(s) |-> s[k]]
        BY SeqDef, LenProperties
  <2> QED BY <1>3, <2>1 DEF Right
<1> QED BY <1>2, <1>3

\* A block that continues the file leaves it as good as it was.
Good(s, h) == Right(s) \/ Len(s) > Size \/ (Prefix(s) /\ h = Len(s))

LEMMA AppendGood ==
    ASSUME NEW s \in Seq(Blocks), NEW h \in Nat, h < Size, Good(s, h)
    PROVE  Append(s, h + 1) \in Seq(Blocks) /\ Good(Append(s, h + 1), h + 1)
<1> DEFINE z == Append(s, h + 1)
<1>1. Size \in Nat /\ Len(s) \in Nat /\ h + 1 \in Blocks
      BY ConstantsAssumption, LenProperties DEF Blocks
<1>2. z \in Seq(Blocks) /\ Len(z) = Len(s) + 1
      /\ \A k \in 1..(Len(s) + 1) : z[k] = IF k <= Len(s) THEN s[k] ELSE h + 1
      BY <1>1, AppendProperties
<1> HIDE DEF z
<1>3. CASE Right(s) \/ Len(s) > Size
  <2>1. Len(z) > Size
        BY <1>1, <1>2, <1>3, RightIs
  <2> QED BY <1>2, <2>1 DEF Good, z
<1>4. CASE Prefix(s) /\ h = Len(s)
  <2>1. \A k \in 1..Len(z) : z[k] = k
        BY <1>1, <1>2, <1>4 DEF Prefix
  <2>2. Prefix(z) /\ h + 1 = Len(z)
        BY <1>1, <1>2, <1>4, <2>1 DEF Prefix
  <2> QED BY <1>2, <2>2 DEF Good, z
<1> QED BY <1>3, <1>4 DEF Good

LEMMA PlacedGood ==
    ASSUME NEW s \in Seq(Blocks), NEW h \in Nat, h < Size, Good(s, h)
    PROVE  Placed(s, h, h + 1) \in Seq(Blocks) /\ Good(Placed(s, h, h + 1), h + 1)
<1> DEFINE z == Placed(s, h, h + 1)
<1>1. Size \in Nat /\ Len(s) \in Nat /\ h + 1 \in Blocks
      BY ConstantsAssumption, LenProperties DEF Blocks
<1>2. /\ z \in Seq(Blocks) /\ Len(z) = (IF h + 1 > Len(s) THEN h + 1 ELSE Len(s))
      /\ \A k \in 1..Len(s) : k # h + 1 => z[k] = s[k]
      /\ z[h + 1] = h + 1
      BY <1>1, WrittenBlock
<1> HIDE DEF z
<1>3. CASE Right(s)
  <2>1. Len(s) = Size /\ \A k \in 1..Size : s[k] = k
        BY <1>3, RightIs
  <2>2. Len(z) = Size /\ \A k \in 1..Size : z[k] = k
        BY <1>1, <1>2, <2>1
  <2>3. Right(z)
        BY <1>2, <2>2, RightIs
  <2> QED BY <1>2, <2>3 DEF Good, z
<1>4. CASE Len(s) > Size
  <2>1. Len(z) > Size
        BY <1>1, <1>2, <1>4
  <2> QED BY <1>2, <2>1 DEF Good, z
<1>5. CASE Prefix(s) /\ h = Len(s)
  <2>1. Len(z) = h + 1 /\ \A k \in 1..Len(z) : z[k] = k
        BY <1>1, <1>2, <1>5 DEF Prefix
  <2>2. Prefix(z) /\ h + 1 = Len(z)
        BY <1>1, <2>1 DEF Prefix
  <2> QED BY <1>2, <2>2 DEF Good, z
<1> QED BY <1>3, <1>4, <1>5 DEF Good

LEMMA WriteSound ==
    ASSUME TypeInv, NEW r \in Writers, w[r].fd \in Files, w[r].have \in Nat,
           w[r].have < Size, Good(data[w[r].fd], w[r].have)
    PROVE  Good(Written(r, w[r].have + 1), w[r].have + 1)
<1> DEFINE s == data[w[r].fd]
           h == w[r].have
<1>1. s \in Seq(Blocks)
      BY DEF TypeInv
<1>2. Written(r, h + 1) = IF w[r].append THEN Append(s, h + 1) ELSE Placed(s, h, h + 1)
      BY DEF Written, Placed
<1>3. Good(Append(s, h + 1), h + 1) /\ Good(Placed(s, h, h + 1), h + 1)
      BY <1>1, AppendGood, PlacedGood
<1> QED BY <1>2, <1>3

\* A file nobody opens or writes stays as good as it was.
LEMMA SoundStays ==
    ASSUME NEW f, Sound(f), data'[f] = data[f],
           \A v \in Writers : w'[v].fd = f => w'[v].have = w[v].have /\ w[v].fd = f
    PROVE  Sound(f)'
<1>1. Right(data[f]) => Right(data[f])'
      BY DEF Right
<1>2. Prefix(data[f]) => Prefix(data[f])'
      BY DEF Prefix
<1> QED BY <1>1, <1>2 DEF Sound

LEMMA PairQuiet ==
    ASSUME TypeInv, PairInv, TwoCalls, crowd, kind = "archive", NEW r \in Writers,
           NEW x, NEW p, NEW t, Quietly(r, x, p, t), ~mixed, ~mixed'
    PROVE  PairInv'
<1>1. /\ TypeInv' /\ part' = p /\ target' = t /\ w'[r] = x
      /\ part' # None => data'[part'] = data[part]
      /\ target' # None => data'[target'] = data[target]
      BY QuietStep
<1>2. \A v \in Writers : v # r => w'[v] = w[v]
      BY QuietStep
<1>3. /\ x.fd = None /\ UNCHANGED <<kind, crowd>> /\ x.pc # "mark"
      /\ p \in {None, part} /\ t \in {None, target}
      /\ x.pc = "sent" /\ kind \in Marking => x.have = Length(p)
      /\ x.pc = "rename" => p = part /\ Has(part)
      /\ marked' => t = target /\ (marked \/ Vouched(r))
      BY DEF Quietly
<1>4. \A f \in Files : Sound(f) /\ data'[f] = data[f] => Sound(f)'
  <2>1. None \notin Files
        BY Constants
  <2> QED BY <1>1, <1>2, <1>3, <2>1, SoundStays
<1>5. (part' # None => part' = part) /\ (target' # None => target' = target)
      /\ part \in Files \cup {None} /\ target \in Files \cup {None}
      BY <1>1, <1>3 DEF TypeInv, TypeOK
<1>6. ASSUME target' # None PROVE Sound(target)' \/ Unmarked'
  <2>1. target' = target /\ target \in Files /\ data'[target] = data[target]
        BY <1>1, <1>5, <1>6
  <2>2. CASE Sound(target)
        BY <1>4, <2>1, <2>2
  <2>3. CASE ~Sound(target)
    <3>1. Unmarked /\ ~Right(data[target])
          BY <1>6, <2>1, <2>3 DEF PairInv, Sound
    <3>2. ~Vouched(r)
          BY <3>1 DEF Vouched, Unmarked, Has
    <3> QED BY <1>1, <1>2, <1>3, <3>1, <3>2 DEF Unmarked
  <2> QED BY <2>2, <2>3
<1>7. target' # None => \A u, v \in Writers : w'[u].fd = target' /\ w'[v].fd = target' => u = v
      BY <1>1, <1>2, <1>3, <1>5 DEF PairInv
<1>8. ASSUME NEW v \in Writers, w'[v].pc = "rename" PROVE Renamable'
  <2>1. part' # None => Sound(part)
        BY <1>1, <1>2, <1>3, <1>5, <1>8 DEF PairInv, Renamable, Sound, Has
  <2>2. part' # None => Sound(part)'
        BY <1>1, <1>4, <1>5, <2>1
  <2>3. Length(part)' = Length(p)
        BY <1>1, <1>5 DEF Length
  <2>4. ASSUME Length(part)' < Size, NEW u \in Writers, w'[u].pc = "sent"
        PROVE  w'[u].have \in {0, Length(part)'}
    <3>1. CASE u = r
          BY <1>1, <1>3, <2>3, <2>4, <3>1 DEF Marking
    <3>2. CASE u # r
      <4>1. CASE v = r
        <5>1. p = part /\ Right(data[part]) /\ part # None
              BY <1>1, <1>3, <1>8, <4>1 DEF Has
        <5>2. Len(data[part]) = Size
              BY <1>5, <5>1, RightIs DEF TypeInv
        <5>3. Length(part)' = Size
              BY <2>3, <5>1, <5>2 DEF Length
        <5> QED BY <2>4, <5>3, ConstantsAssumption
      <4>2. CASE v # r
        <5>1. u = v
              BY <3>2, <4>2 DEF TwoCalls
        <5> QED BY <1>8, <2>4, <5>1
      <4> QED BY <4>1, <4>2
    <3> QED BY <3>1, <3>2
  <2> QED BY <2>2, <2>4 DEF Renamable
<1> QED BY <1>3, <1>6, <1>7, <1>8 DEF PairInv

\* A call that begins alone and finds nothing to use.
LEMMA PairAlone ==
    ASSUME TypeInv, NEW r \in Writers, NEW x, NEW p, NEW t, Quietly(r, x, p, t),
           crowd, kind = "archive", mixed, ~mixed'
    PROVE  PairInv'
<1>1. /\ UNCHANGED <<kind, crowd>> /\ t = None /\ x.pc = "ask"
      /\ \A v \in Writers : v # r => w[v].pc \in Ended
  <2>1. UNCHANGED <<kind, crowd>> /\ t = None /\ x.pc = "ask" /\ ~Overlapped(r)
        BY DEF Quietly
  <2> QED BY <2>1 DEF Overlapped
<1>2. target' = t /\ w'[r] = x /\ \A v \in Writers : v # r => w'[v] = w[v]
      BY QuietStep
<1>3. \A v \in Writers : w'[v].pc # "rename"
      BY <1>1, <1>2, Constants
<1> QED BY <1>1, <1>2, <1>3 DEF PairInv

LEMMA PairOpen ==
    ASSUME TypeInv, PairInv, TwoCalls, crowd, kind = "archive", ~mixed,
           NEW r \in Writers, Opens(r)
    PROVE  PairInv'
<1>1. /\ UNCHANGED <<kind, crowd, mixed, marked, target>> /\ part' \in Files /\ part' # target
      /\ w'[r].pc = "read" /\ w'[r].fd = part'
      /\ w'[r].have = 0 => data'[part'] = <<>>
      /\ w'[r].have # 0 => /\ data'[part'] = data[part'] /\ w'[r].have = w[r].have
                           /\ (part # None => part' = part)
      /\ target # None => data'[target] = data[target]
      BY OpenStep
<1>2. \A v \in Writers : v # r => w'[v] = w[v]
      BY OpenStep
<1>3. w[r].pc = "sent"
      BY DEF Opens
<1>4. target' # None => Sound(target)' \/ Unmarked'
      BY <1>1, <1>2, SoundStays DEF PairInv, Unmarked
<1>5. target' # None => \A u, v \in Writers : w'[u].fd = target' /\ w'[v].fd = target' => u = v
      BY <1>1, <1>2 DEF PairInv
<1>6. ASSUME NEW v \in Writers, w'[v].pc = "rename" PROVE Renamable'
  <2>1. v # r /\ w'[v] = w[v] /\ Renamable /\ w[v].fd = None
        BY <1>1, <1>2, <1>6, CallerTyped DEF PairInv, CallerOK
  <2>2. ASSUME NEW u \in Writers PROVE u \in {r, v}
        BY <2>1 DEF TwoCalls
  <2>3. \A u \in Writers : w'[u].pc # "sent"
        BY <1>1, <1>6, <2>2
  <2>4. \A u \in Writers : w'[u].fd = part' => u = r
        BY <1>1, <2>1, <2>2, Constants
  <2>5. CASE w'[r].have = 0
    <3>1. data'[part'] = <<>> /\ Len(<<>>) = 0 /\ Size \in Nat
          BY <1>1, <2>5, ConstantsAssumption
    <3>2. Prefix(data[part])'
          BY <3>1 DEF Prefix
    <3>3. Sound(part)'
          BY <2>4, <2>5, <3>1, <3>2 DEF Sound
    <3> QED BY <2>3, <3>3 DEF Renamable
  <2>6. CASE w'[r].have # 0
    <3>1. part # None
      <4> SUFFICES ASSUME part = None PROVE FALSE
          OBVIOUS
      <4>1. Length(part) = 0 /\ 0 < Size
            BY ConstantsAssumption DEF Length
      <4> QED BY <1>1, <1>3, <2>1, <2>6, <4>1 DEF Renamable
    <3>2. part' = part /\ data'[part] = data[part] /\ w'[r].have = w[r].have /\ Sound(part)
          /\ data[part] \in Seq(Blocks) /\ Length(part) = Len(data[part])
          BY <1>1, <2>1, <2>6, <3>1 DEF Renamable, TypeInv, Length
    <3>3. CASE Right(data[part]) \/ Len(data[part]) > Size
          BY <2>3, <3>2, <3>3 DEF Renamable, Sound, Right
    <3>4. CASE Prefix(data[part]) /\ ~Right(data[part])
      <4>1. Len(data[part]) # Size
            BY <3>2, <3>4, RightIs DEF Prefix
      <4>2. Len(data[part]) < Size
            BY <3>2, <3>4, <4>1, ConstantsAssumption, LenProperties DEF Prefix
      <4>3. w[r].have = Len(data[part])
            BY <1>3, <2>1, <2>6, <3>2, <4>2 DEF Renamable
      <4>4. Prefix(data[part])'
            BY <3>2, <3>4 DEF Prefix
      <4>5. Sound(part)'
            BY <2>4, <3>2, <4>3, <4>4 DEF Sound
      <4> QED BY <2>3, <4>5 DEF Renamable
    <3> QED BY <3>2, <3>3, <3>4 DEF Sound
  <2> QED BY <2>5, <2>6
<1> QED BY <1>1, <1>4, <1>5, <1>6 DEF PairInv

LEMMA PairRead ==
    ASSUME TypeInv, PairInv, TwoCalls, crowd, kind = "archive", ~mixed, ~mixed',
           NEW r \in Writers, Read(r)
    PROVE  PairInv'
<1>1. /\ TypeInv' /\ UNCHANGED <<kind, crowd, part, target>>
      /\ marked' = (marked /\ w[r].fd # target)
      /\ w[r].pc = "read" /\ w[r].fd \in Files /\ w[r].have \in Nat
      /\ w'[r].pc = "read" /\ w'[r].fd = w[r].fd /\ w'[r].have = w[r].have + 1
      BY ReadStep
<1>2. \A v \in Writers : v # r => w'[v] = w[v]
      BY ReadStep
<1>3. \A f \in {part, target} : f # None /\ f # w[r].fd => data'[f] = data[f]
      BY ReadStep
<1>4. PICK b \in Blocks :
         /\ \/ b = w[r].have + 1 /\ w[r].have < Size
            \/ b = Wrong /\ ~Overlapped(r)
         /\ w[r].fd \in {part, target} => data'[w[r].fd] = Written(r, b)
      BY ReadStep
<1>5. \A v \in Writers : w'[v].fd = w[v].fd
      BY <1>1, <1>2
<1>6. ASSUME NEW f \in {part, target}, f # None, Sound(f), w[r].fd # f \/ b # Wrong,
             \A v \in Writers : w[v].fd = f /\ w[r].fd = f => v = r
      PROVE  Sound(f)'
  <2>1. CASE w[r].fd # f
        BY <1>2, <1>3, <1>5, <1>6, <2>1, SoundStays
  <2>2. CASE w[r].fd = f
    <3>0. b = w[r].have + 1 /\ w[r].have < Size
          BY <1>4, <1>6, <2>2
    <3> DEFINE z == Written(r, w[r].have + 1)
    <3>1. Good(data[w[r].fd], w[r].have)
          BY <1>6, <2>2 DEF Sound, Good
    <3>2. Good(z, w[r].have + 1)
          BY <1>1, <3>0, <3>1, WriteSound
    <3>3. Right(z) \/ Len(z) > Size \/ (Prefix(z) /\ w[r].have + 1 = Len(z))
          BY <3>2 DEF Good
    <3>4. data'[f] = z
          BY <1>4, <1>6, <2>2, <3>0
    <3> HIDE DEF z
    <3>5. \A v \in Writers : w'[v].fd = f => w'[v].have = w[r].have + 1
          BY <1>1, <1>5, <1>6, <2>2
    <3>6. (Right(z) => Right(data[f])') /\ (Prefix(z) => Prefix(data[f])')
          BY <3>4 DEF Right, Prefix
    <3> QED BY <3>3, <3>4, <3>5, <3>6 DEF Sound
  <2> QED BY <2>1, <2>2
<1>7. ASSUME target' # None PROVE Sound(target)' \/ Unmarked'
  <2>1. Sound(target) \/ Unmarked
        BY <1>1, <1>7 DEF PairInv
  <2>2. CASE Unmarked
        BY <1>1, <1>2, <2>2 DEF Unmarked
  <2>3. CASE w[r].fd = target /\ b = Wrong
    <3>1. ~Overlapped(r)
          BY <1>1, <1>4, <2>3, ConstantsAssumption DEF Wrong
    <3>2. \A v \in Writers : v # r => w'[v].pc \in Ended
          BY <1>2, <3>1 DEF Overlapped
    <3>3. \A v \in Writers : w'[v].pc # "mark"
          BY <1>1, <3>2, Constants
    <3> QED BY <1>1, <2>3, <3>3 DEF Unmarked
  <2>4. CASE Sound(target) /\ (w[r].fd # target \/ b # Wrong)
        BY <1>1, <1>6, <1>7, <2>4 DEF PairInv
  <2> QED BY <2>1, <2>2, <2>3, <2>4
<1>8. target' # None => \A u, v \in Writers : w'[u].fd = target' /\ w'[v].fd = target' => u = v
      BY <1>1, <1>5 DEF PairInv
<1>9. ASSUME NEW v \in Writers, w'[v].pc = "rename" PROVE Renamable'
  <2>1. v # r /\ w'[v] = w[v] /\ Renamable /\ w[v].fd = None
        BY <1>1, <1>2, <1>9, CallerTyped DEF PairInv, CallerOK
  <2>2. ASSUME NEW u \in Writers PROVE u \in {r, v}
        BY <2>1 DEF TwoCalls
  <2>3. \A u \in Writers : w'[u].pc # "sent"
        BY <1>1, <1>9, <2>2
  <2>4. part # None => \A u \in Writers : w[u].fd = part => u = r
        BY <2>1, <2>2
  <2>5. b # Wrong
    <3>1. Overlapped(r)
          BY <1>9, <2>1, Constants DEF Overlapped
    <3> QED BY <1>1, <1>4, <3>1, ConstantsAssumption DEF Wrong
  <2>6. part # None => Sound(part)'
        BY <1>1, <1>6, <2>1, <2>4, <2>5 DEF Renamable
  <2> QED BY <1>1, <2>3, <2>6 DEF Renamable
<1> QED BY <1>1, <1>7, <1>8, <1>9 DEF PairInv

LEMMA PairRename ==
    ASSUME TypeInv, PairInv, TwoCalls, crowd, kind = "archive", ~mixed,
           NEW r \in Writers, Rename(r), part # None
    PROVE  PairInv'
<1>1. /\ TypeInv' /\ UNCHANGED <<kind, crowd, mixed>>
      /\ w[r].pc = "rename" /\ part' = None /\ target' = part
      /\ w'[r].pc \in {"mark", "ok"} /\ w'[r].fd = None /\ data'[part] = data[part]
      BY RenameStep
<1>2. \A v \in Writers : v # r => w'[v] = w[v]
      BY RenameStep
<1>3. Sound(part)
      BY <1>1 DEF PairInv, Renamable
<1>4. Sound(target)'
  <2>1. \A v \in Writers : w'[v].fd = part => w'[v].have = w[v].have /\ w[v].fd = part
        BY <1>1, <1>2
  <2>2. Right(data[part]) => Right(data[target])'
        BY <1>1 DEF Right
  <2>3. Prefix(data[part]) => Prefix(data[target])'
        BY <1>1 DEF Prefix
  <2> QED BY <1>1, <1>3, <2>1, <2>2, <2>3 DEF Sound
<1>5. \A u, v \in Writers : w'[u].fd = part /\ w'[v].fd = part => u = v
      BY <1>1 DEF TwoCalls
<1>6. ASSUME NEW v \in Writers, w'[v].pc = "rename" PROVE Renamable'
  <2>1. v # r
        BY <1>1, <1>6
  <2>2. \A u \in Writers : u \in {r, v}
        BY <2>1 DEF TwoCalls
  <2>3. \A u \in Writers : w'[u].pc # "sent"
        BY <1>1, <1>6, <2>2
  <2> QED BY <1>1, <2>3 DEF Renamable
<1> QED BY <1>1, <1>4, <1>5, <1>6 DEF PairInv

LEMMA PairCrash ==
    ASSUME TypeInv, PairInv, Crash
    PROVE  PairInv'
<1>1. /\ UNCHANGED <<kind, crowd, mixed, marked, part, target>>
      /\ target # None => data'[target] = data[target]
      BY CrashStep
<1>2. \A r \in Writers : w'[r] = Idle
      BY CrashStep
<1>3. Idle.pc = "idle" /\ Idle.fd = None
      BY IdleOK
<1>4. target # None /\ Sound(target) => Sound(target)'
  <2> SUFFICES ASSUME target # None, Sound(target) PROVE Sound(target)'
      OBVIOUS
  <2>1. data'[target'] = data[target] /\ \A v \in Writers : w'[v].fd # target'
        BY <1>1, <1>2, <1>3
  <2>2. Right(data[target]) => Right(data[target])'
        BY <2>1 DEF Right
  <2>3. Prefix(data[target]) => Prefix(data[target])'
        BY <2>1 DEF Prefix
  <2> QED BY <2>1, <2>2, <2>3 DEF Sound
<1> QED BY <1>1, <1>2, <1>3, <1>4 DEF PairInv, Unmarked

LEMMA NextPair ==
    ASSUME TypeInv, PairInv, TwoCalls, [Next]_vars
    PROVE  PairInv'
<1>1. CASE Crash
      BY <1>1, PairCrash
<1>2. CASE UNCHANGED vars \/ SourceChanges
  <2>1. UNCHANGED <<kind, crowd, mixed, marked, part, target, data, w>>
        BY <1>2 DEF SourceChanges, vars
  <2> QED BY <2>1 DEF PairInv, Unmarked, Renamable, Sound, Right, Prefix, Length
<1>3. CASE \E r \in Writers : Call(r) \/ Step(r) \/ Cancel(r)
  <2>1. PICK r \in Writers : Shaped(r)
        BY <1>3, StepShaped
  <2>2. UNCHANGED <<kind, crowd>>
        BY <2>1 DEF Shaped, Quietly, Opens, Stays, Read, Rename
  <2>3. CASE ~(crowd /\ kind = "archive" /\ ~mixed')
        BY <2>2, <2>3 DEF PairInv
  <2>4. CASE crowd /\ kind = "archive" /\ ~mixed' /\ ~mixed
        BY <2>1, <2>4, PairQuiet, PairOpen, PairRead, PairRename DEF Shaped
  <2>5. CASE crowd /\ kind = "archive" /\ ~mixed' /\ mixed
    <3>1. mixed \in BOOLEAN
          BY DEF TypeInv, TypeOK
    <3>2. ~Opens(r) /\ ~(Rename(r) /\ part # None)
          BY <2>5, OpenStep, RenameStep
    <3>3. ~Read(r)
          BY <2>5, ReadStep
    <3> QED BY <2>1, <2>5, <3>2, <3>3, PairAlone DEF Shaped
  <2> QED BY <2>3, <2>4, <2>5
<1> QED BY <1>1, <1>2, <1>3 DEF Next

\* A target that is marked and has the right size is right, when at most two calls of an
\* agent overlap, none for a layer does, and no call is sent wrong content while another is
\* under way (mixed, in the property).  Wrong content at every other moment, breaks, short
\* answers and crashes are all there.
THEOREM MarkedIsRightCorrect ==
    ASSUME TwoCalls, "layers" \notin Ops
    PROVE  Spec => []MarkedIsRight
<1> DEFINE Inv == TypeInv /\ SoloInv /\ PairInv
<1>1. Init => Inv
  <2> SUFFICES ASSUME Init PROVE Inv
      OBVIOUS
  <2>1. target = None /\ \A r \in Writers : w[r].pc = "idle"
        BY DEF Init, Idle
  <2>2. PairInv
        BY <2>1 DEF PairInv, Init
  <2> QED BY <2>2, InitSolo
<1>2. Inv /\ [Next]_vars => Inv'
      BY NextSolo, NextPair
<1>3. Inv => MarkedIsRight
  <2> SUFFICES ASSUME Inv, marked, Length(target) = Size, ~mixed PROVE Has(target)
      BY DEF MarkedIsRight
  <2>1. CASE ~crowd
        BY <2>1 DEF SoloInv, MarkSound
  <2>2. CASE crowd
    <3>1. kind = "archive" /\ target # None /\ target \in Files /\ Size # 0 /\ Size \in Nat
      <4>1. kind \in Marking /\ kind # "blob" /\ Size \in Nat \ {0}
            BY <2>2, ConstantsAssumption DEF TypeInv, PairInv
      <4> QED BY <4>1 DEF Marking, Length, TypeInv, TypeOK
    <3>2. Sound(target) /\ Len(data[target]) = Size /\ data[target] \in Seq(Blocks)
          BY <2>2, <3>1 DEF PairInv, Unmarked, Length, TypeInv
    <3>3. Right(data[target])
          BY <3>1, <3>2, RightIs DEF Sound, Prefix
    <3> QED BY <3>1, <3>3 DEF Has
  <2> QED BY <2>1, <2>2
<1> HIDE DEF Inv
<1> QED BY <1>1, <1>2, <1>3, PTL DEF Spec
=============================================================================
