------------------------- MODULE ResumableDownload -------------------------
(***************************************************************************)
(* One file that is downloaded into <name>.part and renamed when it is     *)
(* whole, by any number of callers.  The repository has four such          *)
(* downloads, which go the same way and treat failures differently: the    *)
(* layers of an image (services/image_manager.py), and in agent/main.py    *)
(* the archives of images, the model files a worker fetches from the head  *)
(* and those a node pulls from the control plane.  Which one a behaviour   *)
(* is about is chosen at its start.                                        *)
(*                                                                         *)
(* A file is a sequence of blocks: k is the k-th block of the right        *)
(* content, Wrong is anything else.  The disk is modelled as POSIX has it: *)
(* an open file outlives its name, "ab" writes at the end of the file and  *)
(* "wb" where this writer is.                                              *)
(***************************************************************************)
EXTENDS Integers, Sequences, FiniteSets

CONSTANTS
    Writers,    \* concurrent calls
    Size,       \* blocks of the file
    Kinds,      \* the downloads to choose from
    Tries,      \* requests of a call, per kind
    Ops,        \* what may go wrong
    None

KindNames == {"blob", "archive", "shared", "pulled"}

ASSUME ConstantsAssumption ==
    /\ Kinds \subseteq KindNames /\ Size \in Nat \ {0}
    /\ Tries \in [Kinds -> Nat \ {0}]
    /\ Ops \subseteq {"bad", "crash", "cancel", "layers"}
    /\ None \notin Nat /\ IsFiniteSet(Writers)

Wrong == 0
Longest == Size + 1         \* bound on what a bad source sends
Files == 1..(Cardinality(Writers) + 2)
Blocks == 0..Size

VARIABLES
    kind,
    crowd,          \* whether the calls overlap in this behaviour
    part, target,   \* the files that have these names
    data,           \* what the files with a name hold
    marked,         \* the target's verification mark has its size and mtime
    good,           \* for now the source has the file, and nothing goes wrong
    mixed,          \* history, which no guard looks at: see Mixes
    w

vars == <<kind, crowd, part, target, data, marked, good, mixed, w>>

Ended == {"idle", "ok", "failed"}
Idle == [pc |-> "idle", fd |-> None, append |-> FALSE, have |-> 0, tries |-> 0,
         hash |-> <<>>]

TypeOK ==
    /\ kind \in Kinds /\ crowd \in BOOLEAN
    /\ part \in Files \cup {None} /\ target \in Files \cup {None}
    /\ \A f \in Files : data[f] \in Seq(Blocks)
    /\ marked \in BOOLEAN /\ good \in BOOLEAN /\ mixed \in BOOLEAN
    /\ w \in [Writers -> [pc : Ended \cup {"ask", "sent", "read", "check", "rename",
                                        "mark"},
                          fd : Files \cup {None}, append : BOOLEAN, have : Nat,
                          tries : 0..Tries[kind], hash : Seq(Blocks)]]

Init ==
    /\ kind \in Kinds
    /\ crowd \in BOOLEAN /\ (crowd /\ kind = "blob" => "layers" \in Ops)
    /\ part = None /\ target = None /\ data = [f \in Files |-> <<>>]
    /\ marked = FALSE /\ good = TRUE /\ mixed = FALSE
    /\ w = [r \in Writers |-> Idle]

Right(s) == s = [k \in 1..Size |-> k]
Has(name) == name # None /\ Right(data[name])
Length(name) == IF name = None THEN 0 ELSE Len(data[name])

----------------------------------------------------------------------------
(* How the downloads differ: the answers to a failure are "retry" (while   *)
(* tries are left) and "drop" (the .part).                                 *)

\* _registry_blob_file: the content is hashed while it is read.
Blob == [restat |-> TRUE, trim |-> FALSE, restart |-> "again", counts |-> FALSE,
         marks |-> TRUE, refused |-> {"drop", "retry"}, error |-> {"drop"},
         broken |-> {"retry"}, size |-> {}, wrong |-> {}]
\* _download_image_archive of the agent.
Archive == [restat |-> TRUE, trim |-> TRUE, restart |-> "go on", counts |-> TRUE,
            marks |-> TRUE, refused |-> {"drop", "retry"}, error |-> {},
            broken |-> {"retry"}, size |-> {"retry"}, wrong |-> {"drop", "retry"}]
\* _download_shared_model_file: what it has is counted, not looked at again.
Shared == [restat |-> FALSE, trim |-> TRUE, restart |-> "again", counts |-> TRUE,
           marks |-> FALSE, refused |-> {"retry"}, error |-> {"retry"},
           broken |-> {"retry"}, size |-> {"drop", "retry"}, wrong |-> {"drop", "retry"}]
\* model_pull: one request, the control plane repeats the call.
Pulled == [restat |-> FALSE, trim |-> TRUE, restart |-> "go on", counts |-> FALSE,
           marks |-> FALSE, refused |-> {}, error |-> {},
           broken |-> {}, size |-> {}, wrong |-> {"drop"}]
Rule == CASE kind = "blob" -> Blob [] kind = "archive" -> Archive
          [] kind = "shared" -> Shared [] kind = "pulled" -> Pulled

----------------------------------------------------------------------------
(* The disk.                                                               *)

\* Names and contents after a step.  A file without a name never gets one again, so what
\* a call that still has it open writes into it is nobody's to read, and is left out.
Disk(p, t, d, x) ==
    /\ part' = p /\ target' = t /\ w' = x
    /\ data' = [f \in Files |-> IF f \in {p, t} THEN d[f] ELSE <<>>]
Goes(r, x) == [w EXCEPT ![r] = x]
To(r, pc) == [w[r] EXCEPT !.pc = pc]
Ends(pc) == [Idle EXCEPT !.pc = pc]
Stays == UNCHANGED <<kind, crowd, good, mixed>>
NewFile == CHOOSE f \in Files : f \notin {part, target} /\ \A r \in Writers : w[r].fd # f

\* A write: at the end of the file, or where the writer is.
Written(r, b) ==
    LET s == data[w[r].fd] i == w[r].have + 1
    IN  IF w[r].append THEN Append(s, b)
        ELSE [k \in 1..(IF i > Len(s) THEN i ELSE Len(s)) |->
                IF k = i THEN b ELSE IF k <= Len(s) THEN s[k] ELSE Wrong]

----------------------------------------------------------------------------
(* What is known of the content when calls overlap.  Each call looks at    *)
(* the .part once; what another one writes into that file afterwards, with *)
(* the content of a source that is wrong, nobody looks at.                 *)

Overlapped(r) == \E v \in Writers \ {r} : w[v].pc \notin Ended

\* "mixed" records that a call was sent wrong content while another was under way, and is
\* forgotten when a call begins alone and finds no target that it can use.
Mixes(r, b) == mixed' = (mixed \/ (b = Wrong /\ Overlapped(r)))
Unmixes(r) == mixed' = (mixed /\ Overlapped(r))

----------------------------------------------------------------------------
(* The steps of a call.                                                    *)

\* Mutant of Overlong: a .part of the right size is kept.
OverlongOnly == Length(part) > Size
\* A .part with nothing left to ask for.
Overlong == Length(part) >= Size

\* A target that is there is good enough if it has the size and a valid mark or the
\* right content, and is removed otherwise.
Reusable == Has(target) \/ (Rule.marks /\ marked /\ Length(target) = Size)
Call(r) ==
    /\ w[r].pc \in Ended /\ UNCHANGED <<kind, crowd, good>>
    /\ ~crowd => \A v \in Writers : w[v].pc \in Ended
    /\ IF Reusable
       THEN /\ Disk(part, target, data, Goes(r, Ends("ok")))
            /\ marked' = Rule.marks /\ UNCHANGED mixed
       ELSE LET old == ~Rule.restat /\ Overlong
                p   == IF old THEN None ELSE part
            IN  /\ marked' = FALSE /\ Unmixes(r)
                /\ Disk(p, None, data, Goes(r, [Idle EXCEPT
                        !.pc = "ask", !.have = IF old THEN 0 ELSE Length(part)]))

\* What is there is measured, a .part that is complete or too long is dropped, and the
\* request is sent.
Ask(r) ==
    /\ w[r].pc = "ask" /\ Stays /\ UNCHANGED marked
    /\ IF Rule.restat
       THEN LET old == Rule.trim /\ Overlong
            IN  Disk(IF old THEN None ELSE part, target, data,
                     Goes(r, [To(r, "sent") EXCEPT
                                !.have = IF old THEN 0 ELSE Length(part)]))
       ELSE Disk(part, target, data, Goes(r, To(r, "sent")))

GivesUp(r) == Disk(part, target, data, Goes(r, Ends("failed")))

Last(r) == w[r].tries + 1 >= Tries[kind]
\* Mutant of Counted: a failure does not count.
CountedNot(r) == w[r].tries
Counted(r) == w[r].tries + 1

\* After a failure.  A .part that only has the wrong size is kept by the last try.
Failed(r, event) ==
    LET drop  == "drop" \in Rule[event] /\ ~(event = "size" /\ Last(r))
        again == "retry" \in Rule[event] /\ ~Last(r)
    IN  Disk(IF drop THEN None ELSE part, target, data,
             Goes(r, IF again
                     THEN [Idle EXCEPT !.pc = "ask", !.tries = Counted(r),
                             !.have = IF drop \/ Rule.restat THEN 0 ELSE w[r].have]
                     ELSE Ends("failed")))

\* The .part is opened for the rest of the file or for all of it; a layer's bytes that
\* are there are hashed first.
Open(r, p, have) ==
    LET f == IF p = None THEN NewFile ELSE p
    IN  Disk(f, target, IF have = 0 THEN [data EXCEPT ![f] = <<>>] ELSE data,
             Goes(r, [To(r, "read") EXCEPT
                        !.fd = f, !.append = have > 0, !.have = have,
                        !.hash = IF kind = "blob" /\ have > 0 THEN data[f] ELSE <<>>]))

\* 206, or 200 to a request for the whole file.
AnswerRest(r) ==
    /\ w[r].pc = "sent" /\ w[r].have < Size /\ Stays /\ UNCHANGED marked
    /\ IF kind = "blob" /\ w[r].have > 0 /\ part = None THEN GivesUp(r)
       ELSE Open(r, part, w[r].have)

\* 200 to a request for the rest: the source knows no ranges.
AnswerAll(r) ==
    /\ w[r].pc = "sent" /\ w[r].have > 0 /\ Stays /\ UNCHANGED marked
    /\ IF Rule.restart = "go on" THEN Open(r, None, 0)
       ELSE Disk(None, target, data,
                 Goes(r, [Idle EXCEPT !.pc = "ask",
                            !.tries = w[r].tries + IF kind = "shared" THEN 1 ELSE 0]))

\* Mutant of Complete: what cannot be continued is complete.
CompleteBySize == Length(part) = Size
Complete == Has(part)
\* 416: the .part is all there is, or longer than what the source has now.
AnswerRange(r) ==
    /\ w[r].pc = "sent" /\ w[r].have > 0 /\ (good => w[r].have >= Size)
    /\ Stays /\ UNCHANGED marked
    /\ IF ~Rule.marks \/ (kind = "archive" /\ w[r].have # Size) THEN Failed(r, "refused")
       ELSE IF Complete
       THEN Disk(part, target, data, Goes(r, [Idle EXCEPT !.pc = "rename"]))
       ELSE IF kind = "archive" /\ part = None THEN GivesUp(r)
       ELSE Failed(r, "refused")

\* Another status, or no connection (a layer's expired token is a broken one).
AnswerError(r) ==
    /\ w[r].pc = "sent" /\ ~good /\ Stays /\ UNCHANGED marked
    /\ Failed(r, "error") \/ Failed(r, "broken")

Read(r) ==
    /\ w[r].pc = "read" /\ UNCHANGED <<kind, crowd, good>>
    /\ \E b \in {w[r].have + 1, Wrong} :
         /\ IF b = Wrong THEN ~good /\ w[r].have < Longest ELSE w[r].have < Size
         /\ Mixes(r, b)
         /\ Disk(part, target, [data EXCEPT ![w[r].fd] = Written(r, b)],
                 Goes(r, [w[r] EXCEPT !.have = @ + 1,
                            !.hash = IF kind = "blob" THEN Append(@, b) ELSE @]))
    /\ marked' = (marked /\ w[r].fd # target)

Break(r) ==
    /\ w[r].pc = "read" /\ ~good /\ Stays /\ UNCHANGED marked
    /\ Failed(r, "broken")

\* The body has ended.  Only the client of the layers notices that it is short.
Measured(r) == IF Rule.counts THEN w[r].have ELSE Length(part)
End(r) ==
    /\ w[r].pc = "read" /\ Stays /\ UNCHANGED marked
    /\ w[r].have >= Size \/ (~good /\ kind # "blob")
    /\ IF ~Rule.counts /\ part = None THEN GivesUp(r)
       ELSE IF Measured(r) # Size THEN Failed(r, "size")
       ELSE IF kind = "blob" /\ ~Right(w[r].hash) THEN Failed(r, "wrong")
       ELSE Disk(part, target, data,
                 Goes(r, [Idle EXCEPT !.tries = w[r].tries,
                            !.pc = IF kind = "blob" THEN "rename" ELSE "check"]))

\* Mutant of Whole: the size is compared only.
WholeBySize == Length(part) = Size
Whole == Has(part)
\* The content of the .part is read and compared.
Check(r) ==
    /\ w[r].pc = "check" /\ Stays /\ UNCHANGED marked
    /\ IF Whole THEN Disk(part, target, data, Goes(r, [Idle EXCEPT !.pc = "rename"]))
       ELSE IF kind = "archive" /\ part = None THEN GivesUp(r)
       ELSE Failed(r, "wrong")

Rename(r) ==
    /\ w[r].pc = "rename" /\ Stays
    /\ IF part = None THEN GivesUp(r) /\ UNCHANGED marked
       ELSE /\ Disk(None, part, data,
                    Goes(r, IF Rule.marks THEN [Idle EXCEPT !.pc = "mark"] ELSE Ends("ok")))
            /\ marked' = FALSE

\* The mark has the size and the mtime of the file that has the name now.
Mark(r) ==
    /\ w[r].pc = "mark" /\ Stays
    /\ marked' = (target # None)
    /\ Disk(part, target, data, Goes(r, Ends(IF target = None THEN "failed" ELSE "ok")))

\* Only a fetch of a model is told to stop.
Cancel(r) ==
    /\ "cancel" \in Ops /\ kind = "shared" /\ w[r].pc \in {"ask", "read"}
    /\ GivesUp(r) /\ good' = FALSE /\ UNCHANGED <<kind, crowd, mixed, marked>>

----------------------------------------------------------------------------
Crash ==
    /\ "crash" \in Ops /\ good' = FALSE /\ UNCHANGED <<kind, crowd, mixed, marked>>
    /\ Disk(part, target, data, [r \in Writers |-> Idle])

SourceChanges ==
    /\ "bad" \in Ops /\ good' = ~good
    /\ UNCHANGED <<kind, crowd, part, target, data, marked, mixed, w>>

Step(r) ==
    \/ Ask(r) \/ AnswerRest(r) \/ AnswerAll(r) \/ AnswerRange(r) \/ AnswerError(r)
    \/ Read(r) \/ Break(r) \/ End(r) \/ Check(r) \/ Rename(r) \/ Mark(r)

Next == Crash \/ SourceChanges \/ \E r \in Writers : Call(r) \/ Step(r) \/ Cancel(r)

Spec == Init /\ [][Next]_vars

\* A call goes on (reads and connections have timeouts), and somebody repeats it until
\* the file is there: the layers by pulling again, the others by the transfer's retry.
Fairness ==
    /\ \A r \in Writers : WF_vars(Step(r))
    /\ WF_vars(\E r \in Writers : Call(r))
FairSpec == Spec /\ Fairness

----------------------------------------------------------------------------
(* Properties.                                                             *)

\* A call that succeeds, and that no other call overlapped, leaves the right content
\* under the target's name, whatever calls before it have left, and whatever broke off, was
\* too short or was wrong.
RightWhenDone ==
    [][\A r \in Writers :
          ~crowd /\ w'[r].pc = "ok" /\ w[r].pc # "ok" => Has(target)']_vars

\* A target with a valid mark and the right size is not read again, so it has to be right,
\* also when two calls of an agent overlap, whatever breaks, ends early or is wrong.  Left
\* out are wrong content that comes to one of them while the other is under way (mixed),
\* three overlapping calls, and overlapping calls for a layer.
MarkedIsRight == marked /\ Length(target) = Size => Has(target) \/ mixed

\* Every call ends, however bad the source is.
Returns == \A r \in Writers : w[r].pc \notin Ended ~> w[r].pc \in Ended

\* Whatever .part failed calls, overlapping calls and crashes have left, one caller gets
\* the file, and keeps it, once the source has it and nothing goes wrong; only a file that
\* is marked although it became wrong in overlapping calls stays as it is.
Alone(r) == good /\ \A v \in Writers \ {r} : w[v].pc \in Ended
Recovers ==
    \A r \in Writers :
        <>[]Alone(r) => <>[](Has(target) \/ (mixed /\ marked /\ Length(target) = Size))
=============================================================================
