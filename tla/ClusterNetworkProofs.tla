----------------------- MODULE ClusterNetworkProofs -----------------------
(***************************************************************************)
(* Theorems about ClusterNetwork, for every choice of its constants.       *)
(***************************************************************************)
EXTENDS ClusterNetwork, FiniteSetTheorems, WellFoundedInduction, TLAPS

USE DEF rows, files, wires

----------------------------------------------------------------------------
(* The requests: a step changes the record of one.                         *)

Only(r) == req' = [req EXCEPT ![r] = req'[r]]

LEMMA OnlyTyped ==
    ASSUME req \in [Requests -> Request], NEW r \in Requests, Only(r), req'[r] \in Request
    PROVE  req' \in [Requests -> Request]
BY DEF Only

LEMMA OnlyFrame ==
    ASSUME req \in [Requests -> Request], NEW r \in Requests, Only(r)
    PROVE  \A q \in Requests \ {r} : req'[q] = req[q]
BY DEF Only

LEMMA RequestTyped == ASSUME TypeOK, NEW r \in Requests PROVE req[r] \in Request
BY DEF TypeOK

LEMMA NoRequestTyped == NoRequest \in Request
BY ConstantsAssumption DEF NoRequest, Request

LEMMA EndStep ==
    ASSUME TypeOK, NEW r \in Requests, End(r)
    PROVE  Only(r) /\ req'[r] = NoRequest
BY DEF TypeOK, End, Only

LEMMA UnlockedTyped ==
    ASSUME TypeOK, NEW r \in Requests
    PROVE  Unlocked(r) \in [Keys -> Requests \cup {Free}]
BY DEF TypeOK, Unlocked

LEMMA EndTyped ==
    ASSUME TypeOK, NEW r \in Requests, End(r)
    PROVE  req' \in [Requests -> Request] /\ lock' \in [Keys -> Requests \cup {Free}]
BY EndStep, OnlyTyped, NoRequestTyped, UnlockedTyped DEF TypeOK, End

LEMMA BegunTyped ==
    ASSUME NEW q \in Request, NEW kind \in {"add", "delete"}, NEW pc \in {"lock", "clean"},
           NEW c \in Clusters, NEW N \in SUBSET Nodes, NEW u,
           u = [q EXCEPT !.kind = kind, !.pc = pc, !.c = c, !.nodes = N]
    PROVE  u \in Request
BY DEF Request

LEMMA ExtendedTyped ==
    ASSUME NEW q \in Request, NEW net \in BOOLEAN, NEW T \in SUBSET Nodes, NEW u,
           u = [q EXCEPT !.net = net] \/ u = [q EXCEPT !.todo = T]
    PROVE  u \in Request
<1>1. CASE u = [q EXCEPT !.net = net] BY <1>1 DEF Request
<1>2. CASE u = [q EXCEPT !.todo = T] BY <1>2 DEF Request
<1> QED BY <1>1, <1>2

\* The fields that a step may change by itself.
LEMMA MovedTyped ==
    ASSUME NEW q \in Request, NEW pc \in {"apply", "verify", "reverse", "commit", "undo"},
           NEW u, u = [q EXCEPT !.pc = pc]
    PROVE  u \in Request
BY DEF Request

LEMMA GoesStep ==
    ASSUME TypeOK, NEW r \in Requests, NEW pc, Goes(r, pc)
    PROVE  Only(r) /\ req'[r] = [req[r] EXCEPT !.pc = pc]
BY DEF TypeOK, Goes, Only

LEMMA GoesTyped ==
    ASSUME TypeOK, NEW r \in Requests,
           NEW pc \in {"apply", "verify", "reverse", "commit", "undo"}, Goes(r, pc)
    PROVE  req' \in [Requests -> Request] /\ lock' \in [Keys -> Requests \cup {Free}]
<1>1. req[r] \in Request /\ lock' = lock BY DEF TypeOK, Goes
<1>2. req'[r] \in Request BY <1>1, GoesStep, MovedTyped
<1> QED BY <1>1, <1>2, GoesStep, OnlyTyped DEF TypeOK

LEMMA CreateBeginStep ==
    ASSUME TypeOK, NEW r \in Requests, NEW S \in SUBSET Nodes, NEW ix \in [Nodes -> 0..MaxSlot],
           CreateBegin(r, S, ix)
    PROVE  /\ Only(r) /\ req'[r] \in Request
           /\ req'[r].kind = "create" /\ req'[r].pc \in {"lock", "check"}
           /\ req'[r].pc = "check" => S = {}
           /\ req'[r].nodes = S /\ req'[r].ix = ix /\ req'[r].c = NoCluster
<1> DEFINE u == [NoRequest EXCEPT !.kind = "create", !.nodes = S,
                                  !.pc = IF S = {} THEN "check" ELSE "lock",
                                  !.ix = ix, !.net = S # {}]
<1>1. req' = [req EXCEPT ![r] = u] BY DEF CreateBegin
<1>2. req'[r] = u /\ Only(r) BY <1>1 DEF TypeOK, Only
<1>3. u \in Request BY DEF NoRequest, Request
<1>4. /\ u.kind = "create" /\ u.pc \in {"lock", "check"} /\ (u.pc = "check" => S = {})
      /\ u.nodes = S /\ u.ix = ix /\ u.c = NoCluster
      BY DEF NoRequest
<1> HIDE DEF u
<1> QED BY <1>2, <1>3, <1>4

LEMMA AddBeginStep ==
    ASSUME TypeOK, NEW r \in Requests, NEW c \in Clusters, NEW n \in Nodes,
           NEW net \in BOOLEAN, AddBegin(r, c, n, net)
    PROVE  /\ Only(r) /\ req'[r] \in Request
           /\ req'[r].kind = "add" /\ req'[r].pc = "lock" /\ req'[r].c = c
           /\ req'[r].nodes = {n}
<1> DEFINE u == [NoRequest EXCEPT !.kind = "add", !.pc = "lock", !.c = c,
                                  !.nodes = {n}, !.net = net]
<1>1. req' = [req EXCEPT ![r] = u] BY DEF AddBegin
<1>2. req'[r] = u /\ Only(r) BY <1>1 DEF TypeOK, Only
<1> DEFINE v == [NoRequest EXCEPT !.kind = "add", !.pc = "lock", !.c = c, !.nodes = {n}]
<1>3. u \in Request
  <2>1. v \in Request BY NoRequestTyped, BegunTyped, Zenon
  <2>2. u = [v EXCEPT !.net = net] OBVIOUS
  <2> HIDE DEF u, v
  <2> QED BY <2>1, <2>2, ExtendedTyped
<1>4. u.kind = "add" /\ u.pc = "lock" /\ u.c = c /\ u.nodes = {n}
      BY DEF NoRequest
<1> HIDE DEF u
<1> QED BY <1>2, <1>3, <1>4

LEMMA CleanupBeginStep ==
    ASSUME TypeOK, NEW r \in Requests, NEW c \in Clusters, CleanupBegin(r, c)
    PROVE  /\ Only(r) /\ req'[r] \in Request
           /\ req'[r].kind = "delete" /\ req'[r].pc = "clean" /\ req'[r].c = c
           /\ req'[r].nodes = Members(c)
<1> DEFINE u == [NoRequest EXCEPT !.kind = "delete", !.pc = "clean", !.c = c,
                                  !.nodes = Members(c), !.todo = Members(c)]
<1>0. Members(c) \in SUBSET Nodes BY DEF Members
<1>1. req' = [req EXCEPT ![r] = u] BY DEF CleanupBegin
<1>2. req'[r] = u /\ Only(r) BY <1>1 DEF TypeOK, Only
<1> DEFINE v == [NoRequest EXCEPT !.kind = "delete", !.pc = "clean", !.c = c,
                                  !.nodes = Members(c)]
<1>3. u \in Request
  <2>1. v \in Request BY <1>0, NoRequestTyped, BegunTyped, Zenon
  <2>2. u = [v EXCEPT !.todo = Members(c)] OBVIOUS
  <2> HIDE DEF u, v
  <2> QED BY <1>0, <2>1, <2>2, ExtendedTyped
<1>4. u.kind = "delete" /\ u.pc = "clean" /\ u.c = c /\ u.nodes = Members(c)
      BY DEF NoRequest
<1> HIDE DEF u
<1> QED BY <1>2, <1>3, <1>4

LEMMA LockStep ==
    ASSUME TypeOK, NEW r \in Requests, Lock(r)
    PROVE  /\ Only(r) /\ req'[r] \in Request
           /\ req'[r].pc \in {"lock", "check"}
           /\ req'[r].pc = "check" => \E k \in Keys : Missing(r) = {k} /\ lock[k] = Free
                                                      /\ lock' = [lock EXCEPT ![k] = r]
           /\ req'[r].kind = req[r].kind /\ req'[r].c = req[r].c
           /\ req'[r].nodes = req[r].nodes /\ req'[r].ix = req[r].ix
           /\ req'[r].net = req[r].net
<1>1. PICK k \in Keys :
        /\ lock[k] = Free /\ lock' = [lock EXCEPT ![k] = r]
        /\ req' = IF Missing(r) # {k} THEN req
                  ELSE [req EXCEPT ![r].pc = "check", ![r].was = Noted(r)]
      BY DEF Lock
<1>2. CASE Missing(r) # {k}
      BY <1>1, <1>2 DEF TypeOK, Lock, Only
<1>3. CASE Missing(r) = {k}
  <2> DEFINE w == Noted(r)
             u == [req[r] EXCEPT !.pc = "check", !.was = w]
  <2>1. w \in [Nodes -> Address \cup {NoAddr}] BY DEF TypeOK, Noted
  <2> HIDE DEF w
  <2>2. req' = [req EXCEPT ![r] = u] BY <1>1, <1>3 DEF TypeOK, w
  <2>3. req'[r] = u /\ Only(r) BY <2>2 DEF TypeOK, Only
  <2>4. u \in Request
    <3>1. req[r] \in Request BY RequestTyped
    <3> QED BY <2>1, <3>1 DEF Request
  <2>5. /\ u.pc = "check" /\ u.kind = req[r].kind /\ u.c = req[r].c
        /\ u.nodes = req[r].nodes /\ u.ix = req[r].ix /\ u.net = req[r].net
        BY DEF TypeOK, Request
  <2> HIDE DEF u
  <2> QED BY <1>1, <1>3, <2>3, <2>4, <2>5
<1> QED BY <1>2, <1>3

LEMMA CreateCheckStep ==
    ASSUME TypeOK, NEW r \in Requests, CreateCheck(r), ~End(r)
    PROVE  /\ Only(r) /\ req'[r] \in Request /\ UNCHANGED lock
           /\ req'[r].pc \in {"probe", "commit"} /\ (req'[r].pc = "probe" => req[r].net)
           /\ req'[r].net => req'[r].cidr \in Cidrs
           /\ req'[r].kind = req[r].kind /\ req'[r].c = req[r].c
           /\ req'[r].nodes = req[r].nodes /\ req'[r].ix = req[r].ix
           /\ req'[r].net = req[r].net
<1>1. PICK d \in Cidrs \cup {NoCidr} :
        /\ req[r].net => d \in Cidrs
        /\ req' = [req EXCEPT ![r].cidr = d,
                              ![r].pc = IF req[r].net THEN "probe" ELSE "commit"]
      BY DEF CreateCheck
<1> DEFINE pc == IF req[r].net THEN "probe" ELSE "commit"
           u == [req[r] EXCEPT !.cidr = d, !.pc = pc]
<1>2. req' = [req EXCEPT ![r] = u] BY <1>1 DEF TypeOK
<1>3. req'[r] = u /\ Only(r) BY <1>2 DEF TypeOK, Only
<1>4. pc \in {"probe", "commit"} /\ (pc = "probe" => req[r].net) OBVIOUS
<1> HIDE DEF pc
<1>5. u \in Request
  <2>1. req[r] \in Request BY RequestTyped
  <2> QED BY <1>4, <2>1 DEF Request
<1>6. /\ u.pc = pc /\ u.cidr = d /\ u.kind = req[r].kind /\ u.c = req[r].c
      /\ u.nodes = req[r].nodes /\ u.ix = req[r].ix /\ u.net = req[r].net
      BY DEF TypeOK, Request
<1> HIDE DEF u
<1> QED BY <1>1, <1>3, <1>4, <1>5, <1>6 DEF CreateCheck

LEMMA CreateProbeStep ==
    ASSUME TypeOK, NEW r \in Requests, CreateProbe(r), ~End(r)
    PROVE  /\ Only(r) /\ req'[r] \in Request /\ UNCHANGED lock
           /\ req'[r].pc = "apply" /\ req'[r].cidr = req[r].cidr
           /\ req'[r].todo = req[r].nodes
           /\ req'[r].kind = req[r].kind /\ req'[r].c = req[r].c
           /\ req'[r].nodes = req[r].nodes /\ req'[r].ix = req[r].ix
           /\ req'[r].net = req[r].net
<1> DEFINE u == [req[r] EXCEPT !.pc = "apply", !.todo = req[r].nodes]
<1>2. req' = [req EXCEPT ![r] = u] /\ UNCHANGED lock BY DEF TypeOK, CreateProbe
<1>3. req'[r] = u /\ Only(r) BY <1>2 DEF TypeOK, Only
<1>5. u \in Request
  <2>1. req[r] \in Request BY RequestTyped
  <2> QED BY <2>1 DEF Request
<1>6. /\ u.pc = "apply" /\ u.kind = req[r].kind /\ u.c = req[r].c /\ u.cidr = req[r].cidr
      /\ u.todo = req[r].nodes
      /\ u.nodes = req[r].nodes /\ u.ix = req[r].ix /\ u.net = req[r].net
      BY DEF TypeOK, Request
<1> HIDE DEF u
<1> QED BY <1>2, <1>3, <1>5, <1>6

\* Who a request is for, and on which slots.
Same(r) ==
    /\ req'[r].kind = req[r].kind /\ req'[r].c = req[r].c /\ req'[r].nodes = req[r].nodes
    /\ req'[r].ix = req[r].ix /\ req'[r].cidr = req[r].cidr /\ req'[r].net = req[r].net

LEMMA GoesSame ==
    ASSUME TypeOK, NEW r \in Requests,
           NEW pc \in {"apply", "verify", "reverse", "commit", "undo"}, Goes(r, pc)
    PROVE  Only(r) /\ req'[r] \in Request /\ req'[r].pc = pc /\ Same(r) /\ UNCHANGED lock
<1>1. req[r] \in Request BY DEF TypeOK
<1>2. Only(r) /\ req'[r] = [req[r] EXCEPT !.pc = pc] BY GoesStep
<1>3. req'[r] \in Request BY <1>1, <1>2, MovedTyped
<1> QED BY <1>1, <1>2, <1>3 DEF Same, Request, Goes

LEMMA ApplyStep ==
    ASSUME TypeOK, NEW r \in Requests, NEW n \in Nodes, Apply(r, n)
    PROVE  /\ Only(r) /\ req'[r] \in Request /\ Same(r)
           /\ req'[r].pc \in {"apply", "verify", "undo"}
           /\ req'[r].todo \subseteq req[r].nodes \cup req[r].todo
<1>1. PICK ok \in BOOLEAN, todo \in SUBSET (req[r].nodes \cup req[r].todo),
           pc \in {"apply", "verify", "undo"}, bad \in BOOLEAN :
        req' = [req EXCEPT ![r].applied = Collected(r, n, ok), ![r].bad = bad,
                           ![r].todo = todo, ![r].pc = pc]
  <2>1. PICK ok \in BOOLEAN :
          LET last == req[r].todo = {n}
              bad  == req[r].bad \/ ~ok
          IN  req' = [req EXCEPT ![r].applied = Collected(r, n, ok),
                            ![r].bad = bad,
                            ![r].todo = IF last /\ ~bad THEN req[r].nodes ELSE @ \ {n},
                            ![r].pc = IF last THEN AfterApply(r, bad) ELSE @]
        BY DEF Apply
  <2> DEFINE last == req[r].todo = {n}
             bad  == req[r].bad \/ ~ok
             todo == IF last /\ ~bad THEN req[r].nodes ELSE req[r].todo \ {n}
             pc == IF last THEN AfterApply(r, bad) ELSE req[r].pc
  <2>2. req' = [req EXCEPT ![r].applied = Collected(r, n, ok), ![r].bad = bad,
                           ![r].todo = todo, ![r].pc = pc]
        BY <2>1 DEF TypeOK
  <2>3. req[r].todo \in SUBSET Nodes /\ req[r].nodes \in SUBSET Nodes /\ req[r].bad \in BOOLEAN
        BY DEF TypeOK, Request
  <2>4. todo \in SUBSET (req[r].nodes \cup req[r].todo) BY <2>3
  <2>5. pc \in {"apply", "verify", "undo"} BY DEF Apply, AfterApply
  <2>6. bad \in BOOLEAN BY <2>3
  <2> HIDE DEF todo, pc, bad
  <2> QED BY <2>2, <2>4, <2>5, <2>6
<1> DEFINE ap == Collected(r, n, ok)
           v == [req[r] EXCEPT !.applied = ap, !.bad = bad]
           u == [v EXCEPT !.todo = todo, !.pc = pc]
<1>2. ap \in SUBSET Nodes BY DEF TypeOK, Request, Collected
<1> HIDE DEF ap
<1>9. todo \in SUBSET Nodes BY RequestTyped DEF Request
<1>3. req' = [req EXCEPT ![r] = u] BY <1>1 DEF TypeOK, ap
<1>4. req'[r] = u /\ Only(r) BY <1>3 DEF TypeOK, Only
<1>5. v \in Request
  <2>1. req[r] \in Request BY RequestTyped
  <2> QED BY <1>2, <2>1 DEF Request
<1>6. /\ v.kind = req[r].kind /\ v.c = req[r].c /\ v.nodes = req[r].nodes
      /\ v.ix = req[r].ix /\ v.cidr = req[r].cidr /\ v.net = req[r].net
      BY DEF TypeOK, Request
<1> HIDE DEF v
<1>7. u \in Request BY <1>5, <1>9 DEF Request
<1>8. /\ u.kind = v.kind /\ u.c = v.c /\ u.nodes = v.nodes /\ u.pc = pc /\ u.todo = todo
      /\ u.ix = v.ix /\ u.cidr = v.cidr /\ u.net = v.net
      BY <1>5 DEF Request
<1> HIDE DEF u
<1> QED BY <1>4, <1>6, <1>7, <1>8 DEF Same

LEMMA VerifyStep ==
    ASSUME TypeOK, NEW r \in Requests, NEW n \in Nodes, Verify(r, n)
    PROVE  /\ Only(r) /\ req'[r] \in Request /\ Same(r)
           /\ req'[r].pc \in {"verify", "commit", "reverse", "undo"}
<1>1. PICK todo \in SUBSET Nodes, pc \in {"verify", "commit", "reverse", "undo"} :
        req' = [req EXCEPT ![r].todo = todo, ![r].pc = pc]
  <2>1. req[r].todo \in SUBSET Nodes BY RequestTyped DEF Request
  <2>2. CASE req' = [req EXCEPT ![r].pc = "undo", ![r].todo = {}]
    <3>1. req' = [req EXCEPT ![r].todo = {}, ![r].pc = "undo"] BY <2>2 DEF TypeOK
    <3> QED BY <3>1
  <2>3. CASE req' = [req EXCEPT ![r].todo = @ \ {n},
                                ![r].pc = IF req[r].todo = {n} THEN AfterVerify(r) ELSE @]
    <3> DEFINE todo == req[r].todo \ {n}
               pc == IF req[r].todo = {n} THEN AfterVerify(r) ELSE req[r].pc
    <3>1. req' = [req EXCEPT ![r].todo = todo, ![r].pc = pc] BY <2>3 DEF TypeOK
    <3>2. todo \in SUBSET Nodes BY <2>1
    <3>3. pc \in {"verify", "commit", "reverse", "undo"} BY DEF Verify, AfterVerify
    <3> HIDE DEF todo, pc
    <3> QED BY <3>1, <3>2, <3>3
  <2> QED BY <2>2, <2>3 DEF Verify
<1> DEFINE u == [req[r] EXCEPT !.todo = todo, !.pc = pc]
<1>2. req' = [req EXCEPT ![r] = u] BY <1>1 DEF TypeOK
<1>3. req'[r] = u /\ Only(r) BY <1>2 DEF TypeOK, Only
<1>4. req[r] \in Request BY RequestTyped
<1>5. u \in Request BY <1>4 DEF Request
<1>6. /\ u.kind = req[r].kind /\ u.c = req[r].c /\ u.nodes = req[r].nodes /\ u.pc = pc
      /\ u.ix = req[r].ix /\ u.cidr = req[r].cidr /\ u.net = req[r].net
      BY <1>4 DEF Request
<1> HIDE DEF u
<1> QED BY <1>3, <1>5, <1>6 DEF Same

LEMMA UndoStep ==
    ASSUME TypeOK, NEW r \in Requests, Undo(r), ~End(r)
    PROVE  /\ Only(r) /\ req'[r] \in Request /\ Same(r) /\ req'[r].pc = "undo"
           /\ UNCHANGED <<rows, lock>>
           /\ \E n \in Nodes : RolledBack(n) \/ NotRolledBack
<1>1. PICK n \in req[r].applied : /\ RolledBack(n) \/ NotRolledBack
                                  /\ req' = [req EXCEPT ![r].applied = @ \ {n}]
                                  /\ UNCHANGED <<rows, lock>>
      BY DEF Undo
<1> DEFINE ap == req[r].applied \ {n}
           u == [req[r] EXCEPT !.applied = ap]
<1>2. req' = [req EXCEPT ![r] = u] BY <1>1 DEF TypeOK
<1>3. req'[r] = u /\ Only(r) BY <1>2 DEF TypeOK, Only
<1>4. req[r] \in Request BY RequestTyped
<1>5. u \in Request BY <1>4 DEF Request
<1>6. /\ u.kind = req[r].kind /\ u.c = req[r].c /\ u.nodes = req[r].nodes
      /\ u.pc = req[r].pc
      /\ u.ix = req[r].ix /\ u.cidr = req[r].cidr /\ u.net = req[r].net
      BY <1>4 DEF Request
<1>7. n \in Nodes BY <1>4 DEF Request
<1> HIDE DEF u
<1> QED BY <1>1, <1>3, <1>5, <1>6, <1>7 DEF Same, Undo

LEMMA CleanStep ==
    ASSUME TypeOK, NEW r \in Requests, NEW n \in Nodes, Clean(r, n)
    PROVE  Only(r) /\ req'[r] \in Request /\ Same(r) /\ req'[r].pc = "clean"
<1> DEFINE u == [req[r] EXCEPT !.todo = req[r].todo \ {n}]
<1>2. req' = [req EXCEPT ![r] = u] BY DEF TypeOK, Clean
<1>3. req'[r] = u /\ Only(r) BY <1>2 DEF TypeOK, Only
<1>4. req[r] \in Request BY RequestTyped
<1>5. u \in Request BY <1>4 DEF Request
<1>6. /\ u.kind = req[r].kind /\ u.c = req[r].c /\ u.nodes = req[r].nodes
      /\ u.pc = req[r].pc
      /\ u.ix = req[r].ix /\ u.cidr = req[r].cidr /\ u.net = req[r].net
      BY <1>4 DEF Request
<1> HIDE DEF u
<1> QED BY <1>3, <1>5, <1>6 DEF Same, Clean

\* The slot that an addition begins to search at.
LEMMA AddCheckStep ==
    ASSUME TypeOK, NEW r \in Requests, req[r].c \in Clusters, AddCheck(r), ~End(r)
    PROVE  /\ Only(r) /\ req'[r] \in Request /\ UNCHANGED lock
           /\ req'[r].pc = "probe"
           /\ req'[r].kind = req[r].kind /\ req'[r].c = req[r].c
           /\ req'[r].nodes = req[r].nodes
           /\ req'[r].cidr = cidr[req[r].c] /\ (req'[r].net => plan[req[r].c])
           /\ req[r].nodes \cap Members(req[r].c) = {}
           /\ \A n \in req[r].nodes, i \in SlotsOf(req[r].c) : i < req'[r].ix[n]
           /\ \A n \in req[r].nodes : req'[r].ix[n] \in Slots
<1> DEFINE c == req[r].c
<1>1. PICK top \in 0..MaxSlot :
        /\ IsTop(c, top) /\ MaxSlot \notin SlotsOf(c)
        /\ row[c] = "exists" /\ req[r].nodes \cap Members(c) = {} /\ UNCHANGED lock
        /\ req' = [req EXCEPT
                    ![r].pc = "probe", ![r].cidr = cidr[c], ![r].net = @ /\ plan[c],
                    ![r].ix = [m \in Nodes |-> IF m \in req[r].nodes THEN top + 1
                                               ELSE IF m \in Members(c) THEN member[m].i
                                               ELSE 0]]
      BY DEF AddCheck
<1>2. req[r] \in Request /\ row \in [Clusters -> {"none", "exists", "deleted"}]
      BY RequestTyped DEF TypeOK
<1> DEFINE ix == [m \in Nodes |-> IF m \in req[r].nodes THEN top + 1
                                 ELSE IF m \in Members(c) THEN member[m].i ELSE 0]
           net == req[r].net /\ plan[c]
           d == cidr[c]
           v == [req[r] EXCEPT !.pc = "probe", !.cidr = d, !.net = net]
           u == [v EXCEPT !.ix = ix]
<1>3. top + 1 \in Slots /\ \A i \in SlotsOf(c) : i < top + 1
  <2>1. SlotsOf(c) \subseteq Slots BY DEF TypeOK, SlotsOf, Members, Row
  <2> QED BY <1>1, <2>1, ConstantsAssumption DEF IsTop, Slots
<1>4. ix \in [Nodes -> 0..MaxSlot] /\ \A n \in req[r].nodes : ix[n] = top + 1
  <2>1. \A m \in Members(c) : m \in Nodes /\ member[m].i \in Slots
        BY DEF TypeOK, Members, Row
  <2>2. req[r].nodes \subseteq Nodes BY <1>2 DEF Request
  <2>3. \A m \in Nodes : (IF m \in req[r].nodes THEN top + 1
                          ELSE IF m \in Members(c) THEN member[m].i ELSE 0) \in 0..MaxSlot
        BY <1>3, <2>1, ConstantsAssumption DEF Slots
  <2> QED BY <2>2, <2>3
<1>5. net \in BOOLEAN /\ d \in Cidrs \cup {NoCidr}
      BY <1>2 DEF TypeOK, Request
<1>6. req' = [req EXCEPT ![r] = u] BY <1>1 DEF TypeOK
<1>12. d = cidr[req[r].c] /\ (net => plan[req[r].c]) OBVIOUS
<1> HIDE DEF ix, net, d
<1>7. req'[r] = u /\ Only(r) BY <1>6 DEF TypeOK, Only
<1>8. v \in Request BY <1>2, <1>5 DEF Request
<1>9. /\ v.pc = "probe" /\ v.kind = req[r].kind /\ v.c = req[r].c
      /\ v.nodes = req[r].nodes /\ v.cidr = d /\ v.net = net
      BY <1>2 DEF Request
<1> HIDE DEF v
<1>10. u \in Request BY <1>4, <1>8 DEF Request
<1>11. /\ u.pc = v.pc /\ u.kind = v.kind /\ u.c = v.c /\ u.nodes = v.nodes /\ u.ix = ix
       /\ u.cidr = v.cidr /\ u.net = v.net
       BY <1>8 DEF Request
<1> HIDE DEF u
<1> QED BY <1>1, <1>3, <1>4, <1>7, <1>9, <1>10, <1>11, <1>12

\* The slot that an addition ends up with, and its claim.
Claims(r, n) ==
    /\ n \in req[r].nodes /\ claimed[n] = NoCluster
    /\ claimed' = [claimed EXCEPT ![n] = req[r].c]
    /\ UNCHANGED <<row, cidr, plan, member, lock>>
    /\ Only(r) /\ req'[r] \in Request /\ req'[r].pc \in {"commit", "verify", "apply"}
    /\ req'[r].kind = req[r].kind /\ req'[r].c = req[r].c /\ req'[r].nodes = req[r].nodes
    /\ req'[r].cidr = req[r].cidr /\ req'[r].net = req[r].net
    /\ req'[r].pc \in {"apply", "verify"} => req[r].net /\ req'[r].todo = {n}
    /\ req'[r].ix[n] \in Slots /\ req'[r].ix[n] >= req[r].ix[n]
    /\ \A m \in Nodes \ {n} : req'[r].ix[m] = req[r].ix[m]

LEMMA AddProbeStep ==
    ASSUME TypeOK, NEW r \in Requests, AddProbe(r), ~(End(r) /\ UNCHANGED rows)
    PROVE  \E n \in Nodes : Claims(r, n)
<1>0. PICK n \in req[r].nodes : \E i \in FreeSlots(r, n) :
        /\ Claimable(n)
        /\ claimed' = [claimed EXCEPT ![n] = req[r].c]
        /\ req' = [req EXCEPT ![r].ix[n] = i, ![r].todo = {n}, ![r].pc = AfterProbe(r, n, i)]
        /\ UNCHANGED <<row, cidr, plan, member, lock>>
      BY DEF AddProbe
<1>1. PICK i \in FreeSlots(r, n) :
        /\ Claimable(n)
        /\ claimed' = [claimed EXCEPT ![n] = req[r].c]
        /\ req' = [req EXCEPT ![r].ix[n] = i, ![r].todo = {n}, ![r].pc = AfterProbe(r, n, i)]
        /\ UNCHANGED <<row, cidr, plan, member, lock>>
      BY <1>0
<1> DEFINE ix == [req[r].ix EXCEPT ![n] = i]
           pc == AfterProbe(r, n, i)
           v == [req[r] EXCEPT !.ix = ix]
           u == [v EXCEPT !.todo = {n}, !.pc = pc]
<1>2. req[r] \in Request BY RequestTyped
<1>3. n \in Nodes BY <1>2 DEF Request
<1>4. i \in Slots /\ i >= req[r].ix[n] BY DEF FreeSlots
<1>5. /\ ix \in [Nodes -> 0..MaxSlot] /\ ix[n] = i
      /\ \A m \in Nodes \ {n} : ix[m] = req[r].ix[m]
  <2>1. req[r].ix \in [Nodes -> 0..MaxSlot] BY <1>2 DEF Request
  <2>2. i \in 0..MaxSlot BY <1>4, ConstantsAssumption DEF Slots
  <2> QED BY <1>3, <2>1, <2>2
<1>6. pc \in {"commit", "verify", "apply"} /\ (pc \in {"apply", "verify"} => req[r].net)
      BY DEF AfterProbe
<1>7. req' = [req EXCEPT ![r] = u] BY <1>1 DEF TypeOK
<1> HIDE DEF ix, pc
<1>8. req'[r] = u /\ Only(r) BY <1>7 DEF TypeOK, Only
<1>9. v \in Request BY <1>2, <1>5 DEF Request
<1>10. /\ v.kind = req[r].kind /\ v.c = req[r].c /\ v.nodes = req[r].nodes /\ v.ix = ix
       /\ v.cidr = req[r].cidr /\ v.net = req[r].net
       BY <1>2 DEF Request
<1> HIDE DEF v
<1>11. u \in Request BY <1>3, <1>6, <1>9 DEF Request
<1>12. /\ u.pc = pc /\ u.kind = v.kind /\ u.c = v.c /\ u.nodes = v.nodes /\ u.ix = v.ix
       /\ u.todo = {n}
       /\ u.cidr = v.cidr /\ u.net = v.net
       BY <1>9 DEF Request
<1> HIDE DEF u
<1>13. Claims(r, n)
       BY <1>1, <1>3, <1>4, <1>5, <1>6, <1>8, <1>10, <1>11, <1>12 DEF Claims, Claimable
<1> QED BY <1>3, <1>13

LEMMA FilesTyped ==
    ASSUME TypeOK, NEW n \in Nodes,
           \/ UNCHANGED files
           \/ \E a \in Address : Applied(n, a)
           \/ RolledBack(n) \/ NotRolledBack
    PROVE  /\ dropin' \in [Nodes -> Address \cup {NoAddr}]
           /\ foreign' \in [Nodes -> BOOLEAN] /\ bak' \in [Nodes -> BOOLEAN]
<1>1. CASE UNCHANGED files BY <1>1 DEF TypeOK
<1>2. CASE \E a \in Address : Applied(n, a)
  <2>1. Backup(n) \in BOOLEAN BY DEF TypeOK, Backup
  <2> QED BY <1>2, <2>1 DEF TypeOK, Applied
<1>3. CASE RolledBack(n)
  <2>1. foreign[n] \in BOOLEAN /\ bak[n] \in BOOLEAN BY DEF TypeOK
  <2>2. (foreign[n] \/ bak[n]) \in BOOLEAN BY <2>1
  <2> QED BY <1>3, <2>2 DEF TypeOK, RolledBack
<1>4. CASE NotRolledBack BY <1>4 DEF TypeOK, NotRolledBack
<1> QED BY <1>1, <1>2, <1>3, <1>4

\* What a request is about: its cluster, and slots of the network.
Aimed(r) ==
    /\ req[r].kind \in {"add", "delete"} => req[r].c \in Clusters
    /\ req[r].kind = "create" => \A n \in req[r].nodes : req[r].ix[n] \in Slots
    /\ req[r].kind = "add" /\ req[r].pc \in {"probe", "apply", "verify", "reverse", "commit"} =>
          \A n \in req[r].nodes : req[r].ix[n] \in Slots
    /\ req[r].kind = "delete" <=> req[r].pc = "clean"
    /\ req[r].kind = "none" => req[r].pc = "free"
    /\ req[r].net /\ req[r].pc \in {"probe", "apply", "verify", "reverse", "commit", "undo"} =>
          req[r].cidr \in Cidrs
    /\ req[r].pc = "apply" => req[r].net /\ req[r].todo \subseteq req[r].nodes
    /\ req[r].kind = "create" /\ req[r].pc = "probe" => req[r].net
PlanCidr == \A c \in Clusters : plan[c] => cidr[c] \in Cidrs
TypeInv == TypeOK /\ PlanCidr /\ \A r \in Requests : Aimed(r)

LEMMA TypeInit == Init => TypeInv
<1> SUFFICES ASSUME Init PROVE TypeInv
    OBVIOUS
<1>1. req \in [Requests -> Request] BY NoRequestTyped DEF Init
<1>2. TypeOK BY <1>1 DEF Init, TypeOK
<1>3. \A r \in Requests : Aimed(r) BY DEF Init, Aimed, NoRequest
<1>4. PlanCidr BY DEF Init, PlanCidr
<1> QED BY <1>2, <1>3, <1>4 DEF TypeInv

LEMMA RequestsStay ==
    ASSUME TypeInv, NEW r \in Requests, Only(r), req'[r] \in Request, Aimed(r)'
    PROVE  req' \in [Requests -> Request] /\ \A q \in Requests : Aimed(q)'
<1>1. req \in [Requests -> Request] BY DEF TypeInv, TypeOK
<1>2. \A q \in Requests \ {r} : req'[q] = req[q] BY <1>1, OnlyFrame
<1>3. \A q \in Requests \ {r} : Aimed(q)' BY <1>2 DEF TypeInv, Aimed
<1> QED BY <1>1, <1>3, OnlyTyped

LEMMA EndStays ==
    ASSUME TypeInv, NEW r \in Requests, End(r)
    PROVE  /\ req' \in [Requests -> Request] /\ \A q \in Requests : Aimed(q)'
           /\ lock' \in [Keys -> Requests \cup {Free}]
<1>1. TypeOK BY DEF TypeInv
<1>2. Only(r) /\ req'[r] = NoRequest BY <1>1, EndStep
<1>3. Aimed(r)' BY <1>2 DEF Aimed, NoRequest
<1> QED BY <1>1, <1>2, <1>3, NoRequestTyped, EndTyped, RequestsStay

LEMMA SameStays ==
    ASSUME TypeInv, NEW r \in Requests, Only(r), req'[r] \in Request, Same(r),
           req'[r].pc = "apply" => req'[r].todo \subseteq req[r].nodes,
           \/ req[r].pc \in {"apply", "verify", "reverse", "commit"}
                /\ req'[r].pc \in {"verify", "reverse", "commit", "undo", req[r].pc}
           \/ req'[r].pc = "undo" /\ req[r].pc = "undo"
           \/ req'[r].pc = "clean" /\ req[r].pc = "clean"
    PROVE  req' \in [Requests -> Request] /\ \A q \in Requests : Aimed(q)'
<1>1. Aimed(r) BY DEF TypeInv
<1>2. Aimed(r)' BY <1>1 DEF Aimed, Same
<1> QED BY <1>2, RequestsStay

\* The part of the state that belongs to the requests.
LEMMA RequestPartTyped ==
    ASSUME TypeInv, NEW r \in Requests, Lock(r) \/ RequestStep(r)
    PROVE  /\ req' \in [Requests -> Request] /\ \A q \in Requests : Aimed(q)'
           /\ lock' \in [Keys -> Requests \cup {Free}]
<1>0. TypeOK /\ Aimed(r) BY DEF TypeInv
<1>1. lock' \in [Keys -> Requests \cup {Free}]
  <2>1. CASE End(r) BY <2>1, EndStays
  <2>2. CASE Lock(r) BY <1>0, <2>2 DEF Lock, TypeOK
  <2>3. CASE UNCHANGED lock BY <1>0, <2>3 DEF TypeOK
  <2> QED BY <2>1, <2>2, <2>3 DEF RequestStep, CreateCheck, CreateProbe, CreateCommit,
                AddCheck, AddProbe, AddReverse, AddCommit, Apply, Verify, Clean, Undo,
                CleanupEnd, Goes
<1>2. CASE End(r) BY <1>2, EndStays
<1>3. CASE Lock(r)
  <2>1. Aimed(r)' BY <1>0, <1>3, LockStep DEF Aimed, Lock
  <2> QED BY <1>0, <1>1, <1>3, <2>1, LockStep, RequestsStay
<1>4. CASE CreateCheck(r) /\ ~End(r)
  <2>1. Aimed(r)' BY <1>0, <1>4, CreateCheckStep DEF Aimed, CreateCheck
  <2> QED BY <1>0, <1>1, <1>4, <2>1, CreateCheckStep, RequestsStay
<1>5. CASE CreateProbe(r) /\ ~End(r)
  <2>1. Aimed(r)' BY <1>0, <1>5, CreateProbeStep DEF Aimed, CreateProbe
  <2> QED BY <1>0, <1>1, <1>5, <2>1, CreateProbeStep, RequestsStay
<1>6. ASSUME NEW pc \in {"commit", "undo"}, Goes(r, pc),
             req[r].pc \in {"reverse", "commit"}
      PROVE  req' \in [Requests -> Request] /\ \A q \in Requests : Aimed(q)'
      BY <1>0, <1>6, GoesSame, SameStays
<1>7. CASE CreateCommit(r) /\ ~End(r) BY <1>1, <1>6, <1>7 DEF CreateCommit
<1>8. CASE AddCheck(r) /\ ~End(r)
  <2>1. req[r].c \in Clusters BY <1>0, <1>8 DEF AddCheck, Aimed
  <2>3. PlanCidr BY DEF TypeInv
  <2>2. Aimed(r)' BY <1>0, <1>8, <2>1, <2>3, AddCheckStep DEF Aimed, AddCheck, PlanCidr
  <2> QED BY <1>0, <1>1, <1>8, <2>1, <2>2, AddCheckStep, RequestsStay
<1>9. CASE AddProbe(r) /\ ~End(r)
  <2>1. PICK n \in Nodes : Claims(r, n) BY <1>0, <1>9, AddProbeStep
  <2>2. Aimed(r)'
    <3>1. req[r].kind = "add" /\ req[r].pc = "probe" BY <1>9 DEF AddProbe
    <3>2. req[r].nodes \subseteq Nodes BY <1>0, RequestTyped DEF Request
    <3>3. \A m \in req'[r].nodes : req'[r].ix[m] \in Slots
          BY <1>0, <2>1, <3>1, <3>2 DEF Aimed, Claims
    <3> QED BY <1>0, <2>1, <3>1, <3>3 DEF Aimed, Claims
  <2> QED BY <1>0, <1>1, <2>1, <2>2, RequestsStay DEF Claims
<1>10. CASE AddReverse(r) BY <1>1, <1>6, <1>10 DEF AddReverse
<1>11. CASE AddCommit(r) /\ ~End(r) BY <1>1, <1>6, <1>11 DEF AddCommit
<1>12. ASSUME NEW n \in Nodes, Apply(r, n)
       PROVE  req' \in [Requests -> Request] /\ \A q \in Requests : Aimed(q)'
  <2>1. req'[r].todo \subseteq req[r].nodes BY <1>0, <1>12, ApplyStep DEF Apply, Aimed
  <2> QED BY <1>0, <1>12, <2>1, ApplyStep, SameStays DEF Apply
<1>13. ASSUME NEW n \in Nodes, Verify(r, n)
       PROVE  req' \in [Requests -> Request] /\ \A q \in Requests : Aimed(q)'
       BY <1>0, <1>13, VerifyStep, SameStays DEF Verify
<1>14. ASSUME NEW n \in Nodes, Clean(r, n)
       PROVE  req' \in [Requests -> Request] /\ \A q \in Requests : Aimed(q)'
       BY <1>0, <1>14, CleanStep, SameStays DEF Clean
<1>15. CASE Undo(r) /\ ~End(r) BY <1>0, <1>1, <1>15, UndoStep, SameStays DEF Undo
<1>16. CASE CleanupEnd(r) BY <1>2, <1>16 DEF CleanupEnd
<1> QED BY <1>1, <1>2, <1>3, <1>4, <1>5, <1>7, <1>8, <1>9, <1>10, <1>11, <1>12, <1>13,
           <1>14, <1>15, <1>16 DEF RequestStep

RowsTyped ==
    /\ row \in [Clusters -> {"none", "exists", "deleted"}]
    /\ cidr \in [Clusters -> Cidrs \cup {NoCidr}] /\ plan \in [Clusters -> BOOLEAN]
    /\ claimed \in [Nodes -> Clusters \cup {NoCluster}]
    /\ member \in [Nodes -> Row \cup {NoRow}]
    /\ PlanCidr

LEMMA RowsNow == TypeInv => RowsTyped
BY DEF TypeInv, TypeOK, RowsTyped

LEMMA RowsSame == ASSUME TypeInv, UNCHANGED rows PROVE RowsTyped'
BY RowsNow DEF RowsTyped, PlanCidr

\* The transaction that creates a cluster.
Formed(r, c) ==
    /\ row[c] = "none" /\ CommitOK(r)
    /\ row' = [row EXCEPT ![c] = "exists"]
    /\ cidr' = [cidr EXCEPT ![c] = req[r].cidr]
    /\ plan' = [plan EXCEPT ![c] = req[r].net]
    /\ claimed' = [n \in Nodes |-> IF n \in req[r].nodes THEN c ELSE claimed[n]]
    /\ member' = [n \in Nodes |-> IF n \in req[r].nodes THEN [c |-> c, i |-> req[r].ix[n]]
                                  ELSE member[n]]

LEMMA FormedTyped ==
    ASSUME TypeInv, NEW r \in Requests, req[r].kind = "create", req[r].pc = "commit",
           NEW c \in Clusters, Formed(r, c)
    PROVE  RowsTyped'
<1>1. RowsTyped /\ req[r] \in Request /\ Aimed(r)
      BY RowsNow, RequestTyped DEF TypeInv
<1>2. req[r].cidr \in Cidrs \cup {NoCidr} /\ req[r].net \in BOOLEAN
      /\ (req[r].net => req[r].cidr \in Cidrs)
      BY <1>1 DEF Aimed, Request
<1>3. \A n \in req[r].nodes : [c |-> c, i |-> req[r].ix[n]] \in Row
      BY <1>1 DEF Aimed, Row
<1>4. row' \in [Clusters -> {"none", "exists", "deleted"}] BY <1>1 DEF Formed, RowsTyped
<1>5. cidr' \in [Clusters -> Cidrs \cup {NoCidr}] /\ plan' \in [Clusters -> BOOLEAN]
      BY <1>1, <1>2 DEF Formed, RowsTyped
<1>6. claimed' \in [Nodes -> Clusters \cup {NoCluster}] BY <1>1 DEF Formed, RowsTyped
<1>7. member' \in [Nodes -> Row \cup {NoRow}] BY <1>1, <1>3 DEF Formed, RowsTyped
<1>8. PlanCidr'
  <2> SUFFICES ASSUME NEW d \in Clusters, plan'[d] PROVE cidr'[d] \in Cidrs
      BY DEF PlanCidr
  <2>1. CASE d = c BY <1>1, <1>2, <2>1 DEF Formed, RowsTyped
  <2>2. CASE d # c BY <1>1, <2>2 DEF Formed, RowsTyped, PlanCidr
  <2> QED BY <2>1, <2>2
<1> QED BY <1>4, <1>5, <1>6, <1>7, <1>8 DEF RowsTyped

LEMMA ClaimsTyped ==
    ASSUME TypeInv, NEW r \in Requests, NEW n \in Nodes, req[r].c \in Clusters, Claims(r, n)
    PROVE  RowsTyped'
BY RowsNow DEF Claims, RowsTyped, PlanCidr

Joined(r, n) ==
    /\ n \in req[r].nodes /\ member[n] = NoRow
    /\ member' = [member EXCEPT ![n] = [c |-> req[r].c, i |-> req[r].ix[n]]]
    /\ UNCHANGED <<row, cidr, plan, claimed>>

LEMMA JoinedTyped ==
    ASSUME TypeInv, NEW r \in Requests, req[r].kind = "add", req[r].pc = "commit",
           NEW n \in Nodes, Joined(r, n)
    PROVE  RowsTyped'
<1>1. RowsTyped /\ Aimed(r) BY RowsNow DEF TypeInv
<1>2. [c |-> req[r].c, i |-> req[r].ix[n]] \in Row BY <1>1 DEF Aimed, Row, Joined
<1> QED BY <1>1, <1>2 DEF Joined, RowsTyped, PlanCidr

Released(r) ==
    /\ claimed' = [n \in Nodes |-> IF n \in req[r].nodes /\ claimed[n] = req[r].c
                                   THEN NoCluster ELSE claimed[n]]
    /\ UNCHANGED <<row, cidr, plan, member>>

LEMMA ReleasedTyped ==
    ASSUME TypeInv, NEW r \in Requests, Released(r)
    PROVE  RowsTyped'
BY RowsNow DEF Released, RowsTyped, PlanCidr

LEMMA DissolvedTyped ==
    ASSUME TypeInv, NEW c \in Clusters, NEW M, Dissolved(c, M)
    PROVE  RowsTyped'
BY RowsNow DEF Dissolved, RowsTyped, PlanCidr

LEMMA RemoveTyped ==
    ASSUME TypeInv, NEW n \in Nodes, Remove(n)
    PROVE  RowsTyped'
<1>1. RowsTyped BY RowsNow
<1>2. claimed' \in [Nodes -> Clusters \cup {NoCluster}] BY <1>1 DEF Remove, RowsTyped
<1>3. member' \in [Nodes -> Row \cup {NoRow}] BY <1>1 DEF Remove, RowsTyped
<1> QED BY <1>1, <1>2, <1>3 DEF Remove, RowsTyped, PlanCidr

\* What a step of a request does to the rows.
LEMMA RowsStep ==
    ASSUME TypeInv, NEW r \in Requests, Lock(r) \/ RequestStep(r)
    PROVE  \/ UNCHANGED rows
           \/ /\ req[r].kind = "create" /\ req[r].pc = "commit" /\ End(r)
              /\ \E c \in Clusters : Formed(r, c)
           \/ /\ req[r].kind = "add" /\ req[r].pc = "probe"
              /\ \E n \in Nodes : Claims(r, n)
           \/ /\ req[r].kind = "add" /\ req[r].pc = "commit" /\ End(r)
              /\ \E n \in Nodes : Joined(r, n)
           \/ req[r].pc = "undo" /\ Released(r) /\ End(r)
           \/ /\ req[r].pc = "clean" /\ row[req[r].c] = "exists" /\ End(r)
              /\ Dissolved(req[r].c, req[r].nodes)
<1>1. CASE Lock(r) \/ CreateCheck(r) \/ CreateProbe(r) \/ AddCheck(r) \/ AddReverse(r)
           \/ \E n \in Nodes : Apply(r, n) \/ Verify(r, n) \/ Clean(r, n)
      BY <1>1 DEF Lock, CreateCheck, CreateProbe, AddCheck, AddReverse, Apply, Verify, Clean
<1>2. CASE CreateCommit(r) BY <1>2 DEF CreateCommit, Formed
<1>3. CASE AddProbe(r)
  <2>1. TypeOK BY DEF TypeInv
  <2> QED BY <1>3, <2>1, AddProbeStep DEF AddProbe
<1>4. CASE AddCommit(r)
  <2>1. req[r].nodes \subseteq Nodes BY RequestTyped DEF TypeInv, Request
  <2> QED BY <1>4, <2>1 DEF AddCommit, Joined
<1>5. CASE Undo(r) BY <1>5 DEF Undo, Released
<1>6. CASE CleanupEnd(r) BY <1>6 DEF CleanupEnd
<1> QED BY <1>1, <1>2, <1>3, <1>4, <1>5, <1>6 DEF RequestStep

\* What a step of a request does to the files.
LEMMA FilesStep ==
    ASSUME TypeInv, NEW r \in Requests, Lock(r) \/ RequestStep(r)
    PROVE  /\ UNCHANGED wires
           /\ \/ UNCHANGED files
              \/ \E n \in Nodes : \/ \E a \in Address : Applied(n, a)
                                  \/ RolledBack(n) \/ NotRolledBack
<1>0. req[r] \in Request /\ Aimed(r) BY RequestTyped DEF TypeInv
<1>1. CASE Lock(r) \/ CreateCheck(r) \/ CreateProbe(r) \/ CreateCommit(r) \/ AddCheck(r)
           \/ AddProbe(r) \/ AddReverse(r) \/ AddCommit(r) \/ CleanupEnd(r)
           \/ \E n \in Nodes : Verify(r, n)
      BY <1>1 DEF Lock, CreateCheck, CreateProbe, CreateCommit, AddCheck, AddProbe,
                  AddReverse, AddCommit, CleanupEnd, Verify
<1>2. ASSUME NEW n \in Nodes, Apply(r, n)
      PROVE  UNCHANGED wires /\ (UNCHANGED files \/ Applied(n, AddressOf(r, n)))
      BY <1>2 DEF Apply
<1>3. ASSUME NEW n \in Nodes, Apply(r, n)
      PROVE  AddressOf(r, n) \in Address
  <2>1. req[r].kind \in {"create", "add"} BY <1>0, <1>3 DEF Request, Aimed, Apply
  <2> QED BY <1>0, <1>3, <2>1 DEF Apply, Aimed, AddressOf, Address
<1>4. ASSUME NEW n \in Nodes, Clean(r, n)
      PROVE  UNCHANGED wires /\ (RolledBack(n) \/ NotRolledBack)
      BY <1>4 DEF Clean
<1>5. CASE Undo(r) BY <1>0, <1>5 DEF Undo, Request
<1> QED BY <1>1, <1>2, <1>3, <1>4, <1>5 DEF RequestStep

LEMMA TypeParts ==
    ASSUME RowsTyped', req' \in [Requests -> Request],
           lock' \in [Keys -> Requests \cup {Free}],
           dropin' \in [Nodes -> Address \cup {NoAddr}],
           foreign' \in [Nodes -> BOOLEAN], bak' \in [Nodes -> BOOLEAN],
           (linked \subseteq Nodes)', (devices \subseteq Address)',
           \A r \in Requests : Aimed(r)'
    PROVE  TypeInv'
BY DEF RowsTyped, TypeInv, TypeOK

\* The steps that are not taken by a request that has begun.
LEMMA OutsideTyped ==
    ASSUME TypeInv,
           \/ \E n \in Nodes : Remove(n) \/ Unplug(n) \/ Plug(n)
           \/ \E c \in Clusters : Delete(c)
           \/ \E a \in Address : DeviceJoins(a)
    PROVE  TypeInv'
<1>1. RowsTyped'
  <2>1. CASE \E n \in Nodes : Remove(n) BY <2>1, RemoveTyped
  <2>2. CASE \E c \in Clusters : Delete(c) BY <2>2, DissolvedTyped DEF Delete
  <2>3. CASE UNCHANGED rows BY <2>3, RowsSame
  <2> QED BY <2>1, <2>2, <2>3 DEF Unplug, Plug, DeviceJoins
<1>2. UNCHANGED <<files, lock, req>>
      BY DEF Remove, Unplug, Plug, Delete, DeviceJoins
<1>3. TypeOK /\ \A r \in Requests : Aimed(r) BY DEF TypeInv
<1>4. \A r \in Requests : Aimed(r)' BY <1>2, <1>3 DEF Aimed
<1>5. (linked \subseteq Nodes)' /\ (devices \subseteq Address)'
      BY <1>3 DEF TypeOK, Remove, Unplug, Plug, Delete, DeviceJoins
<1>6. /\ req' \in [Requests -> Request] /\ lock' \in [Keys -> Requests \cup {Free}]
      /\ dropin' \in [Nodes -> Address \cup {NoAddr}]
      /\ foreign' \in [Nodes -> BOOLEAN] /\ bak' \in [Nodes -> BOOLEAN]
      BY <1>2, <1>3 DEF TypeOK
<1> QED BY <1>1, <1>4, <1>5, <1>6, TypeParts

\* Requests that begin.
Begins(r) ==
    \/ \E S \in SUBSET Nodes : \E ix \in [Nodes -> 0..MaxSlot] : CreateBegin(r, S, ix)
    \/ \E c \in Clusters, n \in Nodes, net \in BOOLEAN : AddBegin(r, c, n, net)
    \/ \E c \in Clusters : CleanupBegin(r, c)

LEMMA BeginsTyped ==
    ASSUME TypeInv, NEW r \in Requests, Begins(r)
    PROVE  TypeInv'
<1>0. TypeOK BY DEF TypeInv
<1>1. Only(r) /\ req'[r] \in Request
      BY <1>0, CreateBeginStep, AddBeginStep, CleanupBeginStep DEF Begins
<1>2. Aimed(r)'
  <2>1. ASSUME NEW S \in SUBSET Nodes, NEW ix \in [Nodes -> 0..MaxSlot], CreateBegin(r, S, ix)
        PROVE  Aimed(r)'
    <3>1. \A n \in S : ix[n] \in Slots BY <2>1 DEF CreateBegin
    <3> QED BY <1>0, <2>1, <3>1, CreateBeginStep DEF Aimed
  <2>2. ASSUME NEW c \in Clusters, NEW n \in Nodes, NEW net \in BOOLEAN, AddBegin(r, c, n, net)
        PROVE  Aimed(r)'
        BY <1>0, <2>2, AddBeginStep DEF Aimed
  <2>3. ASSUME NEW c \in Clusters, CleanupBegin(r, c) PROVE Aimed(r)'
        BY <1>0, <2>3, CleanupBeginStep DEF Aimed
  <2> QED BY <2>1, <2>2, <2>3 DEF Begins
<1>3. UNCHANGED <<rows, files, wires, lock>>
      BY DEF Begins, CreateBegin, AddBegin, CleanupBegin
<1>4. RowsTyped' BY <1>3, RowsSame
<1>5. req' \in [Requests -> Request] /\ \A q \in Requests : Aimed(q)'
      BY <1>1, <1>2, RequestsStay
<1>6. /\ lock' \in [Keys -> Requests \cup {Free}]
      /\ dropin' \in [Nodes -> Address \cup {NoAddr}]
      /\ foreign' \in [Nodes -> BOOLEAN] /\ bak' \in [Nodes -> BOOLEAN]
      /\ (linked \subseteq Nodes)' /\ (devices \subseteq Address)'
      BY <1>0, <1>3 DEF TypeOK
<1> QED BY <1>4, <1>5, <1>6, TypeParts

LEMMA RequestStepTyped ==
    ASSUME TypeInv, NEW r \in Requests, Lock(r) \/ RequestStep(r)
    PROVE  TypeInv'
<1>0. TypeOK /\ Aimed(r) /\ req[r] \in Request BY RequestTyped DEF TypeInv
<1>1. RowsTyped'
  <2>1. CASE UNCHANGED rows BY <2>1, RowsSame
  <2>2. CASE /\ req[r].kind = "create" /\ req[r].pc = "commit"
             /\ \E c \in Clusters : Formed(r, c)
        BY <2>2, FormedTyped
  <2>3. CASE req[r].kind = "add" /\ \E n \in Nodes : Claims(r, n)
        BY <1>0, <2>3, ClaimsTyped DEF Aimed
  <2>4. CASE /\ req[r].kind = "add" /\ req[r].pc = "commit"
             /\ \E n \in Nodes : Joined(r, n)
        BY <2>4, JoinedTyped
  <2>5. CASE Released(r) BY <2>5, ReleasedTyped
  <2>6. CASE /\ req[r].pc = "clean" /\ row[req[r].c] = "exists"
             /\ Dissolved(req[r].c, req[r].nodes)
    <3>1. req[r].c \in Clusters
          BY <1>0, <2>6 DEF Aimed, RequestStep, Request
    <3> QED BY <2>6, <3>1, DissolvedTyped
  <2> QED BY <2>1, <2>2, <2>3, <2>4, <2>5, <2>6, RowsStep
<1>2. /\ req' \in [Requests -> Request] /\ \A q \in Requests : Aimed(q)'
      /\ lock' \in [Keys -> Requests \cup {Free}]
      BY RequestPartTyped
<1>3. /\ dropin' \in [Nodes -> Address \cup {NoAddr}]
      /\ foreign' \in [Nodes -> BOOLEAN] /\ bak' \in [Nodes -> BOOLEAN]
      BY <1>0, FilesStep, FilesTyped DEF TypeOK
<1>4. (linked \subseteq Nodes)' /\ (devices \subseteq Address)'
      BY <1>0, FilesStep DEF TypeOK
<1> QED BY <1>1, <1>2, <1>3, <1>4, TypeParts

Outside ==
    \/ \E n \in Nodes : Remove(n) \/ Unplug(n) \/ Plug(n)
    \/ \E c \in Clusters : Delete(c)
    \/ \E a \in Address : DeviceJoins(a)

LEMMA NextParts ==
    ASSUME Next
    PROVE  \/ Outside
           \/ \E r \in Requests : Begins(r)
           \/ \E r \in Requests : Lock(r) \/ RequestStep(r)
BY DEF Next, Outside, Begins

LEMMA TypeStep == TypeInv /\ [Next]_vars => TypeInv'
<1> SUFFICES ASSUME TypeInv, [Next]_vars PROVE TypeInv'
    OBVIOUS
<1>1. CASE Outside BY <1>1, OutsideTyped DEF Outside
<1>2. CASE \E r \in Requests : Begins(r) BY <1>2, BeginsTyped
<1>3. CASE \E r \in Requests : Lock(r) \/ RequestStep(r) BY <1>3, RequestStepTyped
<1>4. CASE UNCHANGED vars
  <2>1. RowsTyped' BY <1>4, RowsSame DEF vars
  <2>2. TypeOK /\ \A r \in Requests : Aimed(r) BY DEF TypeInv
  <2>3. TypeOK' BY <1>4, <2>2 DEF TypeOK, vars
  <2>4. \A r \in Requests : Aimed(r)' BY <1>4, <2>2 DEF Aimed, vars
  <2> QED BY <2>1, <2>3, <2>4 DEF TypeInv, RowsTyped
<1> QED BY <1>1, <1>2, <1>3, <1>4, NextParts

\* Every variable keeps its type; in particular no search for a slot leaves the network
\* (_reserve_node_slot), and what is written to a node is an address of a network.
THEOREM TypeCorrect == Spec => []TypeOK
<1>1. TypeInv => TypeOK BY DEF TypeInv
<1> QED BY <1>1, TypeInit, TypeStep, PTL DEF Spec

LEMMA KeptByScripts ==
    ASSUME TypeOK, ForeignKept, NEW n \in Nodes,
           \/ \E a \in Address : Applied(n, a)
           \/ RolledBack(n) \/ NotRolledBack
    PROVE  ForeignKept'
<1> SUFFICES ASSUME NEW m \in Declaring PROVE foreign'[m] \/ bak'[m]
    BY DEF ForeignKept
<1>1. m \in Nodes /\ (foreign[m] \/ bak[m]) BY ConstantsAssumption DEF ForeignKept
<1>2. foreign \in [Nodes -> BOOLEAN] /\ bak \in [Nodes -> BOOLEAN] BY DEF TypeOK
<1>3. CASE \E a \in Address : Applied(n, a)
  <2>1. foreign' = [foreign EXCEPT ![n] = FALSE] /\ bak' = [bak EXCEPT ![n] = Backup(n)]
        BY <1>3 DEF Applied
  <2>2. CASE m = n BY <1>1, <1>2, <2>1, <2>2 DEF Backup
  <2>3. CASE m # n BY <1>1, <1>2, <2>1, <2>3
  <2> QED BY <2>2, <2>3
<1>4. CASE RolledBack(n)
  <2>1. foreign' = [foreign EXCEPT ![n] = @ \/ bak[n]] /\ bak' = [bak EXCEPT ![n] = FALSE]
        BY <1>4 DEF RolledBack
  <2>2. CASE m = n
    <3>1. foreign'[n] = (foreign[n] \/ bak[n]) BY <1>2, <2>1
    <3> QED BY <1>1, <2>2, <3>1
  <2>3. CASE m # n BY <1>1, <1>2, <2>1, <2>3
  <2> QED BY <2>2, <2>3
<1>5. CASE NotRolledBack BY <1>1, <1>5 DEF NotRolledBack
<1> QED BY <1>3, <1>4, <1>5

\* What the other netplan file of a node said of the rails is never lost, whichever
\* requests apply and roll back, in whatever order (network_config.py, .fw-bak).
THEOREM ForeignSafe == Spec => []ForeignKept
<1>1. Init => ForeignKept BY ConstantsAssumption DEF Init, ForeignKept
<1>2. TypeInv /\ ForeignKept /\ [Next]_vars => ForeignKept'
  <2> SUFFICES ASSUME TypeInv, ForeignKept, [Next]_vars PROVE ForeignKept'
      OBVIOUS
  <2>1. TypeOK BY DEF TypeInv
  <2>2. CASE UNCHANGED files BY <2>2 DEF ForeignKept
  <2>3. CASE Outside
        BY <2>2, <2>3 DEF Outside, Remove, Unplug, Plug, Delete, DeviceJoins
  <2>4. CASE \E r \in Requests : Begins(r)
        BY <2>2, <2>4 DEF Begins, CreateBegin, AddBegin, CleanupBegin
  <2>5. CASE \E r \in Requests : Lock(r) \/ RequestStep(r)
        BY <2>1, <2>2, <2>5, FilesStep, KeptByScripts
  <2>6. CASE UNCHANGED vars BY <2>2, <2>6 DEF vars
  <2> QED BY <2>3, <2>4, <2>5, <2>6, NextParts
<1> QED BY <1>1, <1>2, TypeInit, TypeStep, PTL DEF Spec

----------------------------------------------------------------------------
(* The inductive invariant, where no cluster is deleted while its members  *)
(* change ("apart" \in Ops).                                               *)

Claiming == {"apply", "verify", "reverse", "commit"}
Late == Claiming \cup {"probe", "undo"}
Past(r) == req[r].pc \notin {"free", "lock", "clean"}

Held(r) == Past(r) => Missing(r) = {}
CreateOK(r) ==
    req[r].kind = "create" =>
        /\ req[r].c = NoCluster
        /\ \A m, n \in req[r].nodes : m # n => req[r].ix[m] # req[r].ix[n]
AddOK(r) ==
    req[r].kind = "add" =>
        /\ row[req[r].c] = "exists"
        /\ \A m, n \in req[r].nodes : m = n
        /\ req[r].pc \in Late => \A n \in req[r].nodes : n \notin Members(req[r].c)
        /\ req[r].pc \in Claiming \cup {"probe"} =>
              \A n \in req[r].nodes, m \in Members(req[r].c) : member[m].i < req[r].ix[n]
        /\ req[r].pc \in Claiming => \A n \in req[r].nodes : claimed[n] = req[r].c
DeleteOK(r) ==
    req[r].kind = "delete" => row[req[r].c] # "none" /\ Members(req[r].c) \subseteq req[r].nodes
ReqInv(r) == Held(r) /\ CreateOK(r) /\ AddOK(r) /\ DeleteOK(r)

\* An addition and a deletion of the same cluster.
NoClash(q, r) == req[q].kind = "add" /\ req[r].kind = "delete" => req[q].c # req[r].c

MemberRows ==
    \A n \in Nodes :
        member[n] # NoRow => row[member[n].c] = "exists" /\ claimed[n] = member[n].c
UniqueSlots ==
    \A m, n \in Nodes :
        m # n /\ member[m] # NoRow /\ member[n] # NoRow /\ member[m].c = member[n].c =>
            member[m].i # member[n].i
CidrsApart ==
    \A c, d \in Clusters :
        c # d /\ row[c] = "exists" /\ row[d] = "exists" /\ cidr[c] = cidr[d] => cidr[c] = NoCidr
RowInv == MemberRows /\ UniqueSlots /\ CidrsApart

IInv ==
    /\ TypeInv /\ RowInv
    /\ \A r \in Requests : ReqInv(r)
    /\ \A q, r \in Requests : NoClash(q, r)

\* A request that has all its locks is alone on its nodes, an addition on its cluster.
LEMMA Alone ==
    ASSUME TypeOK, NEW q \in Requests, NEW r \in Requests, q # r, Held(q), Held(r),
           Past(q), Past(r)
    PROVE  /\ \A n \in req[q].nodes : n \notin req[r].nodes
           /\ req[q].kind = "add" /\ req[r].kind = "add" => req[q].c # req[r].c
<1>1. \A k \in Wanted(q) : lock[k] = q BY DEF Held, Missing
<1>2. \A k \in Wanted(r) : lock[k] = r BY DEF Held, Missing
<1> QED BY <1>1, <1>2 DEF Wanted

\* Where the rows of other requests' clusters stay as they are.
Shrinks(c) == \A n \in Nodes : member'[n] # NoRow /\ member'[n].c = c => member'[n] = member[n]
RowsKeep(q) ==
    /\ req[q].kind = "add" =>
         /\ row'[req[q].c] = "exists" /\ (req[q].pc \in Late => Shrinks(req[q].c))
         /\ req[q].pc \in Claiming =>
               \A n \in req[q].nodes : claimed[n] = req[q].c => claimed'[n] = req[q].c
    /\ req[q].kind = "delete" => row'[req[q].c] # "none" /\ Shrinks(req[q].c)

LEMMA ShrinkMembers ==
    ASSUME NEW c, Shrinks(c)
    PROVE  Members(c)' \subseteq Members(c) /\ \A m \in Members(c)' : member'[m] = member[m]
BY DEF Shrinks, Members

LEMMA WantedKeys ==
    ASSUME TypeInv, NEW q \in Requests
    PROVE  Wanted(q) \subseteq Keys
<1>1. req[q] \in Request /\ Aimed(q) BY RequestTyped DEF TypeInv
<1> QED BY <1>1 DEF Wanted, Keys, Aimed, Request

LEMMA HeldFrame ==
    ASSUME TypeInv, NEW q \in Requests, Held(q), req'[q] = req[q],
           \A k \in Keys : lock[k] = q => lock'[k] = q
    PROVE  Held(q)'
<1>1. Wanted(q)' = Wanted(q) BY DEF Wanted
<1>2. Wanted(q) \subseteq Keys BY WantedKeys
<1> SUFFICES ASSUME Past(q) PROVE Missing(q)' = {}
    BY DEF Held, Past
<1>3. \A k \in Wanted(q) : lock[k] = q BY DEF Held, Missing
<1>4. \A k \in Wanted(q) : lock'[k] = q BY <1>2, <1>3
<1> QED BY <1>1, <1>4 DEF Missing

LEMMA Frame ==
    ASSUME TypeInv, NEW q \in Requests, ReqInv(q), req'[q] = req[q], RowsKeep(q),
           \A k \in Keys : lock[k] = q => lock'[k] = q
    PROVE  ReqInv(q)'
<1>2. Held(q)' BY HeldFrame DEF ReqInv
<1>3. CreateOK(q)' BY DEF ReqInv, CreateOK
<1>4. AddOK(q)' BY ShrinkMembers DEF ReqInv, AddOK, RowsKeep, Late, Claiming
<1>5. DeleteOK(q)' BY ShrinkMembers DEF ReqInv, DeleteOK, RowsKeep
<1> QED BY <1>2, <1>3, <1>4, <1>5 DEF ReqInv

\* Every other request keeps its invariant while the step of r keeps its rows.
LEMMA OthersKeep ==
    ASSUME IInv, NEW r \in Requests, Only(r), ReqInv(r)',
           \A k \in Keys : \A q \in Requests \ {r} : lock[k] = q => lock'[k] = q,
           \A q \in Requests \ {r} : RowsKeep(q)
    PROVE  \A q \in Requests : ReqInv(q)'
<1>1. TypeInv /\ TypeOK BY DEF IInv, TypeInv
<1>2. \A q \in Requests \ {r} : req'[q] = req[q] BY <1>1, OnlyFrame DEF TypeOK
<1>3. ASSUME NEW q \in Requests \ {r} PROVE ReqInv(q)'
      BY <1>1, <1>2, <1>3, Frame DEF IInv
<1> QED BY <1>3

LEMMA ClashKept ==
    ASSUME IInv, NEW r \in Requests, Only(r),
           \/ req'[r].kind = "none"
           \/ req'[r].kind = req[r].kind /\ req'[r].c = req[r].c
    PROVE  \A p, q \in Requests : NoClash(p, q)'
<1>1. TypeOK BY DEF IInv, TypeInv
<1>2. \A q \in Requests \ {r} : req'[q] = req[q] BY <1>1, OnlyFrame DEF TypeOK
<1>3. \A p, q \in Requests : NoClash(p, q) BY DEF IInv
<1> SUFFICES ASSUME NEW p \in Requests, NEW q \in Requests PROVE NoClash(p, q)'
    OBVIOUS
<1>4. \A x \in {p, q} : \/ req'[x].kind = "none"
                        \/ req'[x].kind = req[x].kind /\ req'[x].c = req[x].c
      BY <1>2
<1> QED BY <1>3, <1>4 DEF NoClash

LEMMA RowsQuiet ==
    ASSUME IInv, UNCHANGED rows
    PROVE  RowInv' /\ \A q \in Requests : RowsKeep(q)
<1>1. RowInv /\ \A q \in Requests : AddOK(q) /\ DeleteOK(q) BY DEF IInv, ReqInv
<1>2. RowInv' BY <1>1 DEF RowInv, MemberRows, UniqueSlots, CidrsApart
<1>3. \A c : Shrinks(c) BY DEF Shrinks
<1>4. ASSUME NEW q \in Requests PROVE RowsKeep(q)
      BY <1>1, <1>3 DEF RowsKeep, AddOK, DeleteOK
<1> QED BY <1>2, <1>4

\* The locks of the others are not touched.
LEMMA LocksKept ==
    ASSUME TypeInv, NEW r \in Requests, Lock(r) \/ RequestStep(r)
    PROVE  \A k \in Keys : \A q \in Requests \ {r} : lock[k] = q => lock'[k] = q
<1>0. lock \in [Keys -> Requests \cup {Free}] BY DEF TypeInv, TypeOK
<1>1. CASE Lock(r) BY <1>0, <1>1, ConstantsAssumption DEF Lock
<1>2. CASE End(r) BY <1>0, <1>2 DEF End, Unlocked
<1>3. CASE UNCHANGED lock BY <1>3
<1> QED BY <1>1, <1>2, <1>3 DEF RequestStep, CreateCheck, CreateProbe, CreateCommit,
           AddCheck, AddProbe, AddReverse, AddCommit, Apply, Verify, Clean, Undo,
           CleanupEnd, Goes

LEMMA EndInv ==
    ASSUME TypeOK, NEW r \in Requests, End(r)
    PROVE  Only(r) /\ ReqInv(r)' /\ req'[r].kind = "none"
<1>1. Only(r) /\ req'[r] = NoRequest BY EndStep
<1>2. req'[r].kind = "none" /\ req'[r].pc = "free" BY <1>1 DEF NoRequest
<1> QED BY <1>1, <1>2 DEF ReqInv, Held, Past, CreateOK, AddOK, DeleteOK

LEMMA HeldKept ==
    ASSUME NEW r \in Requests, Held(r), Past(r), UNCHANGED lock,
           req'[r].kind = req[r].kind, req'[r].c = req[r].c, req'[r].nodes = req[r].nodes
    PROVE  Held(r)'
BY DEF Held, Past, Missing, Wanted

\* Moves of a request that keep its nodes and slots.
LEMMA SameInv ==
    ASSUME IInv, NEW r \in Requests, Same(r), UNCHANGED <<rows, lock>>,
           \/ req'[r].pc = req[r].pc
           \/ /\ req[r].pc \in Claiming
              /\ req'[r].pc \in Claiming \cup {"undo"}
    PROVE  ReqInv(r)'
<1>1. ReqInv(r) BY DEF IInv
<1>2. Held(r)'
  <2>1. CASE Past(r) BY <1>1, <2>1, HeldKept DEF ReqInv, Same
  <2>2. CASE ~Past(r) BY <2>2 DEF Held, Past, Claiming
  <2> QED BY <2>1, <2>2
<1>3. CreateOK(r)' BY <1>1 DEF ReqInv, CreateOK, Same
<1>4. AddOK(r)' BY <1>1 DEF ReqInv, AddOK, Same, Members, Late, Claiming
<1>5. DeleteOK(r)' BY <1>1 DEF ReqInv, DeleteOK, Same, Members
<1> QED BY <1>2, <1>3, <1>4, <1>5 DEF ReqInv

LEMMA LockHeld ==
    ASSUME TypeInv, NEW r \in Requests, Lock(r)
    PROVE  Held(r)'
<1>0. TypeOK BY DEF TypeInv
<1>1. /\ req'[r].pc \in {"lock", "check"} /\ req'[r].kind = req[r].kind
      /\ req'[r].c = req[r].c /\ req'[r].nodes = req[r].nodes
      /\ req'[r].pc = "check" => \E k \in Keys : Missing(r) = {k} /\ lock[k] = Free
                                                 /\ lock' = [lock EXCEPT ![k] = r]
      BY <1>0, LockStep
<1> SUFFICES ASSUME req'[r].pc = "check" PROVE Missing(r)' = {}
    BY <1>1 DEF Held, Past
<1>2. PICK k \in Keys : Missing(r) = {k} /\ lock' = [lock EXCEPT ![k] = r]
      BY <1>1
<1>3. Wanted(r)' = Wanted(r) BY <1>1 DEF Wanted
<1>4. Wanted(r) \subseteq Keys BY WantedKeys
<1>5. \A x \in Wanted(r) : x # k => lock[x] = r BY <1>2 DEF Missing
<1>6. \A x \in Wanted(r) : lock'[x] = r
      BY <1>0, <1>2, <1>4, <1>5 DEF TypeOK
<1> QED BY <1>3, <1>6 DEF Missing

\* The requests' own steps that leave the rows alone.
LEMMA LockInv ==
    ASSUME IInv, NEW r \in Requests, Lock(r)
    PROVE  ReqInv(r)'
<1>0. TypeOK /\ TypeInv /\ Aimed(r) /\ ReqInv(r) BY DEF IInv, TypeInv
<1>1. /\ req'[r].pc \in {"lock", "check"}
      /\ req'[r].kind = req[r].kind /\ req'[r].c = req[r].c
      /\ req'[r].nodes = req[r].nodes /\ req'[r].ix = req[r].ix
      BY <1>0, LockStep
<1>2. Held(r)' BY <1>0, LockHeld
<1>3. UNCHANGED rows BY DEF Lock
<1>4. CreateOK(r)' BY <1>0, <1>1 DEF ReqInv, CreateOK
<1>5. AddOK(r)' BY <1>0, <1>1, <1>3 DEF ReqInv, AddOK, Late, Claiming
<1>6. DeleteOK(r)' BY <1>0, <1>1 DEF DeleteOK, Lock, Aimed
<1> QED BY <1>2, <1>4, <1>5, <1>6 DEF ReqInv

LEMMA CreateInv ==
    ASSUME IInv, NEW r \in Requests, CreateCheck(r) \/ CreateProbe(r), ~End(r)
    PROVE  ReqInv(r)'
<1>0. TypeOK /\ ReqInv(r) BY DEF IInv, TypeInv
<1>1. req[r].kind = "create" /\ Past(r) BY DEF CreateCheck, CreateProbe, Past
<1>2. /\ req'[r].kind = req[r].kind /\ req'[r].c = req[r].c /\ UNCHANGED lock
      /\ req'[r].nodes = req[r].nodes /\ req'[r].ix = req[r].ix
      BY <1>0, CreateCheckStep, CreateProbeStep
<1>3. Held(r)' BY <1>0, <1>1, <1>2, HeldKept DEF ReqInv
<1>4. CreateOK(r)' BY <1>0, <1>2 DEF ReqInv, CreateOK
<1> QED BY <1>1, <1>2, <1>3, <1>4 DEF ReqInv, AddOK, DeleteOK

LEMMA AddCheckInv ==
    ASSUME IInv, NEW r \in Requests, AddCheck(r), ~End(r)
    PROVE  ReqInv(r)'
<1>0. TypeOK /\ ReqInv(r) /\ Aimed(r) BY DEF IInv, TypeInv
<1>1. req[r].kind = "add" /\ Past(r) /\ UNCHANGED rows BY DEF AddCheck, Past
<1>2. req[r].c \in Clusters BY <1>0, <1>1 DEF Aimed
<1>3. /\ req'[r].kind = req[r].kind /\ req'[r].c = req[r].c /\ UNCHANGED lock
      /\ req'[r].nodes = req[r].nodes /\ req'[r].pc = "probe"
      /\ req[r].nodes \cap Members(req[r].c) = {}
      /\ \A n \in req[r].nodes, i \in SlotsOf(req[r].c) : i < req'[r].ix[n]
      BY <1>0, <1>2, AddCheckStep
<1>4. Held(r)' BY <1>0, <1>1, <1>3, HeldKept DEF ReqInv
<1>5. \A n \in req[r].nodes, m \in Members(req[r].c) : member[m].i < req'[r].ix[n]
      BY <1>3 DEF SlotsOf
<1>6. AddOK(r)' BY <1>0, <1>1, <1>3, <1>5 DEF ReqInv, AddOK, Members, Claiming
<1> QED BY <1>1, <1>3, <1>4, <1>6 DEF ReqInv, CreateOK, DeleteOK

LEMMA QuietInv ==
    ASSUME IInv, NEW r \in Requests, Lock(r) \/ RequestStep(r), UNCHANGED rows
    PROVE  ReqInv(r)' /\ Only(r) /\ (\/ req'[r].kind = "none"
                                     \/ req'[r].kind = req[r].kind /\ req'[r].c = req[r].c)
<1>0. TypeOK BY DEF IInv, TypeInv
<1>1. CASE End(r) BY <1>0, <1>1, EndInv
<1>2. CASE Lock(r) BY <1>0, <1>2, LockInv, LockStep
<1>3. CASE (CreateCheck(r) \/ CreateProbe(r)) /\ ~End(r)
      BY <1>0, <1>3, CreateInv, CreateCheckStep, CreateProbeStep
<1>4. CASE AddCheck(r) /\ ~End(r)
  <2>1. req[r].c \in Clusters BY <1>4 DEF IInv, TypeInv, Aimed, AddCheck
  <2> QED BY <1>0, <1>4, <2>1, AddCheckInv, AddCheckStep
<1>5. ASSUME NEW pc \in {"commit", "undo"}, Goes(r, pc), req[r].pc \in {"reverse", "commit"}
      PROVE  ReqInv(r)' /\ Only(r) /\ req'[r].kind = req[r].kind /\ req'[r].c = req[r].c
      BY <1>0, <1>5, GoesSame, SameInv DEF Same, Claiming
<1>6. CASE (CreateCommit(r) \/ AddCommit(r)) /\ ~End(r) BY <1>5, <1>6 DEF CreateCommit, AddCommit
<1>7. CASE AddReverse(r) BY <1>5, <1>7 DEF AddReverse
<1>8. CASE AddProbe(r) /\ ~End(r)
  <2>1. PICK n \in Nodes : Claims(r, n) BY <1>0, <1>8, AddProbeStep
  <2>2. claimed'[n] = req[r].c /\ claimed[n] = NoCluster BY <1>0, <2>1 DEF Claims, TypeOK
  <2>3. req[r].c \in Clusters BY <1>8 DEF IInv, TypeInv, Aimed, AddProbe
  <2> QED BY <2>2, <2>3, ConstantsAssumption
<1>9. ASSUME NEW n \in Nodes, Apply(r, n) \/ Verify(r, n) \/ Clean(r, n)
      PROVE  ReqInv(r)' /\ Only(r) /\ req'[r].kind = req[r].kind /\ req'[r].c = req[r].c
  <2>1. CASE Apply(r, n)
        BY <1>0, <2>1, ApplyStep, SameInv DEF Same, Claiming, Apply
  <2>2. CASE Verify(r, n)
        BY <1>0, <2>2, VerifyStep, SameInv DEF Same, Claiming, Verify
  <2>3. CASE Clean(r, n)
        BY <1>0, <2>3, CleanStep, SameInv DEF Same, Clean
  <2> QED BY <1>9, <2>1, <2>2, <2>3
<1>10. CASE Undo(r) /\ ~End(r)
       BY <1>0, <1>10, UndoStep, SameInv DEF Same, Undo
<1>11. CASE CleanupEnd(r) BY <1>1, <1>11 DEF CleanupEnd
<1> QED BY <1>1, <1>2, <1>3, <1>4, <1>6, <1>7, <1>8, <1>9, <1>10, <1>11 DEF RequestStep

----------------------------------------------------------------------------
(* The steps that change the rows.                                         *)

RowsChange(r) == RowInv' /\ \A q \in Requests \ {r} : RowsKeep(q)

LEMMA Typed ==
    ASSUME IInv
    PROVE  /\ row \in [Clusters -> {"none", "exists", "deleted"}]
           /\ claimed \in [Nodes -> Clusters \cup {NoCluster}]
           /\ member \in [Nodes -> Row \cup {NoRow}]
           /\ \A n \in Nodes : member[n] # NoRow =>
                 /\ member[n].c \in Clusters /\ member[n].c # NoCluster /\ member[n].i \in Slots
                 /\ row[member[n].c] = "exists" /\ claimed[n] = member[n].c
<1>1. /\ row \in [Clusters -> {"none", "exists", "deleted"}]
      /\ claimed \in [Nodes -> Clusters \cup {NoCluster}]
      /\ member \in [Nodes -> Row \cup {NoRow}]
      BY DEF IInv, TypeInv, TypeOK
<1>2. \A n \in Nodes : member[n] # NoRow => member[n].c \in Clusters /\ member[n].i \in Slots
      BY <1>1 DEF Row
<1> QED BY <1>1, <1>2, ConstantsAssumption DEF IInv, RowInv, MemberRows

LEMMA FormedInv ==
    ASSUME IInv, NEW r \in Requests, req[r].kind = "create", req[r].pc = "commit",
           NEW c \in Clusters, Formed(r, c)
    PROVE  RowsChange(r)
<1>1. TypeOK /\ req[r] \in Request /\ CreateOK(r) BY RequestTyped DEF IInv, TypeInv, ReqInv
<1>2. NoRow \notin Row BY ConstantsAssumption DEF Row, Slots
<1>3. /\ \A n \in Nodes : n \in req[r].nodes =>
             /\ claimed[n] = NoCluster /\ member[n] = NoRow
             /\ claimed'[n] = c /\ member'[n].c = c /\ member'[n].i = req[r].ix[n]
      /\ \A n \in Nodes : n \notin req[r].nodes =>
             claimed'[n] = claimed[n] /\ member'[n] = member[n]
      BY <1>1 DEF Formed, CommitOK, Request
<1>4. /\ row[c] = "none" /\ row'[c] = "exists" /\ cidr'[c] = req[r].cidr
      /\ \A d \in Clusters : d # c => row'[d] = row[d] /\ cidr'[d] = cidr[d]
      BY <1>1 DEF Formed, TypeOK
<1>5. \A n \in Nodes : member[n] # NoRow => member[n].c # c
      BY <1>4, Typed
<1>6. MemberRows'
  <2> SUFFICES ASSUME NEW n \in Nodes, member'[n] # NoRow
               PROVE  row'[member'[n].c] = "exists" /\ claimed'[n] = member'[n].c
      BY DEF MemberRows
  <2>1. CASE n \in req[r].nodes BY <1>3, <1>4, <2>1
  <2>2. CASE n \notin req[r].nodes BY <1>3, <1>4, <1>5, <2>2, Typed
  <2> QED BY <2>1, <2>2
<1>7. UniqueSlots'
  <2> SUFFICES ASSUME NEW m \in Nodes, NEW n \in Nodes, m # n, member'[m] # NoRow,
                      member'[n] # NoRow, member'[m].c = member'[n].c
               PROVE  member'[m].i # member'[n].i
      BY DEF UniqueSlots
  <2>1. CASE m \in req[r].nodes /\ n \in req[r].nodes BY <1>1, <1>3, <2>1 DEF CreateOK
  <2>2. CASE m \notin req[r].nodes /\ n \notin req[r].nodes
        BY <1>3, <2>2 DEF IInv, RowInv, UniqueSlots
  <2>3. CASE m \in req[r].nodes /\ n \notin req[r].nodes BY <1>3, <1>5, <2>3
  <2>4. CASE m \notin req[r].nodes /\ n \in req[r].nodes BY <1>3, <1>5, <2>4
  <2> QED BY <2>1, <2>2, <2>3, <2>4
<1>8. CidrsApart'
  <2>1. \A d \in Clusters : row[d] = "exists" /\ cidr[d] = req[r].cidr => req[r].cidr = NoCidr
        BY DEF Formed, CommitOK, Available
  <2> QED BY <1>4, <2>1 DEF IInv, RowInv, CidrsApart
<1>9. ASSUME NEW q \in Requests PROVE RowsKeep(q)
  <2>1. AddOK(q) /\ DeleteOK(q) /\ Aimed(q) BY DEF IInv, TypeInv, ReqInv
  <2>2. \A d \in Clusters : d # c => Shrinks(d) BY <1>3 DEF Shrinks
  <2>3. CASE req[q].kind = "add"
    <3>1. req[q].c \in Clusters /\ req[q].c # c /\ row'[req[q].c] = "exists"
          BY <1>4, <2>1, <2>3 DEF AddOK, Aimed
    <3>2. \A n \in Nodes : claimed[n] = req[q].c => claimed'[n] = req[q].c
          BY <1>3, <3>1, ConstantsAssumption
    <3>3. req[q].nodes \subseteq Nodes BY <1>1, RequestTyped DEF Request
    <3> QED BY <2>2, <2>3, <3>1, <3>2, <3>3 DEF RowsKeep
  <2>4. CASE req[q].kind = "delete"
    <3>1. req[q].c \in Clusters /\ req[q].c # c /\ row'[req[q].c] # "none"
          BY <1>4, <2>1, <2>4 DEF DeleteOK, Aimed
    <3> QED BY <2>2, <2>4, <3>1 DEF RowsKeep
  <2> QED BY <2>3, <2>4 DEF RowsKeep
<1> QED BY <1>6, <1>7, <1>8, <1>9 DEF RowsChange, RowInv

LEMMA ClaimsInv ==
    ASSUME IInv, NEW r \in Requests, req[r].kind = "add", req[r].pc = "probe",
           NEW n \in Nodes, Claims(r, n)
    PROVE  RowsChange(r) /\ ReqInv(r)'
<1>1. TypeOK /\ Aimed(r) /\ ReqInv(r) BY DEF IInv, TypeInv
<1>2. req[r].c \in Clusters BY <1>1 DEF Aimed
<1>3. /\ claimed[n] = NoCluster /\ claimed'[n] = req[r].c
      /\ \A m \in Nodes : m # n => claimed'[m] = claimed[m]
      /\ UNCHANGED <<row, cidr, plan, member, lock>>
      BY <1>1 DEF Claims, TypeOK
<1>4. RowInv'
  <2>1. MemberRows' BY <1>3, Typed DEF MemberRows
  <2> QED BY <1>3, <2>1 DEF IInv, RowInv, UniqueSlots, CidrsApart
<1>5. ASSUME NEW q \in Requests PROVE RowsKeep(q)
  <2>1. AddOK(q) /\ DeleteOK(q) /\ Aimed(q) BY DEF IInv, TypeInv, ReqInv
  <2>2. \A c : Shrinks(c) BY <1>3 DEF Shrinks
  <2>3. req[q].nodes \subseteq Nodes BY <1>1, RequestTyped DEF Request
  <2>4. \A m \in Nodes, c \in Clusters : claimed[m] = c => claimed'[m] = c
        BY <1>3, ConstantsAssumption
  <2> QED BY <1>3, <2>1, <2>2, <2>3, <2>4 DEF RowsKeep, AddOK, DeleteOK, Aimed
<1>6. Held(r)' BY <1>1, HeldKept DEF Claims, ReqInv, Past
<1>7. AddOK(r)'
  <2>1. n \in req[r].nodes /\ \A m \in req[r].nodes : m = n BY <1>1 DEF Claims, ReqInv, AddOK
  <2>2. \A m \in Members(req[r].c) : member[m].i < req[r].ix[n]
        BY <1>1, <2>1 DEF ReqInv, AddOK, Claiming
  <2>3. /\ req'[r].ix[n] >= req[r].ix[n] /\ req'[r].ix[n] \in Int /\ req[r].ix[n] \in Int
        /\ \A m \in Members(req[r].c) : member[m].i \in Int
    <3>1. req[r].ix \in [Nodes -> 0..MaxSlot] BY <1>1, RequestTyped DEF Request
    <3> QED BY <3>1, Typed DEF Claims, Slots, Members
  <2>4. \A m \in Members(req[r].c) : member[m].i < req'[r].ix[n] BY <2>2, <2>3
  <2>5. /\ req'[r].kind = "add" /\ req'[r].c = req[r].c /\ req'[r].nodes = req[r].nodes
        /\ Members(req[r].c)' = Members(req[r].c)
        BY <1>3 DEF Claims, Members
  <2>6. row[req[r].c] = "exists" /\ n \notin Members(req[r].c)
        BY <1>1, <2>1 DEF ReqInv, AddOK, Late
  <2> QED BY <1>3, <2>1, <2>4, <2>5, <2>6 DEF AddOK, Members
<1> QED BY <1>4, <1>5, <1>6, <1>7 DEF RowsChange, ReqInv, CreateOK, DeleteOK, Claims

LEMMA JoinedInv ==
    ASSUME IInv, NEW r \in Requests, req[r].kind = "add", req[r].pc = "commit",
           NEW n \in Nodes, Joined(r, n)
    PROVE  RowsChange(r)
<1> DEFINE c == req[r].c
<1>1. TypeOK /\ TypeInv /\ AddOK(r) /\ Aimed(r) BY DEF IInv, TypeInv, ReqInv
<1>2. c \in Clusters /\ row[c] = "exists" /\ claimed[n] = c /\ member[n] = NoRow
      /\ \A m \in Members(c) : member[m].i < req[r].ix[n]
      BY <1>1 DEF Aimed, AddOK, Joined, Claiming
<1>3. /\ member'[n].c = c /\ member'[n].i = req[r].ix[n]
      /\ \A m \in Nodes : m # n => member'[m] = member[m]
      /\ UNCHANGED <<row, cidr, plan, claimed>>
      BY <1>1 DEF Joined, TypeOK
<1>4. MemberRows' BY <1>2, <1>3, Typed DEF MemberRows
<1>5. UniqueSlots'
  <2> SUFFICES ASSUME NEW k \in Nodes, NEW m \in Nodes, k # m, member'[k] # NoRow,
                      member'[m] # NoRow, member'[k].c = member'[m].c
               PROVE  member'[k].i # member'[m].i
      BY DEF UniqueSlots
  <2>0. \A x \in Nodes : x # n /\ member[x] # NoRow /\ member[x].c = c =>
             member[x].i \in Int /\ member[x].i < req[r].ix[n]
        BY <1>2, Typed DEF Members, Slots
  <2>1. CASE k # n /\ m # n BY <1>3, <2>1 DEF IInv, RowInv, UniqueSlots
  <2>2. CASE k = n BY <1>3, <2>0, <2>2
  <2>3. CASE m = n BY <1>3, <2>0, <2>3
  <2> QED BY <2>1, <2>2, <2>3
<1>6. CidrsApart' BY <1>3 DEF IInv, RowInv, CidrsApart
<1>7. ASSUME NEW q \in Requests \ {r} PROVE RowsKeep(q)
  <2>1. AddOK(q) /\ DeleteOK(q) BY DEF IInv, ReqInv
  <2>2. \A d : d # c => Shrinks(d) BY <1>3 DEF Shrinks
  <2>3. CASE req[q].kind = "add"
    <3>1. ASSUME req[q].pc \in Late PROVE req[q].c # c
      <4>1. Past(q) /\ Past(r) BY <3>1 DEF Past, Late, Claiming
      <4>2. Held(q) /\ Held(r) BY DEF IInv, ReqInv
      <4> QED BY <1>1, <2>3, <4>1, <4>2, Alone
    <3> QED BY <1>3, <2>1, <2>2, <2>3, <3>1 DEF RowsKeep, AddOK
  <2>4. CASE req[q].kind = "delete"
    <3>1. req[q].c # c BY <2>4 DEF IInv, NoClash
    <3> QED BY <1>3, <2>1, <2>2, <2>4, <3>1 DEF RowsKeep, DeleteOK
  <2> QED BY <2>3, <2>4 DEF RowsKeep
<1> QED BY <1>4, <1>5, <1>6, <1>7 DEF RowsChange, RowInv

LEMMA ReleasedInv ==
    ASSUME IInv, NEW r \in Requests, req[r].pc = "undo", Released(r)
    PROVE  RowsChange(r)
<1>1. TypeOK /\ TypeInv /\ ReqInv(r) /\ Aimed(r) BY DEF IInv, TypeInv
<1>2. req[r] \in Request BY <1>1, RequestTyped
<1>3. \A n \in Nodes : member[n] # NoRow => ~(n \in req[r].nodes /\ claimed[n] = req[r].c)
  <2> SUFFICES ASSUME NEW n \in req[r].nodes, n \in Nodes, member[n] # NoRow,
                      claimed[n] = req[r].c
               PROVE  FALSE
      OBVIOUS
  <2>1. member[n].c = req[r].c /\ req[r].c # NoCluster BY Typed
  <2>2. req[r].kind = "add" BY <1>1, <1>2, <2>1 DEF ReqInv, CreateOK, Aimed, Request
  <2> QED BY <1>1, <2>1, <2>2 DEF ReqInv, AddOK, Late, Members
<1>4. UNCHANGED <<row, cidr, plan, member>> BY DEF Released
<1>5. MemberRows' BY <1>3, Typed DEF MemberRows, Released
<1>6. UniqueSlots' /\ CidrsApart' BY <1>4 DEF IInv, RowInv, UniqueSlots, CidrsApart
<1>7. ASSUME NEW q \in Requests \ {r} PROVE RowsKeep(q)
  <2>1. AddOK(q) /\ DeleteOK(q) BY DEF IInv, ReqInv
  <2>2. \A c : Shrinks(c) BY <1>4 DEF Shrinks
  <2>3. ASSUME req[q].pc \in Claiming, NEW n \in req[q].nodes, claimed[n] = req[q].c
        PROVE  claimed'[n] = req[q].c
    <3>1. Past(q) /\ Past(r) BY <2>3 DEF Past, Claiming
    <3>2. Held(q) /\ Held(r) BY DEF IInv, ReqInv
    <3>3. n \notin req[r].nodes BY <1>1, <3>1, <3>2, Alone
    <3>4. n \in Nodes BY <1>1, RequestTyped DEF Request
    <3> QED BY <2>3, <3>3, <3>4 DEF Released
  <2> QED BY <1>4, <2>1, <2>2, <2>3 DEF RowsKeep, AddOK, DeleteOK
<1> QED BY <1>5, <1>6, <1>7 DEF RowsChange, RowInv

LEMMA DissolvedInv ==
    ASSUME IInv, NEW c \in Clusters, NEW M, Dissolved(c, M), row[c] = "exists",
           Members(c) \subseteq M,
           \A q \in Requests : req[q].kind = "add" => req[q].c # c
    PROVE  RowInv' /\ \A q \in Requests : RowsKeep(q)
<1>1. TypeOK BY DEF IInv, TypeInv
<1>2. /\ row'[c] = "deleted" /\ \A d \in Clusters : d # c => row'[d] = row[d]
      /\ UNCHANGED <<cidr, plan>>
      /\ \A n \in Nodes : claimed[n] # c => claimed'[n] = claimed[n]
      /\ \A n \in Nodes : IF n \in Members(c) THEN member'[n] = NoRow
                          ELSE member'[n] = member[n]
      BY <1>1 DEF Dissolved, TypeOK
<1>3. \A n \in Nodes : member'[n] # NoRow => member'[n] = member[n] /\ member[n].c # c
      BY <1>2 DEF Members
<1>4. MemberRows' BY <1>2, <1>3, Typed DEF MemberRows
<1>5. UniqueSlots' BY <1>3 DEF IInv, RowInv, UniqueSlots
<1>6. CidrsApart' BY <1>2 DEF IInv, RowInv, CidrsApart
<1>7. ASSUME NEW q \in Requests PROVE RowsKeep(q)
  <2>1. AddOK(q) /\ DeleteOK(q) /\ Aimed(q) BY DEF IInv, ReqInv, TypeInv
  <2>2. \A d : Shrinks(d) BY <1>3 DEF Shrinks
  <2>3. CASE req[q].kind = "add"
    <3>1. req[q].c \in Clusters /\ req[q].c # c BY <2>1, <2>3 DEF Aimed
    <3>2. req[q].nodes \subseteq Nodes BY <1>1, RequestTyped DEF Request
    <3> QED BY <1>2, <2>1, <2>2, <2>3, <3>1, <3>2 DEF RowsKeep, AddOK
  <2>4. CASE req[q].kind = "delete"
        BY <1>2, <2>1, <2>2, <2>4 DEF RowsKeep, DeleteOK, Aimed
  <2> QED BY <2>3, <2>4 DEF RowsKeep
<1> QED BY <1>4, <1>5, <1>6, <1>7 DEF RowInv

LEMMA RemoveInv ==
    ASSUME IInv, NEW n \in Nodes, Remove(n)
    PROVE  RowInv' /\ \A q \in Requests : RowsKeep(q)
<1>1. TypeOK BY DEF IInv, TypeInv
<1>2. /\ member[n] # NoRow /\ member'[n] = NoRow
      /\ \A m \in Nodes : m # n => member'[m] = member[m] /\ claimed'[m] = claimed[m]
      /\ UNCHANGED <<row, cidr, plan>>
      BY <1>1 DEF Remove, TypeOK
<1>3. MemberRows' BY <1>2, Typed DEF MemberRows
<1>4. UniqueSlots' BY <1>2 DEF IInv, RowInv, UniqueSlots
<1>5. CidrsApart' BY <1>2 DEF IInv, RowInv, CidrsApart
<1>6. ASSUME NEW q \in Requests PROVE RowsKeep(q)
  <2>1. AddOK(q) /\ DeleteOK(q) BY DEF IInv, ReqInv
  <2>2. \A d : Shrinks(d) BY <1>2 DEF Shrinks
  <2>3. CASE req[q].kind = "add"
    <3>1. ASSUME req[q].pc \in Claiming, NEW m \in req[q].nodes, claimed[m] = req[q].c
          PROVE  claimed'[m] = req[q].c
      <4>1. m \notin Members(req[q].c) BY <2>1, <2>3, <3>1 DEF AddOK, Late
      <4>2. m \in Nodes BY <1>1, RequestTyped DEF Request
      <4>3. m # n BY <1>2, <3>1, <4>1, Typed DEF Members
      <4> QED BY <1>2, <3>1, <4>2, <4>3
    <3> QED BY <1>2, <2>1, <2>2, <2>3, <3>1 DEF RowsKeep, AddOK
  <2>4. CASE req[q].kind = "delete" BY <1>2, <2>1, <2>2, <2>4 DEF RowsKeep, DeleteOK
  <2> QED BY <2>3, <2>4 DEF RowsKeep
<1> QED BY <1>3, <1>4, <1>5, <1>6 DEF RowInv

----------------------------------------------------------------------------
(* The invariant holds.                                                    *)

LEMMA IInit == Init => IInv
<1> SUFFICES ASSUME Init PROVE IInv
    OBVIOUS
<1>1. TypeInv BY TypeInit
<1>2. RowInv BY DEF Init, RowInv, MemberRows, UniqueSlots, CidrsApart
<1>3. \A r \in Requests : req[r].kind = "none" /\ req[r].pc = "free"
      BY DEF Init, NoRequest
<1>4. \A r \in Requests : ReqInv(r)
      BY <1>3 DEF ReqInv, Held, Past, CreateOK, AddOK, DeleteOK
<1>5. \A q, r \in Requests : NoClash(q, r) BY <1>3 DEF NoClash
<1> QED BY <1>1, <1>2, <1>4, <1>5 DEF IInv

LEMMA BeginsInv ==
    ASSUME IInv, "apart" \in Ops, NEW r \in Requests, Begins(r)
    PROVE  IInv'
<1>0. TypeOK /\ TypeInv BY DEF IInv, TypeInv
<1>1. Only(r) BY <1>0, CreateBeginStep, AddBeginStep, CleanupBeginStep DEF Begins
<1>2. UNCHANGED <<rows, lock>> BY DEF Begins, CreateBegin, AddBegin, CleanupBegin
<1>3. \A q \in Requests \ {r} : req'[q] = req[q] BY <1>0, <1>1, OnlyFrame DEF TypeOK
<1>4. ReqInv(r)' /\ \A q \in Requests : NoClash(q, r)' /\ NoClash(r, q)'
  <2>1. ASSUME NEW S \in SUBSET Nodes, NEW ix \in [Nodes -> 0..MaxSlot], CreateBegin(r, S, ix)
        PROVE  ReqInv(r)' /\ \A q \in Requests : NoClash(q, r)' /\ NoClash(r, q)'
    <3>1. /\ req'[r].kind = "create" /\ req'[r].pc \in {"lock", "check"}
          /\ req'[r].pc = "check" => S = {}
          /\ req'[r].nodes = S /\ req'[r].ix = ix /\ req'[r].c = NoCluster
          BY <1>0, <2>1, CreateBeginStep
    <3>2. \A m, n \in S : m # n => ix[m] # ix[n] BY <2>1 DEF CreateBegin
    <3>3. Held(r)' BY <3>1 DEF Held, Past, Missing, Wanted
    <3> QED BY <3>1, <3>2, <3>3 DEF ReqInv, CreateOK, AddOK, DeleteOK, NoClash
  <2>2. ASSUME NEW c \in Clusters, NEW n \in Nodes, NEW net \in BOOLEAN, AddBegin(r, c, n, net)
        PROVE  ReqInv(r)' /\ \A q \in Requests : NoClash(q, r)' /\ NoClash(r, q)'
    <3>1. /\ req'[r].kind = "add" /\ req'[r].pc = "lock" /\ req'[r].c = c
          /\ req'[r].nodes = {n}
          BY <1>0, <2>2, AddBeginStep
    <3>2. row'[c] = "exists" BY <1>2, <2>2 DEF AddBegin
    <3>3. \A q \in Requests \ {r} : req'[q].kind = "delete" => req'[q].c # c
          BY <1>3, <2>2 DEF AddBegin, Apart
    <3>4. AddOK(r)' BY <3>1, <3>2 DEF AddOK, Late, Claiming
    <3> QED BY <3>1, <3>3, <3>4 DEF ReqInv, Held, Past, CreateOK, DeleteOK, NoClash
  <2>3. ASSUME NEW c \in Clusters, CleanupBegin(r, c)
        PROVE  ReqInv(r)' /\ \A q \in Requests : NoClash(q, r)' /\ NoClash(r, q)'
    <3>1. /\ req'[r].kind = "delete" /\ req'[r].pc = "clean" /\ req'[r].c = c
          /\ req'[r].nodes = Members(c)
          BY <1>0, <2>3, CleanupBeginStep
    <3>2. row'[c] # "none" BY <1>2, <2>3 DEF CleanupBegin
    <3>3. \A q \in Requests \ {r} : req'[q].kind = "add" => req'[q].c # c
          BY <1>3, <2>3 DEF CleanupBegin, Apart
    <3>4. DeleteOK(r)' BY <1>2, <3>1, <3>2 DEF DeleteOK, Members
    <3> QED BY <3>1, <3>3, <3>4 DEF ReqInv, Held, Past, CreateOK, AddOK, NoClash
  <2> QED BY <2>1, <2>2, <2>3 DEF Begins
<1>5. \A p, q \in Requests : NoClash(p, q)'
  <2>1. ASSUME NEW p \in Requests \ {r}, NEW q \in Requests \ {r} PROVE NoClash(p, q)'
        BY <1>3, <2>1 DEF IInv, NoClash
  <2> QED BY <1>4, <2>1
<1>6. RowInv' /\ \A q \in Requests : ReqInv(q)'
      BY <1>1, <1>2, <1>4, RowsQuiet, OthersKeep
<1> QED BY <1>0, <1>5, <1>6, BeginsTyped DEF IInv

LEMMA RequestStepInv ==
    ASSUME IInv, NEW r \in Requests, Lock(r) \/ RequestStep(r)
    PROVE  IInv'
<1>0. TypeOK /\ TypeInv /\ Aimed(r) /\ ReqInv(r) /\ req[r] \in Request
      BY RequestTyped DEF IInv, TypeInv
<1>1. TypeInv' BY <1>0, RequestStepTyped
<1>2. \A k \in Keys : \A q \in Requests \ {r} : lock[k] = q => lock'[k] = q
      BY <1>0, LocksKept
<1>3. SUFFICES /\ RowsChange(r) /\ ReqInv(r)' /\ Only(r)
               /\ \/ req'[r].kind = "none"
                  \/ req'[r].kind = req[r].kind /\ req'[r].c = req[r].c
      BY <1>1, <1>2, OthersKeep, ClashKept DEF IInv, RowsChange
<1>4. CASE UNCHANGED rows BY <1>4, QuietInv, RowsQuiet DEF RowsChange
<1>5. CASE /\ req[r].kind = "create" /\ req[r].pc = "commit" /\ End(r)
           /\ \E c \in Clusters : Formed(r, c)
      BY <1>0, <1>5, FormedInv, EndInv
<1>6. CASE /\ req[r].kind = "add" /\ req[r].pc = "probe" /\ \E n \in Nodes : Claims(r, n)
      BY <1>6, ClaimsInv DEF Claims
<1>7. CASE /\ req[r].kind = "add" /\ req[r].pc = "commit" /\ End(r)
           /\ \E n \in Nodes : Joined(r, n)
      BY <1>0, <1>7, JoinedInv, EndInv
<1>8. CASE req[r].pc = "undo" /\ Released(r) /\ End(r)
      BY <1>0, <1>8, ReleasedInv, EndInv
<1>9. CASE /\ req[r].pc = "clean" /\ row[req[r].c] = "exists" /\ End(r)
           /\ Dissolved(req[r].c, req[r].nodes)
  <2>1. req[r].kind = "delete" /\ req[r].c \in Clusters BY <1>0, <1>9 DEF Aimed, Request
  <2>2. Members(req[r].c) \subseteq req[r].nodes BY <1>0, <2>1 DEF ReqInv, DeleteOK
  <2>3. \A q \in Requests : req[q].kind = "add" => req[q].c # req[r].c
        BY <2>1 DEF IInv, NoClash
  <2> QED BY <1>0, <1>9, <2>1, <2>2, <2>3, DissolvedInv, EndInv DEF RowsChange
<1> QED BY <1>0, <1>4, <1>5, <1>6, <1>7, <1>8, <1>9, RowsStep

LEMMA OutsideInv ==
    ASSUME IInv, "apart" \in Ops, Outside
    PROVE  IInv'
<1>0. TypeInv /\ TypeInv' BY OutsideTyped DEF Outside, IInv
<1>1. UNCHANGED <<lock, req>> BY DEF Outside, Remove, Unplug, Plug, Delete, DeviceJoins
<1>2. RowInv' /\ \A q \in Requests : RowsKeep(q)
  <2>1. CASE UNCHANGED rows BY <2>1, RowsQuiet
  <2>2. ASSUME NEW c \in Clusters, Delete(c) PROVE RowInv' /\ \A q \in Requests : RowsKeep(q)
    <3>1. Members(c) \subseteq Nodes BY DEF Members
    <3>2. \A q \in Requests : req[q].kind = "add" => req[q].c # c
          BY <2>2 DEF Delete, Apart
    <3> QED BY <2>2, <3>1, <3>2, DissolvedInv DEF Delete
  <2>3. ASSUME NEW n \in Nodes, Remove(n) PROVE RowInv' /\ \A q \in Requests : RowsKeep(q)
        BY <2>3, RemoveInv
  <2> QED BY <2>1, <2>2, <2>3 DEF Outside, Unplug, Plug, DeviceJoins
<1>3. ASSUME NEW q \in Requests PROVE ReqInv(q)'
      BY <1>0, <1>1, <1>2, Frame DEF IInv
<1>4. \A p, q \in Requests : NoClash(p, q)' BY <1>1 DEF IInv, NoClash
<1> QED BY <1>0, <1>2, <1>3, <1>4 DEF IInv

LEMMA StutterInv == ASSUME IInv, UNCHANGED vars PROVE IInv'
<1>1. TypeInv' BY TypeStep DEF IInv
<1>2. UNCHANGED <<rows, lock, req>> BY DEF vars
<1>3. RowInv' /\ \A q \in Requests : RowsKeep(q) BY <1>2, RowsQuiet
<1>4. ASSUME NEW q \in Requests PROVE ReqInv(q)'
      BY <1>2, <1>3, Frame DEF IInv
<1>5. \A p, q \in Requests : NoClash(p, q)' BY <1>2 DEF IInv, NoClash
<1> QED BY <1>1, <1>3, <1>4, <1>5 DEF IInv

LEMMA IStep == ASSUME "apart" \in Ops PROVE IInv /\ [Next]_vars => IInv'
<1> SUFFICES ASSUME IInv, [Next]_vars PROVE IInv'
    OBVIOUS
<1>1. CASE Outside BY <1>1, OutsideInv
<1>2. CASE \E r \in Requests : Begins(r) BY <1>2, BeginsInv
<1>3. CASE \E r \in Requests : Lock(r) \/ RequestStep(r) BY <1>3, RequestStepInv
<1>4. CASE UNCHANGED vars BY <1>4, StutterInv
<1> QED BY <1>1, <1>2, <1>3, <1>4, NextParts

\* Where no cluster is deleted while its members change, a member's claim is that of its
\* cluster: a rollback never releases the claim of somebody else (_release_node_claim).
THEOREM ClaimsSafe ==
    ASSUME "apart" \in Ops PROVE Spec => []ClaimsMatch
<1>1. IInv => ClaimsMatch BY DEF IInv, RowInv, MemberRows, ClaimsMatch
<1> QED BY <1>1, IInit, IStep, PTL DEF Spec

\* Under the same assumption two members never have the same address: the slots of a
\* cluster are handed out under its lock, its network is checked again by the table.
THEOREM AddressesSafe ==
    ASSUME "apart" \in Ops PROVE Spec => []AddressesApart
<1>1. IInv => AddressesApart
  <2> SUFFICES ASSUME IInv, NEW m \in Nodes, NEW n \in Nodes, member[m] # NoRow,
                      member[n] # NoRow, m # n, plan[member[m].c]
               PROVE  <<cidr[member[m].c], member[m].i>> # <<cidr[member[n].c], member[n].i>>
      BY DEF AddressesApart
  <2>1. CASE member[m].c = member[n].c BY <2>1 DEF IInv, RowInv, UniqueSlots
  <2>2. CASE member[m].c # member[n].c
    <3>1. cidr[member[m].c] # NoCidr
          BY Typed, ConstantsAssumption DEF IInv, TypeInv, PlanCidr
    <3> QED BY <2>2, <3>1, Typed DEF IInv, RowInv, CidrsApart
  <2> QED BY <2>1, <2>2
<1> QED BY <1>1, IInit, IStep, PTL DEF Spec

----------------------------------------------------------------------------
(* The refinement of Membership.                                           *)

LEMMA FormsAbstractly ==
    ASSUME IInv, NEW r \in Requests, req[r].kind = "create", req[r].pc = "commit",
           NEW c \in Clusters, Formed(r, c)
    PROVE  Abstract!Next
<1>1. TypeOK /\ req[r] \in Request /\ CreateOK(r) /\ Aimed(r)
      BY RequestTyped DEF IInv, TypeInv, ReqInv
<1> DEFINE S == req[r].nodes
           ix == [n \in S |-> req[r].ix[n]]
<1>2. S \in SUBSET Nodes BY <1>1 DEF Request
<1>3. ix \in [S -> Slots] BY <1>1 DEF Aimed
<1>4. Abstract!Form(c, S, ix)
  <2>1. row[c] = "none" /\ \A n \in S : member[n] = NoRow BY DEF Formed, CommitOK
  <2>2. \A m, n \in S : m # n => ix[m] # ix[n] BY <1>1 DEF CreateOK
  <2>3. member' = [n \in Nodes |-> IF n \in S THEN [c |-> c, i |-> ix[n]] ELSE member[n]]
        BY DEF Formed
  <2> QED BY <2>1, <2>2, <2>3 DEF Abstract!Form, Formed
<1> HIDE DEF S, ix
<1> QED BY <1>2, <1>3, <1>4 DEF Abstract!Next

LEMMA JoinsAbstractly ==
    ASSUME IInv, NEW r \in Requests, req[r].kind = "add", req[r].pc = "commit",
           NEW n \in Nodes, Joined(r, n)
    PROVE  Abstract!Next
<1>1. AddOK(r) /\ Aimed(r) BY DEF IInv, TypeInv, ReqInv
<1>2. req[r].c \in Clusters /\ req[r].ix[n] \in Slots /\ row[req[r].c] = "exists"
      BY <1>1 DEF Aimed, AddOK, Joined
<1>3. \A m \in Nodes : member[m] # NoRow /\ member[m].c = req[r].c =>
           member[m].i # req[r].ix[n]
  <2>1. \A m \in Members(req[r].c) : member[m].i < req[r].ix[n]
        BY <1>1 DEF AddOK, Claiming, Joined
  <2> QED BY <1>2, <2>1, Typed DEF Members, Slots
<1>4. Abstract!Join(req[r].c, n, req[r].ix[n])
      BY <1>2, <1>3 DEF Abstract!Join, Abstract!SlotTaken, Abstract!Belongs, Joined
<1> QED BY <1>2, <1>4 DEF Abstract!Next

LEMMA DissolvesAbstractly ==
    ASSUME NEW c \in Clusters, NEW M, Dissolved(c, M), row[c] = "exists",
           Members(c) \subseteq M
    PROVE  Abstract!Next
<1>1. Abstract!Dissolve(c)
      BY DEF Dissolved, Members, Abstract!Dissolve, Abstract!Belongs
<1> QED BY <1>1 DEF Abstract!Next

LEMMA StepAbstractly ==
    ASSUME IInv, Next
    PROVE  [Abstract!Next]_<<row, member>>
<1>1. CASE UNCHANGED rows BY <1>1
<1>2. CASE Outside
  <2>1. ASSUME NEW n \in Nodes, Remove(n) PROVE Abstract!Next
    <3>1. Abstract!Leave(n) BY <2>1 DEF Remove, Abstract!Leave
    <3> QED BY <3>1 DEF Abstract!Next
  <2>2. ASSUME NEW c \in Clusters, Delete(c) PROVE Abstract!Next
    <3>1. Members(c) \subseteq Nodes BY DEF Members
    <3> QED BY <2>2, <3>1, DissolvesAbstractly DEF Delete
  <2> QED BY <1>1, <1>2, <2>1, <2>2 DEF Outside, Unplug, Plug, DeviceJoins
<1>3. ASSUME NEW r \in Requests, Lock(r) \/ RequestStep(r)
      PROVE  [Abstract!Next]_<<row, member>>
  <2>0. TypeInv /\ Aimed(r) /\ ReqInv(r) /\ req[r] \in Request
        BY RequestTyped DEF IInv, TypeInv
  <2>1. CASE /\ req[r].kind = "create" /\ req[r].pc = "commit"
             /\ \E c \in Clusters : Formed(r, c)
        BY <2>1, FormsAbstractly
  <2>2. CASE \E n \in Nodes : Claims(r, n) BY <2>2 DEF Claims
  <2>3. CASE /\ req[r].kind = "add" /\ req[r].pc = "commit" /\ \E n \in Nodes : Joined(r, n)
        BY <2>3, JoinsAbstractly
  <2>4. CASE Released(r) BY <2>4 DEF Released
  <2>5. CASE /\ req[r].pc = "clean" /\ row[req[r].c] = "exists"
             /\ Dissolved(req[r].c, req[r].nodes)
    <3>1. req[r].kind = "delete" /\ req[r].c \in Clusters BY <2>0, <2>5 DEF Aimed, Request
    <3>2. Members(req[r].c) \subseteq req[r].nodes BY <2>0, <3>1 DEF ReqInv, DeleteOK
    <3> QED BY <2>5, <3>1, <3>2, DissolvesAbstractly
  <2> QED BY <1>1, <1>3, <2>0, <2>1, <2>2, <2>3, <2>4, <2>5, RowsStep
<1>4. CASE \E r \in Requests : Begins(r)
      BY <1>1, <1>4 DEF Begins, CreateBegin, AddBegin, CleanupBegin
<1> QED BY <1>2, <1>3, <1>4, NextParts

\* The tables change only as Membership says: clusters appear and disappear with all their
\* nodes, a node joins on a slot that is free and leaves its own cluster only.
THEOREM Refinement ==
    ASSUME "apart" \in Ops PROVE Spec => Implements
<1>1. Init => Abstract!Init BY DEF Init, Abstract!Init
<1>2. IInv /\ [Next]_vars => [Abstract!Next]_<<row, member>>
  <2>1. CASE UNCHANGED vars BY <2>1 DEF vars
  <2> QED BY <2>1, StepAbstractly
<1> QED BY <1>1, <1>2, IInit, IStep, PTL DEF Spec, Implements, Abstract!Spec

----------------------------------------------------------------------------
(* The configuration of the members.                                       *)

\* What a request has written is on its own nodes.
Keeps(r) == req[r].applied \subseteq req[r].nodes
\* The nodes of a creation are nobody's once it has looked.
Unclaimed(r) ==
    req[r].kind = "create" /\ req[r].pc \in Late =>
        \A n \in req[r].nodes : claimed[n] = NoCluster
\* An addition writes what its cluster says, and keeps its claim until it has undone it.
Planned(r) ==
    req[r].kind = "add" =>
        /\ req[r].pc \in {"lock", "check"} => req[r].net
        /\ req[r].pc \in Late => req[r].cidr = cidr[req[r].c] /\ req[r].net = plan[req[r].c]
        /\ req[r].pc = "undo" => \A n \in req[r].nodes : claimed[n] = req[r].c
\* A deletion works on the members of its cluster.
Doomed(r) ==
    req[r].kind = "delete" =>
        /\ row[req[r].c] = "exists"
        /\ req[r].nodes = Members(req[r].c) /\ req[r].todo \subseteq req[r].nodes
\* A node that was verified carries the address that it was meant to have.
Verified(r) ==
    req[r].net =>
        /\ req[r].pc = "verify" =>
              \A n \in req[r].nodes \ req[r].todo : dropin[n] = AddressOf(r, n)
        /\ req[r].pc \in {"reverse", "commit"} =>
              \A n \in req[r].nodes : dropin[n] = AddressOf(r, n)
Ready(r) == Keeps(r) /\ Unclaimed(r) /\ Planned(r) /\ Doomed(r) /\ Verified(r)
OneDeletion(q, r) ==
    q # r /\ req[q].kind = "delete" /\ req[r].kind = "delete" => req[q].c # req[r].c
ConfInv ==
    /\ \A r \in Requests : Ready(r)
    /\ \A q, r \in Requests : OneDeletion(q, r)
    /\ MembersConfigured

\* What the steps do to the fields that ConfInv is about.
LEMMA EndFields ==
    ASSUME TypeOK, NEW r \in Requests, End(r)
    PROVE  Ready(r)'
<1>1. req'[r] = NoRequest BY EndStep
<1> QED BY <1>1 DEF NoRequest, Ready, Keeps, Unclaimed, Planned, Doomed, Verified

LEMMA CreateCheckFields ==
    ASSUME TypeOK, NEW r \in Requests, CreateCheck(r), ~End(r)
    PROVE  /\ req'[r].applied = req[r].applied /\ req'[r].was = req[r].was
           /\ req'[r].pc = "commit" => ~req[r].net
           /\ \A n \in req[r].nodes : claimed[n] = NoCluster
<1>1. PICK d \in Cidrs \cup {NoCidr} :
        req' = [req EXCEPT ![r].cidr = d,
                           ![r].pc = IF req[r].net THEN "probe" ELSE "commit"]
      BY DEF CreateCheck
<1>2. req[r] \in Request BY RequestTyped
<1>3. /\ req'[r].applied = req[r].applied /\ req'[r].was = req[r].was
      /\ req'[r].pc = IF req[r].net THEN "probe" ELSE "commit"
      BY <1>1, <1>2 DEF TypeOK, Request
<1> QED BY <1>3 DEF CreateCheck

LEMMA CreateProbeFields ==
    ASSUME TypeOK, NEW r \in Requests, CreateProbe(r), ~End(r)
    PROVE  req'[r].applied = req[r].applied /\ req'[r].was = req[r].was
<1>1. req[r] \in Request BY RequestTyped
<1> QED BY <1>1 DEF TypeOK, Request, CreateProbe

LEMMA GoesFields ==
    ASSUME TypeOK, NEW r \in Requests, NEW pc, Goes(r, pc)
    PROVE  /\ req'[r].applied = req[r].applied /\ req'[r].was = req[r].was
           /\ req'[r].pc = pc
<1>1. req[r] \in Request BY RequestTyped
<1> QED BY <1>1 DEF TypeOK, Request, Goes

LEMMA AddCheckFields ==
    ASSUME TypeOK, NEW r \in Requests, AddCheck(r), ~End(r)
    PROVE  /\ req'[r].applied = req[r].applied /\ req'[r].was = req[r].was
           /\ req'[r].net = (req[r].net /\ plan[req[r].c])
<1>1. PICK ix : req' = [req EXCEPT ![r].pc = "probe", ![r].cidr = cidr[req[r].c],
                                   ![r].net = @ /\ plan[req[r].c], ![r].ix = ix]
      BY DEF AddCheck
<1>2. req[r] \in Request BY RequestTyped
<1> DEFINE net == req[r].net /\ plan[req[r].c]
           u == [[[req[r] EXCEPT !.pc = "probe"] EXCEPT !.cidr = cidr[req[r].c]]
                       EXCEPT !.net = net]
<1>3. req'[r] = [u EXCEPT !.ix = ix] BY <1>1 DEF TypeOK
<1>4. u.applied = req[r].applied /\ u.net = net /\ u.was = req[r].was BY <1>2 DEF Request
<1>5. /\ [u EXCEPT !.ix = ix].applied = u.applied /\ [u EXCEPT !.ix = ix].net = u.net
      /\ [u EXCEPT !.ix = ix].was = u.was
      BY <1>2 DEF Request
<1> QED BY <1>3, <1>4, <1>5

LEMMA AddProbeFields ==
    ASSUME TypeOK, NEW r \in Requests, AddProbe(r), ~(End(r) /\ UNCHANGED rows)
    PROVE  /\ req'[r].applied = req[r].applied /\ req'[r].was = req[r].was
           /\ req'[r].pc = "commit" => ~req[r].net
<1>0. PICK n \in req[r].nodes : \E i \in FreeSlots(r, n) :
        req' = [req EXCEPT ![r].ix[n] = i, ![r].todo = {n}, ![r].pc = AfterProbe(r, n, i)]
      BY DEF AddProbe
<1>1. PICK i \in FreeSlots(r, n) :
        req' = [req EXCEPT ![r].ix[n] = i, ![r].todo = {n}, ![r].pc = AfterProbe(r, n, i)]
      BY <1>0
<1>2. req[r] \in Request BY RequestTyped
<1> DEFINE pc == AfterProbe(r, n, i)
           ix == [req[r].ix EXCEPT ![n] = i]
           u == [[req[r] EXCEPT !.ix = ix] EXCEPT !.todo = {n}]
<1>3. pc = "commit" => ~req[r].net BY DEF AfterProbe
<1>4. req'[r] = [u EXCEPT !.pc = pc] BY <1>1 DEF TypeOK
<1> HIDE DEF pc, ix
<1>5. /\ [u EXCEPT !.pc = pc].applied = req[r].applied /\ [u EXCEPT !.pc = pc].pc = pc
      /\ [u EXCEPT !.pc = pc].was = req[r].was
      BY <1>2 DEF Request
<1> QED BY <1>3, <1>4, <1>5

LEMMA ApplyFields ==
    ASSUME TypeOK, NEW r \in Requests, NEW n \in Nodes, Apply(r, n)
    PROVE  /\ req'[r].applied \subseteq req[r].applied \cup {n} /\ req'[r].was = req[r].was
           /\ req'[r].pc = "verify" => req'[r].todo = req[r].nodes
           /\ req[r].applied \subseteq req'[r].applied
           /\ "hang" \notin Ops => UNCHANGED files \/ n \in req'[r].applied
<1>1. PICK ok \in BOOLEAN :
          LET last == req[r].todo = {n}
              bad  == req[r].bad \/ ~ok
          IN  /\ "hang" \notin Ops => UNCHANGED files \/ ok
              /\ req' = [req EXCEPT ![r].applied = Collected(r, n, ok),
                               ![r].bad = bad,
                               ![r].todo = IF last /\ ~bad THEN req[r].nodes ELSE @ \ {n},
                               ![r].pc = IF last THEN AfterApply(r, bad) ELSE @]
      BY DEF Apply
<1>2. req[r] \in Request /\ req[r].pc = "apply" BY RequestTyped DEF Apply
<1> DEFINE last == req[r].todo = {n}
           bad  == req[r].bad \/ ~ok
           todo == IF last /\ ~bad THEN req[r].nodes ELSE req[r].todo \ {n}
           pc == IF last THEN AfterApply(r, bad) ELSE req[r].pc
           ap == Collected(r, n, ok)
<1>3. req' = [req EXCEPT ![r].applied = ap, ![r].bad = bad, ![r].todo = todo, ![r].pc = pc]
      BY <1>1 DEF TypeOK
<1>4. pc = "verify" => todo = req[r].nodes BY <1>2 DEF AfterApply
<1>5. /\ ap \subseteq req[r].applied \cup {n} /\ req[r].applied \subseteq ap
      /\ ok => n \in ap
      BY DEF Collected
<1> HIDE DEF bad, todo, pc, ap
<1>6. /\ req'[r].applied = ap /\ req'[r].todo = todo /\ req'[r].pc = pc
      /\ req'[r].was = req[r].was
      BY <1>2, <1>3 DEF TypeOK, Request
<1> QED BY <1>1, <1>4, <1>5, <1>6

LEMMA VerifyFields ==
    ASSUME TypeOK, NEW r \in Requests, NEW n \in Nodes, Verify(r, n)
    PROVE  /\ req'[r].applied = req[r].applied /\ req'[r].was = req[r].was
           /\ \/ req'[r].pc = "undo"
              \/ /\ dropin[n] = AddressOf(r, n)
                 /\ req'[r].pc = "verify" /\ req'[r].todo = req[r].todo \ {n}
              \/ dropin[n] = AddressOf(r, n) /\ req[r].todo = {n}
<1>1. req[r] \in Request /\ req[r].pc = "verify" BY RequestTyped DEF Verify
<1>2. CASE req' = [req EXCEPT ![r].pc = "undo", ![r].todo = {}]
      BY <1>1, <1>2 DEF TypeOK, Request
<1>3. CASE /\ Reached(r, n)
           /\ req' = [req EXCEPT ![r].todo = @ \ {n},
                                 ![r].pc = IF req[r].todo = {n} THEN AfterVerify(r) ELSE @]
  <2> DEFINE todo == req[r].todo \ {n}
             pc == IF req[r].todo = {n} THEN AfterVerify(r) ELSE req[r].pc
  <2>1. req' = [req EXCEPT ![r].todo = todo, ![r].pc = pc] BY <1>3 DEF TypeOK
  <2>2. pc = "verify" \/ req[r].todo = {n} BY <1>1
  <2> HIDE DEF todo, pc
  <2>3. /\ req'[r].applied = req[r].applied /\ req'[r].todo = todo /\ req'[r].pc = pc
        /\ req'[r].was = req[r].was
        BY <1>1, <2>1 DEF TypeOK, Request
  <2> QED BY <1>3, <2>2, <2>3 DEF Reached, todo
<1> QED BY <1>2, <1>3 DEF Verify

LEMMA UndoFields ==
    ASSUME TypeOK, NEW r \in Requests, Undo(r), ~End(r)
    PROVE  \E n \in req[r].applied : /\ RolledBack(n) \/ NotRolledBack
                                     /\ req'[r].applied = req[r].applied \ {n}
                                     /\ req'[r].was = req[r].was
<1>1. PICK n \in req[r].applied : /\ RolledBack(n) \/ NotRolledBack
                                  /\ req' = [req EXCEPT ![r].applied = @ \ {n}]
      BY DEF Undo
<1>2. req[r] \in Request BY RequestTyped
<1>3. req'[r].applied = req[r].applied \ {n} /\ req'[r].was = req[r].was
      BY <1>1, <1>2 DEF TypeOK, Request
<1> QED BY <1>1, <1>3

LEMMA CleanFields ==
    ASSUME TypeOK, NEW r \in Requests, NEW n \in Nodes, Clean(r, n)
    PROVE  /\ req'[r].applied = req[r].applied /\ req'[r].was = req[r].was
           /\ req'[r].todo \subseteq req[r].todo
<1>1. req[r] \in Request BY RequestTyped
<1> QED BY <1>1 DEF TypeOK, Request, Clean

LEMMA LockFields ==
    ASSUME TypeOK, NEW r \in Requests, Lock(r)
    PROVE  /\ req'[r].applied = req[r].applied
           /\ req'[r].pc = "check" => req'[r].was = Noted(r)
<1>1. req[r] \in Request /\ req[r].pc = "lock" BY RequestTyped DEF Lock
<1> DEFINE w == Noted(r)
<1>2. req' = req \/ req' = [req EXCEPT ![r].pc = "check", ![r].was = w] BY DEF Lock
<1>3. w = Noted(r) OBVIOUS
<1> HIDE DEF w
<1> QED BY <1>1, <1>2, <1>3 DEF TypeOK, Request

\* A node that a request works on is no member.
LEMMA Unoccupied ==
    ASSUME IInv, ConfInv, NEW r \in Requests, req[r].pc \in Late \ {"probe"},
           NEW n \in req[r].nodes
    PROVE  member[n] = NoRow
<1>1. TypeOK /\ Aimed(r) /\ AddOK(r) /\ Unclaimed(r) /\ Planned(r)
      BY DEF IInv, TypeInv, ReqInv, ConfInv, Ready
<1>2. req[r] \in Request /\ n \in Nodes BY <1>1, RequestTyped DEF Request
<1>3. req[r].kind \in {"create", "add"} BY <1>1, <1>2 DEF Aimed, Request, Late, Claiming
<1>4. CASE req[r].kind = "create"
  <2>1. claimed[n] = NoCluster BY <1>1, <1>4 DEF Unclaimed
  <2> QED BY <1>2, <2>1, Typed
<1>5. CASE req[r].kind = "add"
  <2>1. claimed[n] = req[r].c BY <1>1, <1>5 DEF Planned, AddOK, Late
  <2>2. n \notin Members(req[r].c) BY <1>1, <1>5 DEF AddOK
  <2> QED BY <1>2, <2>1, <2>2, Typed DEF Members
<1> QED BY <1>3, <1>4, <1>5

\* The files that a request changes.
Touches(r) ==
    \A n \in Nodes : dropin'[n] # dropin[n] =>
        n \in req[r].nodes /\ req[r].pc \in {"apply", "undo", "clean"}

LEMMA ScriptTouches ==
    ASSUME TypeOK, NEW n \in Nodes,
           (\E a : Applied(n, a)) \/ RolledBack(n) \/ NotRolledBack
    PROVE  \A m \in Nodes \ {n} : dropin'[m] = dropin[m]
BY DEF TypeOK, Applied, RolledBack, NotRolledBack

LEMMA RequestTouches ==
    ASSUME IInv, ConfInv, NEW r \in Requests, Lock(r) \/ RequestStep(r)
    PROVE  Touches(r)
<1>1. TypeOK /\ Aimed(r) /\ Keeps(r) /\ Doomed(r) BY DEF IInv, TypeInv, ConfInv, Ready
<1>2. req[r] \in Request BY <1>1, RequestTyped
<1>3. CASE UNCHANGED files BY <1>3 DEF Touches
<1>4. ASSUME NEW n \in Nodes, Apply(r, n) PROVE Touches(r)
  <2>1. n \in req[r].nodes /\ req[r].pc = "apply" BY <1>1, <1>4 DEF Apply, Aimed
  <2>2. UNCHANGED files \/ \E a : Applied(n, a) BY <1>4 DEF Apply
  <2> QED BY <1>1, <1>3, <2>1, <2>2, ScriptTouches DEF Touches
<1>5. ASSUME NEW n \in Nodes, Clean(r, n) PROVE Touches(r)
  <2>1. n \in req[r].nodes /\ req[r].pc = "clean"
        BY <1>1, <1>2, <1>5 DEF Clean, Doomed, Aimed
  <2>2. RolledBack(n) \/ NotRolledBack BY <1>5 DEF Clean
  <2> QED BY <1>1, <2>1, <2>2, ScriptTouches DEF Touches
<1>6. CASE Undo(r) /\ ~End(r)
  <2>1. PICK n \in req[r].applied : RolledBack(n) \/ NotRolledBack
        BY <1>1, <1>6, UndoFields
  <2>2. n \in Nodes /\ n \in req[r].nodes /\ req[r].pc = "undo"
        BY <1>1, <1>2, <1>6 DEF Keeps, Request, Undo
  <2> QED BY <1>1, <2>1, <2>2, ScriptTouches DEF Touches
<1>7. CASE Undo(r) /\ req[r].applied = {} BY <1>3, <1>7 DEF Undo
<1>8. CASE Undo(r) /\ End(r) /\ req[r].applied # {}
  <2>1. PICK n \in req[r].applied : RolledBack(n) \/ NotRolledBack BY <1>8 DEF Undo
  <2>2. n \in Nodes /\ n \in req[r].nodes /\ req[r].pc = "undo"
        BY <1>1, <1>2, <1>8 DEF Keeps, Request, Undo
  <2> QED BY <1>1, <2>1, <2>2, ScriptTouches DEF Touches
<1>9. CASE Lock(r) \/ CreateCheck(r) \/ CreateProbe(r) \/ CreateCommit(r) \/ AddCheck(r)
           \/ AddProbe(r) \/ AddReverse(r) \/ AddCommit(r) \/ CleanupEnd(r)
           \/ \E n \in Nodes : Verify(r, n)
      BY <1>3, <1>9 DEF Lock, CreateCheck, CreateProbe, CreateCommit, AddCheck, AddProbe,
                  AddReverse, AddCommit, CleanupEnd, Verify
<1> QED BY <1>4, <1>5, <1>6, <1>7, <1>8, <1>9 DEF RequestStep

\* What the others need of the step of a request.
MembersKept(c) ==
    \A n \in Nodes : member'[n] # NoRow /\ member'[n].c = c <=> n \in Members(c)
RowsKept(q) ==
    /\ req[q].kind = "create" /\ req[q].pc \in Late =>
          \A n \in req[q].nodes : claimed[n] = NoCluster => claimed'[n] = NoCluster
    /\ req[q].kind = "add" =>
          /\ cidr'[req[q].c] = cidr[req[q].c] /\ plan'[req[q].c] = plan[req[q].c]
          /\ req[q].pc = "undo" =>
                \A n \in req[q].nodes : claimed[n] = req[q].c => claimed'[n] = req[q].c
    /\ req[q].kind = "delete" =>
          row'[req[q].c] = "exists" /\ MembersKept(req[q].c)
FilesKept(q) ==
    req[q].pc \in {"verify", "reverse", "commit"} =>
        \A n \in req[q].nodes : dropin'[n] = dropin[n]

LEMMA ReadyFrame ==
    ASSUME NEW q \in Requests, Ready(q), req'[q] = req[q], RowsKept(q), FilesKept(q)
    PROVE  Ready(q)'
<1>1. Keeps(q)' BY DEF Ready, Keeps
<1>2. Unclaimed(q)' BY DEF Ready, Unclaimed, RowsKept
<1>3. Planned(q)' BY DEF Ready, Planned, RowsKept
<1>4. Doomed(q)'
  <2>1. MembersKept(req[q].c) /\ req[q].kind = "delete" => Members(req[q].c)' = Members(req[q].c)
        BY DEF MembersKept, Members
  <2> QED BY <2>1 DEF Ready, Doomed, RowsKept
<1>5. Verified(q)' BY DEF Ready, Verified, FilesKept, AddressOf
<1> QED BY <1>1, <1>2, <1>3, <1>4, <1>5 DEF Ready

LEMMA KeptQuiet ==
    ASSUME ConfInv, UNCHANGED rows
    PROVE  \A q \in Requests : RowsKept(q)
<1> SUFFICES ASSUME NEW q \in Requests PROVE RowsKept(q)
    OBVIOUS
<1>1. Doomed(q) BY DEF ConfInv, Ready
<1>2. \A c : MembersKept(c) BY DEF MembersKept, Members
<1> QED BY <1>1, <1>2 DEF RowsKept, Doomed

LEMMA FilesSafe ==
    ASSUME IInv, ConfInv, NEW r \in Requests, Lock(r) \/ RequestStep(r)
    PROVE  /\ \A q \in Requests \ {r} : FilesKept(q)
           /\ \A n \in Nodes : member[n] # NoRow /\ ~Dying(member[n].c) =>
                 dropin'[n] = dropin[n]
<1>1. Touches(r) BY RequestTouches
<1>2. TypeOK /\ Aimed(r) /\ Doomed(r) BY DEF IInv, TypeInv, ConfInv, Ready
<1>3. req[r].pc = "clean" => /\ req[r].kind = "delete"
                             /\ \A n \in req[r].nodes : n \in Members(req[r].c)
      BY <1>2 DEF Aimed, Doomed
<1>4. ASSUME NEW q \in Requests \ {r}, req[q].pc \in {"verify", "reverse", "commit"},
             NEW n \in req[q].nodes
      PROVE  dropin'[n] = dropin[n]
  <2>1. n \in Nodes BY <1>2, RequestTyped DEF Request
  <2>2. member[n] = NoRow BY <1>4, Unoccupied DEF Late, Claiming
  <2>3. CASE req[r].pc \in {"apply", "undo"}
    <3>1. Past(q) /\ Past(r) BY <1>4, <2>3 DEF Past
    <3>2. Held(q) /\ Held(r) BY DEF IInv, ReqInv
    <3>3. n \notin req[r].nodes BY <1>2, <1>4, <3>1, <3>2, Alone
    <3> QED BY <1>1, <2>1, <3>3 DEF Touches
  <2>4. CASE req[r].pc = "clean"
        BY <1>1, <1>3, <2>1, <2>2, <2>4 DEF Touches, Members
  <2> QED BY <1>1, <2>1, <2>3, <2>4 DEF Touches
<1>5. ASSUME NEW n \in Nodes, member[n] # NoRow, ~Dying(member[n].c)
      PROVE  dropin'[n] = dropin[n]
  <2>1. CASE req[r].pc \in {"apply", "undo"}
    <3>1. n \notin req[r].nodes BY <1>5, <2>1, Unoccupied DEF Late, Claiming
    <3> QED BY <1>1, <3>1 DEF Touches
  <2>2. CASE req[r].pc = "clean"
    <3>1. n \notin req[r].nodes BY <1>3, <1>5, <2>2 DEF Members, Dying
    <3> QED BY <1>1, <3>1 DEF Touches
  <2> QED BY <1>1, <2>1, <2>2 DEF Touches
<1> QED BY <1>4, <1>5 DEF FilesKept

\* The own invariant of a request, where its step leaves the rows alone.
LEMMA SameReady ==
    ASSUME IInv, ConfInv, NEW r \in Requests, Same(r), UNCHANGED rows,
           req'[r].applied \subseteq req[r].nodes,
           \/ req'[r].pc = "apply" /\ req[r].pc = "apply"
           \/ req'[r].pc = "undo" /\ req[r].pc \in Claiming \cup {"undo"}
           \/ /\ req[r].pc \in Claiming /\ req'[r].pc \in {"verify", "reverse", "commit"}
              /\ Verified(r)'
    PROVE  Ready(r)'
<1>1. Ready(r) /\ AddOK(r) /\ Aimed(r) BY DEF IInv, ConfInv, ReqInv, TypeInv
<1>2. Keeps(r)' BY DEF Keeps, Same
<1>3. Unclaimed(r)' BY <1>1 DEF Ready, Unclaimed, Same, Late, Claiming
<1>4. Planned(r)' BY <1>1 DEF Ready, Planned, AddOK, Same, Late, Claiming
<1>5. Doomed(r)' BY <1>1 DEF Doomed, Same, Aimed, Claiming
<1>6. Verified(r)' BY DEF Verified
<1> QED BY <1>2, <1>3, <1>4, <1>5, <1>6 DEF Ready

LEMMA CreateReady ==
    ASSUME IInv, ConfInv, NEW r \in Requests, CreateCheck(r) \/ CreateProbe(r), ~End(r)
    PROVE  Ready(r)'
<1>1. TypeOK /\ Ready(r) BY DEF IInv, TypeInv, ConfInv
<1>2. req[r].kind = "create" /\ UNCHANGED rows BY DEF CreateCheck, CreateProbe
<1>3. /\ req'[r].kind = "create" /\ req'[r].nodes = req[r].nodes
      /\ req'[r].applied = req[r].applied /\ req'[r].net = req[r].net
      /\ req'[r].pc \in {"probe", "commit", "apply"}
      BY <1>1, <1>2, CreateCheckStep, CreateProbeStep, CreateCheckFields, CreateProbeFields
<1>4. req'[r].pc = "commit" => ~req[r].net
      BY <1>1, CreateCheckFields, CreateProbeStep
<1>5. \A n \in req[r].nodes : claimed[n] = NoCluster
  <2>1. CASE CreateCheck(r) BY <1>1, <2>1, CreateCheckFields
  <2>2. CASE CreateProbe(r) BY <1>1, <2>2 DEF CreateProbe, Ready, Unclaimed, Late
  <2> QED BY <2>1, <2>2
<1> QED BY <1>1, <1>2, <1>3, <1>4, <1>5
    DEF Ready, Keeps, Unclaimed, Planned, Doomed, Verified

LEMMA AddCheckReady ==
    ASSUME IInv, ConfInv, NEW r \in Requests, AddCheck(r), ~End(r)
    PROVE  Ready(r)'
<1>1. TypeOK /\ Ready(r) /\ Aimed(r) BY DEF IInv, TypeInv, ConfInv
<1>2. req[r].kind = "add" /\ req[r].pc = "check" /\ UNCHANGED rows BY DEF AddCheck
<1>3. req[r].c \in Clusters /\ req[r].net /\ plan[req[r].c] \in BOOLEAN
      BY <1>1, <1>2 DEF Aimed, Ready, Planned, TypeOK
<1>4. /\ req'[r].kind = "add" /\ req'[r].nodes = req[r].nodes /\ req'[r].c = req[r].c
      /\ req'[r].pc = "probe" /\ req'[r].cidr = cidr[req[r].c]
      /\ req'[r].applied = req[r].applied
      BY <1>1, <1>2, <1>3, AddCheckStep, AddCheckFields
<1>5. req'[r].net = plan[req[r].c] BY <1>1, <1>3, AddCheckFields
<1> QED BY <1>1, <1>2, <1>4, <1>5 DEF Ready, Keeps, Unclaimed, Planned, Doomed, Verified

LEMMA ClaimsReady ==
    ASSUME IInv, ConfInv, NEW r \in Requests, AddProbe(r), ~(End(r) /\ UNCHANGED rows)
    PROVE  Ready(r)'
<1>1. TypeOK /\ Ready(r) /\ AddOK(r) BY DEF IInv, TypeInv, ConfInv, ReqInv
<1>2. req[r].kind = "add" /\ req[r].pc = "probe" BY DEF AddProbe
<1>3. PICK n \in Nodes : Claims(r, n) BY <1>1, AddProbeStep
<1>4. req'[r].applied = req[r].applied /\ (req'[r].pc = "commit" => ~req[r].net)
      BY <1>1, AddProbeFields
<1>5. /\ req'[r].kind = "add" /\ req'[r].nodes = req[r].nodes /\ req'[r].c = req[r].c
      /\ req'[r].cidr = req[r].cidr /\ req'[r].net = req[r].net
      /\ req'[r].pc \in Claiming \ {"reverse"}
      /\ req'[r].pc = "verify" => req'[r].todo = {n}
      /\ UNCHANGED <<cidr, plan>>
      BY <1>2, <1>3 DEF Claims, Claiming
<1>6. req[r].nodes \subseteq {n} BY <1>1, <1>2, <1>3 DEF AddOK, Claims
<1>7. Keeps(r)' BY <1>1, <1>4, <1>5 DEF Ready, Keeps
<1>8. Planned(r)' BY <1>1, <1>2, <1>5 DEF Ready, Planned, Late, Claiming
<1>9. Verified(r)' BY <1>4, <1>5, <1>6 DEF Verified, Claiming
<1> QED BY <1>5, <1>7, <1>8, <1>9 DEF Ready, Unclaimed, Doomed

LEMMA ApplyReady ==
    ASSUME IInv, ConfInv, NEW r \in Requests, NEW n \in Nodes, Apply(r, n)
    PROVE  Ready(r)'
<1>1. TypeOK /\ Aimed(r) /\ Keeps(r) BY DEF IInv, TypeInv, ConfInv, Ready
<1>2. req[r].pc = "apply" /\ n \in req[r].nodes /\ UNCHANGED rows
      BY <1>1 DEF Apply, Aimed
<1>3. Same(r) /\ req'[r].pc \in {"apply", "verify", "undo"} BY <1>1, ApplyStep
<1>4. req'[r].applied \subseteq req[r].nodes BY <1>1, <1>2, ApplyFields DEF Keeps
<1>5. req'[r].pc = "verify" => Verified(r)'
      BY <1>1, <1>3, ApplyFields DEF Verified, Same
<1> QED BY <1>2, <1>3, <1>4, <1>5, SameReady DEF Claiming

LEMMA VerifyReady ==
    ASSUME IInv, ConfInv, NEW r \in Requests, NEW n \in Nodes, Verify(r, n)
    PROVE  Ready(r)'
<1>1. TypeOK /\ Keeps(r) /\ Verified(r) BY DEF IInv, TypeInv, ConfInv, Ready
<1>2. req[r].pc = "verify" /\ UNCHANGED rows /\ UNCHANGED dropin BY DEF Verify
<1>3. Same(r) /\ req'[r].pc \in {"verify", "commit", "reverse", "undo"} BY <1>1, VerifyStep
<1>4. req'[r].applied \subseteq req[r].nodes BY <1>1, VerifyFields DEF Keeps
<1>5. \A m \in Nodes : AddressOf(r, m)' = AddressOf(r, m) BY <1>3 DEF AddressOf, Same
<1>6. req[r].nodes \subseteq Nodes BY <1>1, RequestTyped DEF Request
<1>7. req'[r].pc # "undo" => Verified(r)'
  <2> SUFFICES ASSUME req'[r].pc # "undo", req[r].net PROVE Verified(r)'
      BY <1>3 DEF Verified, Same
  <2>1. \A m \in req[r].nodes \ req[r].todo : dropin[m] = AddressOf(r, m)
        BY <1>1, <1>2 DEF Verified
  <2>2. CASE /\ dropin[n] = AddressOf(r, n)
             /\ req'[r].pc = "verify" /\ req'[r].todo = req[r].todo \ {n}
    <3>1. \A m \in req'[r].nodes \ req'[r].todo : dropin'[m] = AddressOf(r, m)'
          BY <1>2, <1>3, <1>5, <1>6, <2>1, <2>2 DEF Same
    <3> QED BY <2>2, <3>1 DEF Verified
  <2>3. CASE dropin[n] = AddressOf(r, n) /\ req[r].todo = {n}
    <3>1. \A m \in req'[r].nodes : dropin'[m] = AddressOf(r, m)'
          BY <1>2, <1>3, <1>5, <1>6, <2>1, <2>3 DEF Same
    <3> QED BY <3>1 DEF Verified
  <2> QED BY <1>1, <2>2, <2>3, VerifyFields
<1> QED BY <1>2, <1>3, <1>4, <1>7, SameReady DEF Claiming

LEMMA QuietReady ==
    ASSUME IInv, ConfInv, NEW r \in Requests, Lock(r) \/ RequestStep(r)
    PROVE  Ready(r)'
<1>1. TypeOK /\ Ready(r) /\ Aimed(r) BY DEF IInv, TypeInv, ConfInv
<1>2. CASE End(r) BY <1>1, <1>2, EndFields
<1>3. CASE Lock(r)
  <2>1. /\ req'[r].pc \in {"lock", "check"} /\ req'[r].kind = req[r].kind
        /\ req'[r].nodes = req[r].nodes /\ req'[r].net = req[r].net
        /\ req'[r].applied = req[r].applied
        BY <1>1, <1>3, LockStep, LockFields
  <2>2. req[r].kind # "delete" /\ req[r].pc = "lock" BY <1>1, <1>3 DEF Aimed, Lock
  <2> QED BY <1>1, <2>1, <2>2
      DEF Ready, Keeps, Unclaimed, Planned, Doomed, Verified, Late, Claiming
<1>4. CASE (CreateCheck(r) \/ CreateProbe(r)) /\ ~End(r) BY <1>4, CreateReady
<1>5. CASE AddCheck(r) /\ ~End(r) BY <1>5, AddCheckReady
<1>6. CASE AddProbe(r) /\ ~End(r) BY <1>6, ClaimsReady
<1>7. ASSUME Goes(r, "undo"), UNCHANGED rows, req[r].pc \in Claiming PROVE Ready(r)'
  <2>1. Same(r) BY <1>1, <1>7, GoesSame
  <2>2. req'[r].applied = req[r].applied /\ req'[r].pc = "undo" BY <1>1, <1>7, GoesFields
  <2> QED BY <1>1, <1>7, <2>1, <2>2, SameReady DEF Ready, Keeps
<1>8. CASE (CreateCommit(r) \/ AddCommit(r)) /\ ~End(r)
      BY <1>7, <1>8 DEF CreateCommit, AddCommit, Claiming
<1>9. CASE AddReverse(r)
  <2>1. req[r].pc = "reverse" /\ UNCHANGED rows /\ UNCHANGED dropin BY <1>9 DEF AddReverse
  <2>2. CASE Goes(r, "undo") BY <1>7, <2>1, <2>2 DEF Claiming
  <2>3. CASE Goes(r, "commit")
    <3>1. Same(r) BY <1>1, <2>3, GoesSame
    <3>2. req'[r].applied = req[r].applied /\ req'[r].pc = "commit" BY <1>1, <2>3, GoesFields
    <3>3. Verified(r)' BY <1>1, <2>1, <3>1, <3>2 DEF Ready, Verified, Same, AddressOf
    <3> QED BY <1>1, <2>1, <3>1, <3>2, <3>3, SameReady DEF Ready, Keeps, Claiming
  <2> QED BY <1>9, <2>2, <2>3 DEF AddReverse
<1>10. CASE \E n \in Nodes : Apply(r, n) \/ Verify(r, n) BY <1>10, ApplyReady, VerifyReady
<1>11. ASSUME NEW n \in Nodes, Clean(r, n) PROVE Ready(r)'
  <2>1. Same(r) /\ req'[r].pc = "clean" BY <1>1, <1>11, CleanStep
  <2>2. req'[r].applied = req[r].applied /\ req'[r].todo \subseteq req[r].todo
        BY <1>1, <1>11, CleanFields
  <2>3. UNCHANGED rows /\ req[r].pc = "clean" /\ req[r].kind = "delete"
        BY <1>1, <1>11 DEF Clean, Aimed
  <2>4. Doomed(r)' BY <1>1, <2>1, <2>2, <2>3 DEF Ready, Doomed, Same, Members
  <2> QED BY <1>1, <2>1, <2>2, <2>3, <2>4
      DEF Ready, Keeps, Unclaimed, Planned, Verified, Same
<1>12. CASE Undo(r) /\ ~End(r)
  <2>1. Same(r) /\ req'[r].pc = "undo" /\ UNCHANGED rows /\ req[r].pc = "undo"
        BY <1>1, <1>12, UndoStep DEF Undo
  <2>2. req'[r].applied \subseteq req[r].nodes BY <1>1, <1>12, UndoFields DEF Ready, Keeps
  <2> QED BY <2>1, <2>2, SameReady
<1>13. CASE CleanupEnd(r) BY <1>2, <1>13 DEF CleanupEnd
<1> QED BY <1>2, <1>3, <1>4, <1>5, <1>6, <1>8, <1>9, <1>10, <1>11, <1>12, <1>13
    DEF RequestStep

\* The rows that the others need, step by step.
LEMMA FormedKept ==
    ASSUME IInv, ConfInv, NEW r \in Requests, req[r].kind = "create", req[r].pc = "commit",
           NEW c \in Clusters, Formed(r, c), NEW q \in Requests \ {r}
    PROVE  RowsKept(q)
<1>1. TypeOK /\ AddOK(q) /\ Doomed(q) /\ Aimed(q) BY DEF IInv, TypeInv, ConfInv, ReqInv, Ready
<1>2. req[q] \in Request /\ req[r] \in Request BY <1>1, RequestTyped
<1>3. /\ row[c] = "none"
      /\ \A d \in Clusters : d # c => row'[d] = row[d] /\ cidr'[d] = cidr[d] /\ plan'[d] = plan[d]
      /\ \A n \in Nodes : n \notin req[r].nodes =>
             claimed'[n] = claimed[n] /\ member'[n] = member[n]
      BY <1>1 DEF Formed, TypeOK
<1>4. \A n \in Nodes : n \in req[r].nodes => member[n] = NoRow /\ member'[n].c = c
      BY DEF Formed, CommitOK
<1>5. req[q].kind \in {"create", "add"} /\ req[q].pc \in Late =>
          \A n \in req[q].nodes : n \in Nodes /\ claimed'[n] = claimed[n]
  <2> SUFFICES ASSUME req[q].pc \in Late, NEW n \in req[q].nodes
               PROVE  n \in Nodes /\ claimed'[n] = claimed[n]
      OBVIOUS
  <2>1. Past(q) /\ Past(r) BY DEF Past, Late, Claiming
  <2>2. Held(q) /\ Held(r) BY DEF IInv, ReqInv
  <2>3. n \notin req[r].nodes BY <1>1, <2>1, <2>2, Alone
  <2> QED BY <1>2, <1>3, <2>3 DEF Request
<1>6. CASE req[q].kind = "add"
  <2>1. req[q].c \in Clusters /\ req[q].c # c BY <1>1, <1>3, <1>6 DEF Aimed, AddOK
  <2> QED BY <1>3, <1>5, <1>6, <2>1 DEF RowsKept, Late
<1>7. CASE req[q].kind = "delete"
  <2>1. req[q].c \in Clusters /\ req[q].c # c /\ row'[req[q].c] = "exists"
        BY <1>1, <1>3, <1>7 DEF Aimed, Doomed
  <2>2. MembersKept(req[q].c) BY <1>3, <1>4, <2>1 DEF MembersKept, Members
  <2> QED BY <1>7, <2>1, <2>2 DEF RowsKept
<1>8. CASE req[q].kind = "create" BY <1>5, <1>8 DEF RowsKept
<1> QED BY <1>6, <1>7, <1>8 DEF RowsKept

LEMMA ClaimsKept ==
    ASSUME IInv, ConfInv, NEW r \in Requests, req[r].pc = "probe",
           NEW n \in Nodes, Claims(r, n), NEW q \in Requests \ {r}
    PROVE  RowsKept(q)
<1>1. TypeOK /\ Doomed(q) BY DEF IInv, TypeInv, ConfInv, Ready
<1>2. req[q] \in Request BY <1>1, RequestTyped
<1>3. /\ n \in req[r].nodes /\ UNCHANGED <<row, cidr, plan, member>>
      /\ \A m \in Nodes : m # n => claimed'[m] = claimed[m]
      BY <1>1 DEF Claims, TypeOK
<1>4. ASSUME req[q].pc \in Late, NEW m \in req[q].nodes PROVE claimed'[m] = claimed[m]
  <2>1. Past(q) /\ Past(r) BY <1>4 DEF Past, Late, Claiming
  <2>2. Held(q) /\ Held(r) BY DEF IInv, ReqInv
  <2>3. m # n BY <1>1, <1>3, <2>1, <2>2, Alone
  <2> QED BY <1>2, <1>3, <2>3 DEF Request
<1>5. \A c : MembersKept(c) BY <1>3 DEF MembersKept, Members
<1> QED BY <1>1, <1>3, <1>4, <1>5 DEF RowsKept, Doomed, Late

LEMMA JoinedKept ==
    ASSUME IInv, ConfInv, NEW r \in Requests, req[r].kind = "add", req[r].pc = "commit",
           NEW n \in Nodes, Joined(r, n), NEW q \in Requests \ {r}
    PROVE  RowsKept(q)
<1>1. TypeOK /\ Doomed(q) BY DEF IInv, TypeInv, ConfInv, Ready
<1>2. /\ UNCHANGED <<row, cidr, plan, claimed>> /\ member[n] = NoRow
      /\ \A m \in Nodes : m # n => member'[m] = member[m]
      /\ member'[n].c = req[r].c
      BY <1>1 DEF Joined, TypeOK
<1>3. req[q].kind = "delete" => MembersKept(req[q].c)
  <2>1. req[q].kind = "delete" => req[q].c # req[r].c BY DEF IInv, NoClash
  <2> QED BY <1>2, <2>1 DEF MembersKept, Members
<1> QED BY <1>1, <1>2, <1>3 DEF RowsKept, Doomed

LEMMA ReleasedKept ==
    ASSUME IInv, ConfInv, NEW r \in Requests, req[r].pc = "undo", Released(r),
           NEW q \in Requests \ {r}
    PROVE  RowsKept(q)
<1>1. TypeOK /\ Doomed(q) BY DEF IInv, TypeInv, ConfInv, Ready
<1>2. req[q] \in Request BY <1>1, RequestTyped
<1>3. UNCHANGED <<row, cidr, plan, member>> BY DEF Released
<1>4. ASSUME req[q].pc \in Late, NEW m \in req[q].nodes PROVE claimed'[m] = claimed[m]
  <2>1. Past(q) /\ Past(r) BY <1>4 DEF Past, Late, Claiming
  <2>2. Held(q) /\ Held(r) BY DEF IInv, ReqInv
  <2>3. m \notin req[r].nodes BY <1>1, <2>1, <2>2, Alone
  <2> QED BY <1>2, <2>3 DEF Request, Released
<1>5. \A c : MembersKept(c) BY <1>3 DEF MembersKept, Members
<1> QED BY <1>1, <1>3, <1>4, <1>5 DEF RowsKept, Doomed, Late

LEMMA DissolvedKept ==
    ASSUME IInv, ConfInv, NEW c \in Clusters, NEW M, Dissolved(c, M), NEW q \in Requests,
           req[q].kind \in {"add", "delete"} => req[q].c # c
    PROVE  RowsKept(q)
<1>1. TypeOK /\ Doomed(q) /\ Aimed(q) BY DEF IInv, TypeInv, ConfInv, Ready
<1>2. req[q] \in Request BY <1>1, RequestTyped
<1>3. /\ UNCHANGED <<cidr, plan>> /\ \A d \in Clusters : d # c => row'[d] = row[d]
      /\ \A n \in Nodes : claimed'[n] = IF claimed[n] = c THEN NoCluster ELSE claimed[n]
      /\ \A n \in Nodes : n \notin Members(c) => member'[n] = member[n]
      /\ \A n \in Nodes : member'[n] \in {NoRow, member[n]}
      BY <1>1 DEF Dissolved, TypeOK
<1>4. \A n \in req[q].nodes : n \in Nodes BY <1>2 DEF Request
<1>5. req[q].kind = "delete" => MembersKept(req[q].c)
      BY <1>3 DEF MembersKept, Members
<1> QED BY <1>1, <1>3, <1>4, <1>5 DEF RowsKept, Doomed, Aimed

LEMMA RemovedKept ==
    ASSUME IInv, ConfInv, "apart" \in Ops, NEW n \in Nodes, Remove(n), NEW q \in Requests
    PROVE  RowsKept(q)
<1>1. TypeOK /\ Doomed(q) BY DEF IInv, TypeInv, ConfInv, Ready
<1>2. req[q] \in Request BY <1>1, RequestTyped
<1>3. /\ UNCHANGED <<row, cidr, plan>> /\ member[n] # NoRow /\ member'[n] = NoRow
      /\ \A m \in Nodes : m # n => claimed'[m] = claimed[m] /\ member'[m] = member[m]
      /\ claimed'[n] = NoCluster \/ claimed'[n] = claimed[n]
      /\ req[q].kind = "delete" => req[q].c # member[n].c
      BY <1>1 DEF Remove, TypeOK, Apart
<1>4. \A m \in req[q].nodes : m \in Nodes BY <1>2 DEF Request
<1>5. req[q].pc = "undo" => \A m \in req[q].nodes : m # n
      BY <1>3, Unoccupied DEF Late
<1>6. req[q].kind = "delete" => MembersKept(req[q].c)
      BY <1>3 DEF MembersKept, Members
<1> QED BY <1>1, <1>3, <1>4, <1>5, <1>6 DEF RowsKept, Doomed

----------------------------------------------------------------------------
LEMMA DyingKept ==
    ASSUME TypeOK, NEW r \in Requests, Only(r), NEW c, Dying(c),
           req[r].kind = "delete" /\ req[r].c = c => req'[r].kind = "delete" /\ req'[r].c = c
    PROVE  Dying(c)'
<1>1. PICK q \in Requests : req[q].kind = "delete" /\ req[q].c = c BY DEF Dying
<1>2. q # r => req'[q] = req[q] BY OnlyFrame DEF TypeOK
<1>3. req'[q].kind = "delete" /\ req'[q].c = c BY <1>1, <1>2
<1> QED BY <1>3 DEF Dying

\* A deletion ends with its cluster.
LEMMA DeletionStays ==
    ASSUME IInv, ConfInv, NEW r \in Requests, Lock(r) \/ RequestStep(r),
           req[r].kind = "delete"
    PROVE  \/ req'[r].kind = "delete" /\ req'[r].c = req[r].c /\ UNCHANGED rows
           \/ Dissolved(req[r].c, req[r].nodes)
<1>1. TypeOK /\ Aimed(r) /\ Doomed(r) BY DEF IInv, TypeInv, ConfInv, Ready
<1>2. req[r].pc = "clean" BY <1>1 DEF Aimed
<1>3. CASE \E n \in Nodes : Clean(r, n)
      BY <1>1, <1>3, CleanStep DEF Clean, Same
<1>4. CASE CleanupEnd(r) BY <1>1, <1>4 DEF CleanupEnd, Doomed
<1> QED BY <1>2, <1>3, <1>4 DEF RequestStep, Lock, CreateCheck, CreateProbe, CreateCommit,
    AddCheck, AddProbe, AddReverse, AddCommit, Apply, Verify, Undo

\* A member's row, its cluster's plan and network.
RowSame(n) ==
    /\ member'[n] = member[n]
    /\ plan'[member[n].c] = plan[member[n].c] /\ cidr'[member[n].c] = cidr[member[n].c]

LEMMA StepConfigured ==
    ASSUME IInv, ConfInv, NEW r \in Requests, Lock(r) \/ RequestStep(r)
    PROVE  MembersConfigured'
<1>1. TypeOK /\ Aimed(r) /\ Ready(r) /\ AddOK(r) BY DEF IInv, TypeInv, ConfInv, ReqInv
<1>2. req[r] \in Request BY <1>1, RequestTyped
<1>3. Only(r) /\ (\/ req'[r].kind = "none"
                  \/ req'[r].kind = req[r].kind /\ req'[r].c = req[r].c)
  <2>1. CASE End(r) BY <1>1, <2>1, EndInv
  <2>2. CASE UNCHANGED rows BY <2>2, QuietInv
  <2>3. CASE \E n \in Nodes : Claims(r, n) BY <2>3 DEF Claims
  <2> QED BY <2>1, <2>2, <2>3, RowsStep DEF IInv
<1>4. ASSUME NEW n \in Nodes, member'[n] # NoRow, RowSame(n), plan'[member'[n].c],
             ~Dying(member[n].c)
      PROVE  dropin'[n] = <<cidr'[member'[n].c], member'[n].i>>
      BY <1>4, FilesSafe DEF RowSame, ConfInv, MembersConfigured
<1>5. ASSUME NEW c, Dying(c), ~Dying(c)'
      PROVE  req[r].kind = "delete" /\ req[r].c = c /\ Dissolved(c, req[r].nodes)
      BY <1>1, <1>3, <1>5, DyingKept, DeletionStays
<1> SUFFICES ASSUME NEW n \in Nodes, NEW c, c = member'[n].c, member'[n] # NoRow, plan'[c],
                    ~Dying(c)'
             PROVE  dropin'[n] = <<cidr'[c], member'[n].i>>
    BY DEF MembersConfigured
<1>6. CASE RowSame(n) /\ ~Dying(c) BY <1>4, <1>6 DEF RowSame
<1>7. CASE Dying(c)
  <2>1. req[r].kind = "delete" /\ req[r].c = c /\ Dissolved(c, req[r].nodes)
        BY <1>5, <1>7
  <2>2. Members(c) = req[r].nodes BY <1>1, <2>1 DEF Ready, Doomed
  <2>3. member'[n] = NoRow \/ (member[n].c # c /\ member'[n] = member[n])
        BY <2>1, <2>2 DEF Dissolved, Members
  <2> QED BY <2>3
<1>8. CASE UNCHANGED rows BY <1>6, <1>7, <1>8 DEF RowSame
<1>9. ASSUME req[r].kind = "create", req[r].pc = "commit", NEW d \in Clusters, Formed(r, d)
      PROVE  dropin'[n] = <<cidr'[c], member'[n].i>>
  <2>1. CASE n \in req[r].nodes
    <3>1. c = d /\ member'[n].i = req[r].ix[n] BY <1>9, <2>1 DEF Formed
    <3>2. cidr'[c] = req[r].cidr /\ req[r].net BY <1>1, <1>9, <3>1 DEF Formed, TypeOK
    <3>3. dropin[n] = <<req[r].cidr, req[r].ix[n]>>
          BY <1>1, <1>9, <2>1, <3>2 DEF Ready, Verified, AddressOf
    <3>4. dropin'[n] = dropin[n] BY <1>9, RequestTouches DEF Touches
    <3> QED BY <3>1, <3>2, <3>3, <3>4
  <2>2. CASE n \notin req[r].nodes
    <3>1. member'[n] = member[n] BY <1>9, <2>2 DEF Formed
    <3>2. member[n].c \in Clusters /\ member[n].c # d BY <1>9, <3>1, Typed DEF Formed
    <3>3. RowSame(n) BY <1>1, <1>9, <3>1, <3>2 DEF RowSame, Formed, TypeOK
    <3> QED BY <1>6, <1>7, <3>3
  <2> QED BY <2>1, <2>2
<1>10. CASE \E m \in Nodes : Claims(r, m) BY <1>6, <1>7, <1>10 DEF Claims, RowSame
<1>11. ASSUME req[r].kind = "add", req[r].pc = "commit", NEW m \in Nodes, Joined(r, m)
       PROVE  dropin'[n] = <<cidr'[c], member'[n].i>>
  <2>1. CASE n = m
    <3>1. /\ c = req[r].c /\ member'[n].i = req[r].ix[n] /\ UNCHANGED <<cidr, plan>>
          /\ n \in req[r].nodes
          BY <1>1, <1>11, <2>1 DEF Joined, TypeOK
    <3>2. req[r].cidr = cidr[c] /\ req[r].net
          BY <1>1, <1>11, <3>1 DEF Ready, Planned, Late, Claiming
    <3>3. dropin[n] = <<req[r].cidr, req[r].ix[n]>>
          BY <1>1, <1>11, <3>1, <3>2 DEF Ready, Verified, AddressOf
    <3>4. dropin'[n] = dropin[n] BY <1>11, RequestTouches DEF Touches
    <3> QED BY <3>1, <3>2, <3>3, <3>4
  <2>2. CASE n # m
    <3>1. RowSame(n) BY <1>1, <1>11, <2>2 DEF RowSame, Joined, TypeOK
    <3> QED BY <1>6, <1>7, <3>1 DEF RowSame
  <2> QED BY <2>1, <2>2
<1>12. CASE Released(r) BY <1>6, <1>7, <1>12 DEF Released, RowSame
<1>13. CASE Dissolved(req[r].c, req[r].nodes)
  <2>1. RowSame(n) BY <1>13 DEF Dissolved, RowSame
  <2> QED BY <1>6, <1>7, <2>1 DEF RowSame
<1> QED BY <1>8, <1>9, <1>10, <1>11, <1>12, <1>13, RowsStep DEF IInv

LEMMA OthersReady ==
    ASSUME IInv, ConfInv, NEW r \in Requests, Lock(r) \/ RequestStep(r)
    PROVE  \A q \in Requests \ {r} : RowsKept(q)
<1>1. TypeOK /\ Aimed(r) BY DEF IInv, TypeInv
<1> SUFFICES ASSUME NEW q \in Requests \ {r} PROVE RowsKept(q)
    OBVIOUS
<1>2. CASE UNCHANGED rows BY <1>2, KeptQuiet
<1>3. CASE /\ req[r].kind = "create" /\ req[r].pc = "commit"
           /\ \E c \in Clusters : Formed(r, c)
      BY <1>3, FormedKept
<1>4. CASE req[r].pc = "probe" /\ \E n \in Nodes : Claims(r, n) BY <1>4, ClaimsKept
<1>5. CASE /\ req[r].kind = "add" /\ req[r].pc = "commit" /\ \E n \in Nodes : Joined(r, n)
      BY <1>5, JoinedKept
<1>6. CASE req[r].pc = "undo" /\ Released(r) BY <1>6, ReleasedKept
<1>7. CASE req[r].pc = "clean" /\ Dissolved(req[r].c, req[r].nodes)
  <2>1. req[r].kind = "delete" /\ req[r].c \in Clusters BY <1>1, <1>7 DEF Aimed
  <2>2. req[q].kind \in {"add", "delete"} => req[q].c # req[r].c
        BY <2>1 DEF IInv, NoClash, ConfInv, OneDeletion
  <2> QED BY <1>7, <2>1, <2>2, DissolvedKept
<1> QED BY <1>2, <1>3, <1>4, <1>5, <1>6, <1>7, RowsStep DEF IInv

LEMMA StepConf ==
    ASSUME IInv, ConfInv, NEW r \in Requests, Lock(r) \/ RequestStep(r)
    PROVE  ConfInv'
<1>1. TypeOK BY DEF IInv, TypeInv
<1>2. Only(r) /\ (\/ req'[r].kind = "none"
                  \/ req'[r].kind = req[r].kind /\ req'[r].c = req[r].c)
  <2>1. CASE End(r) BY <1>1, <2>1, EndInv
  <2>2. CASE UNCHANGED rows BY <2>2, QuietInv
  <2>3. CASE \E n \in Nodes : Claims(r, n) BY <2>3 DEF Claims
  <2> QED BY <2>1, <2>2, <2>3, RowsStep DEF IInv
<1>3. \A q \in Requests \ {r} : req'[q] = req[q] BY <1>1, <1>2, OnlyFrame DEF TypeOK
<1>4. ASSUME NEW q \in Requests \ {r} PROVE Ready(q)'
      BY <1>3, OthersReady, FilesSafe, ReadyFrame DEF ConfInv
<1>5. \A q \in Requests : Ready(q)' BY <1>4, QuietReady
<1>6. \A p, q \in Requests : OneDeletion(p, q)'
  <2> SUFFICES ASSUME NEW p \in Requests, NEW q \in Requests PROVE OneDeletion(p, q)'
      OBVIOUS
  <2>1. \A x \in {p, q} : \/ req'[x].kind = "none"
                          \/ req'[x].kind = req[x].kind /\ req'[x].c = req[x].c
        BY <1>2, <1>3
  <2> QED BY <2>1 DEF ConfInv, OneDeletion
<1> QED BY <1>5, <1>6, StepConfigured DEF ConfInv

LEMMA BeginsReady ==
    ASSUME IInv, NEW r \in Requests, Begins(r), "bare" \notin Ops
    PROVE  Ready(r)'
<1>1. TypeOK BY DEF IInv, TypeInv
<1>2. NoRequest \in Request BY NoRequestTyped
<1>3. UNCHANGED rows BY DEF Begins, CreateBegin, AddBegin, CleanupBegin
<1>4. ASSUME NEW S \in SUBSET Nodes, NEW ix \in [Nodes -> 0..MaxSlot], CreateBegin(r, S, ix)
      PROVE  Ready(r)'
  <2>1. req'[r].kind = "create" /\ req'[r].pc \in {"lock", "check"}
        BY <1>1, <1>4, CreateBeginStep
  <2>2. req'[r].applied = {}
        BY <1>1, <1>4 DEF CreateBegin, NoRequest, TypeOK
  <2> QED BY <2>1, <2>2
      DEF Ready, Keeps, Unclaimed, Planned, Doomed, Verified, Late, Claiming
<1>5. ASSUME NEW c \in Clusters, NEW n \in Nodes, NEW net \in BOOLEAN, AddBegin(r, c, n, net)
      PROVE  Ready(r)'
  <2>1. req'[r].kind = "add" /\ req'[r].pc = "lock" BY <1>1, <1>5, AddBeginStep
  <2>2. req'[r].applied = {} /\ req'[r].net = net
        BY <1>1, <1>5 DEF AddBegin, NoRequest, TypeOK
  <2>3. net BY <1>5 DEF AddBegin
  <2> QED BY <2>1, <2>2, <2>3
      DEF Ready, Keeps, Unclaimed, Planned, Doomed, Verified, Late, Claiming
<1>6. ASSUME NEW c \in Clusters, CleanupBegin(r, c) PROVE Ready(r)'
  <2>1. /\ req'[r].kind = "delete" /\ req'[r].pc = "clean" /\ req'[r].c = c
        /\ req'[r].nodes = Members(c)
        BY <1>1, <1>6, CleanupBeginStep
  <2>2. req'[r].applied = {} /\ req'[r].todo = Members(c)
        BY <1>1, <1>6 DEF CleanupBegin, NoRequest, TypeOK
  <2>3. Members(c)' = Members(c) /\ row'[c] = "exists" BY <1>3, <1>6 DEF CleanupBegin, Members
  <2>4. Doomed(r)' BY <2>1, <2>2, <2>3 DEF Doomed
  <2> QED BY <2>1, <2>2, <2>4 DEF Ready, Keeps, Unclaimed, Planned, Verified
<1> QED BY <1>4, <1>5, <1>6 DEF Begins

LEMMA BeginsConf ==
    ASSUME IInv, ConfInv, "apart" \in Ops, "bare" \notin Ops, NEW r \in Requests, Begins(r)
    PROVE  ConfInv'
<1>1. TypeOK /\ Aimed(r) BY DEF IInv, TypeInv
<1>2. Only(r) BY <1>1, CreateBeginStep, AddBeginStep, CleanupBeginStep DEF Begins
<1>3. UNCHANGED <<rows, files>> /\ req[r].pc = "free"
      BY DEF Begins, CreateBegin, AddBegin, CleanupBegin
<1>4. \A q \in Requests \ {r} : req'[q] = req[q] BY <1>1, <1>2, OnlyFrame DEF TypeOK
<1>5. ASSUME NEW q \in Requests \ {r} PROVE Ready(q)'
  <2>1. RowsKept(q) BY <1>3, KeptQuiet
  <2>2. FilesKept(q) BY <1>3 DEF FilesKept
  <2> QED BY <1>4, <2>1, <2>2, ReadyFrame DEF ConfInv
<1>6. \A q \in Requests : Ready(q)' BY <1>5, BeginsReady
<1>7. \A q \in Requests \ {r} : OneDeletion(q, r)' /\ OneDeletion(r, q)'
  <2>1. ASSUME NEW S \in SUBSET Nodes, NEW ix \in [Nodes -> 0..MaxSlot], CreateBegin(r, S, ix)
        PROVE  req'[r].kind = "create"
        BY <1>1, <2>1, CreateBeginStep
  <2>2. ASSUME NEW c \in Clusters, NEW n \in Nodes, NEW net \in BOOLEAN, AddBegin(r, c, n, net)
        PROVE  req'[r].kind = "add"
        BY <1>1, <2>2, AddBeginStep
  <2>3. ASSUME NEW c \in Clusters, CleanupBegin(r, c)
        PROVE  \A q \in Requests \ {r} : OneDeletion(q, r)' /\ OneDeletion(r, q)'
    <3>1. req'[r].c = c BY <1>1, <2>3, CleanupBeginStep
    <3>2. \A q \in Requests : req[q].c = c => req[q].kind # "delete"
          BY <2>3 DEF CleanupBegin, Apart
    <3> QED BY <1>4, <3>1, <3>2 DEF OneDeletion
  <2> QED BY <2>1, <2>2, <2>3 DEF Begins, OneDeletion
<1>8. \A p, q \in Requests : OneDeletion(p, q)'
  <2>1. \A p, q \in Requests \ {r} : OneDeletion(p, q)' BY <1>4 DEF ConfInv, OneDeletion
  <2> QED BY <1>7, <2>1 DEF OneDeletion
<1>9. MembersConfigured'
  <2>1. req[r].kind # "delete" BY <1>1, <1>3 DEF Aimed
  <2>2. \A c : Dying(c) => Dying(c)' BY <1>1, <1>2, <2>1, DyingKept
  <2> SUFFICES ASSUME NEW n \in Nodes, NEW c, c = member[n].c, member[n] # NoRow, plan[c],
                      ~Dying(c)'
               PROVE  dropin[n] = <<cidr[c], member[n].i>>
      BY <1>3 DEF MembersConfigured
  <2> QED BY <2>2 DEF ConfInv, MembersConfigured
<1> QED BY <1>6, <1>8, <1>9 DEF ConfInv

LEMMA OutsideConf ==
    ASSUME IInv, ConfInv, "apart" \in Ops, Outside
    PROVE  ConfInv'
<1>1. TypeOK BY DEF IInv, TypeInv
<1>2. UNCHANGED <<req, files>> BY DEF Outside, Remove, Unplug, Plug, Delete, DeviceJoins
<1>3. \A q \in Requests : FilesKept(q) BY <1>2 DEF FilesKept
<1>4. \A c : Dying(c)' = Dying(c) BY <1>2 DEF Dying
<1>5. (\A q \in Requests : RowsKept(q)) /\ \A n \in Nodes : member'[n] # NoRow => RowSame(n)
  <2>1. CASE UNCHANGED rows BY <2>1, KeptQuiet DEF RowSame
  <2>2. ASSUME NEW c \in Clusters, Delete(c)
        PROVE  /\ \A q \in Requests : RowsKept(q)
               /\ \A n \in Nodes : member'[n] # NoRow => RowSame(n)
    <3>1. \A q \in Requests : req[q].kind \in {"add", "delete"} => req[q].c # c
          BY <2>2 DEF Delete, Apart
    <3>2. \A q \in Requests : RowsKept(q) BY <2>2, <3>1, DissolvedKept DEF Delete
    <3>3. \A n \in Nodes : member'[n] # NoRow => RowSame(n)
          BY <2>2 DEF Delete, Dissolved, RowSame
    <3> QED BY <3>2, <3>3
  <2>3. ASSUME NEW n \in Nodes, Remove(n)
        PROVE  /\ \A q \in Requests : RowsKept(q)
               /\ \A m \in Nodes : member'[m] # NoRow => RowSame(m)
    <3>1. \A q \in Requests : RowsKept(q) BY <2>3, RemovedKept
    <3>2. \A m \in Nodes : member'[m] # NoRow => RowSame(m)
          BY <1>1, <2>3 DEF Remove, RowSame, TypeOK
    <3> QED BY <3>1, <3>2
  <2> QED BY <2>1, <2>2, <2>3 DEF Outside, Unplug, Plug, DeviceJoins
<1>6. \A q \in Requests : Ready(q)' BY <1>2, <1>3, <1>5, ReadyFrame DEF ConfInv
<1>7. \A p, q \in Requests : OneDeletion(p, q)' BY <1>2 DEF ConfInv, OneDeletion
<1>8. MembersConfigured'
  <2> SUFFICES ASSUME NEW n \in Nodes, NEW c, c = member'[n].c, member'[n] # NoRow, plan'[c],
                      ~Dying(c)'
               PROVE  dropin'[n] = <<cidr'[c], member'[n].i>>
      BY DEF MembersConfigured
  <2>1. RowSame(n) /\ ~Dying(c) BY <1>4, <1>5
  <2> QED BY <1>2, <2>1 DEF RowSame, ConfInv, MembersConfigured
<1> QED BY <1>6, <1>7, <1>8 DEF ConfInv

LEMMA ConfInit == Init => ConfInv
<1> SUFFICES ASSUME Init PROVE ConfInv
    OBVIOUS
<1>1. \A r \in Requests : req[r] = NoRequest BY DEF Init
<1>2. \A r \in Requests : Ready(r)
      BY <1>1 DEF NoRequest, Ready, Keeps, Unclaimed, Planned, Doomed, Verified
<1>3. \A q, r \in Requests : OneDeletion(q, r) BY <1>1 DEF NoRequest, OneDeletion
<1>4. MembersConfigured BY DEF Init, MembersConfigured
<1> QED BY <1>2, <1>3, <1>4 DEF ConfInv

LEMMA ConfStep ==
    ASSUME "apart" \in Ops, "bare" \notin Ops
    PROVE  IInv /\ ConfInv /\ [Next]_vars => ConfInv'
<1> SUFFICES ASSUME IInv, ConfInv, [Next]_vars PROVE ConfInv'
    OBVIOUS
<1>1. CASE Outside BY <1>1, OutsideConf
<1>2. CASE \E r \in Requests : Begins(r) BY <1>2, BeginsConf
<1>3. CASE \E r \in Requests : Lock(r) \/ RequestStep(r) BY <1>3, StepConf
<1>4. CASE UNCHANGED vars
  <2>1. \A q \in Requests : RowsKept(q) /\ FilesKept(q)
        BY <1>4, KeptQuiet DEF vars, FilesKept
  <2>2. \A q \in Requests : Ready(q)' BY <1>4, <2>1, ReadyFrame DEF ConfInv, vars
  <2>3. MembersConfigured' BY <1>4 DEF ConfInv, MembersConfigured, Dying, vars
  <2>4. \A p, q \in Requests : OneDeletion(p, q)' BY <1>4 DEF ConfInv, OneDeletion, vars
  <2> QED BY <2>2, <2>3, <2>4 DEF ConfInv
<1> QED BY <1>1, <1>2, <1>3, <1>4, NextParts

\* Where no cluster is deleted while its members change, and every node is added with its
\* network, a member of a cluster with a plan carries the address of its slot until the
\* deletion of its cluster works on it: no request that fails, undoes or reuses a
\* configuration leaves it with another (clusters.py, _apply_configs).
THEOREM ConfiguredSafe ==
    ASSUME "apart" \in Ops, "bare" \notin Ops PROVE Spec => []MembersConfigured
<1>1. ConfInv => MembersConfigured BY DEF ConfInv
<1> QED BY <1>1, IInit, IStep, ConfInit, ConfStep, PTL DEF Spec

----------------------------------------------------------------------------
(* The order of the locks.                                                 *)

LEMMA FiniteMaximum ==
    ASSUME NEW S, S \subseteq Nat, S # {}, IsFiniteSet(S)
    PROVE  \E x \in S : \A y \in S : y <= x
<1> DEFINE Above(x) == {y \in S : y > x}
           T == {Above(x) : x \in S}
           R == StrictSubsetOrdering(S)
<1>1. IsWellFoundedOn(R, SUBSET S)
      BY FS_StrictSubsetOrderingWellFounded, FS_FiniteSubsetsOfFinite
<1>2. T \subseteq SUBSET S /\ T # {} OBVIOUS
<1>3. PICK U \in T : \A V \in T : <<V, U>> \notin R
  <2> HIDE DEF T, R
  <2> QED BY <1>1, <1>2, WFMin
<1>4. PICK x \in S : U = Above(x) BY <1>3
<1>5. ASSUME NEW y \in S, ~(y <= x) PROVE FALSE
  <2>1. y > x /\ x \in Nat /\ y \in Nat BY <1>5
  <2>2. Above(y) \subseteq Above(x)
    <3> SUFFICES ASSUME NEW z \in S, z > y PROVE z > x
        OBVIOUS
    <3>1. z \in Nat OBVIOUS
    <3> QED BY <2>1, <3>1
  <2>3. y \in Above(x) /\ y \notin Above(y) BY <2>1
  <2>4. <<Above(y), Above(x)>> \in R BY <2>2, <2>3 DEF StrictSubsetOrdering
  <2>5. Above(y) \in T OBVIOUS
  <2> QED BY <1>3, <1>4, <2>4, <2>5
<1> QED BY <1>5

\* A request that is not under way has no locks, and none has a lock that it does not
\* need.  While it takes its locks, what it holds comes before what it still misses: the
\* key of its cluster first, the nodes by their ids.
Owned(r) ==
    /\ req[r].pc = "free" => req[r].nodes = {} /\ req[r].kind = "none"
    /\ \A k \in Keys : lock[k] = r => k \in Wanted(r)
Ordered(r) ==
    req[r].pc = "lock" =>
        \A k \in Nodes : lock[k] = r => /\ Missing(r) \subseteq Nodes
                                        /\ \A m \in Missing(r) : k < m
OrderInv == \A r \in Requests : Owned(r) /\ Ordered(r)

LEMMA OrderInit == Init => OrderInv
BY ConstantsAssumption DEF Init, OrderInv, Owned, Ordered, NoRequest, Keys

\* What the steps of a request do to its locks.
Stays(r) ==
    /\ Only(r) /\ UNCHANGED lock
    /\ req'[r].kind = req[r].kind /\ req'[r].c = req[r].c /\ req'[r].nodes = req[r].nodes
    /\ req'[r].pc \notin {"free", "lock"} /\ (req[r].pc = "clean" => req'[r].pc = "clean")

LEMMA RequestStays ==
    ASSUME TypeInv, NEW r \in Requests, RequestStep(r)
    PROVE  End(r) \/ Stays(r)
<1>0. TypeOK BY DEF TypeInv
<1>1. CASE CreateCheck(r) /\ ~End(r) BY <1>0, <1>1, CreateCheckStep DEF Stays, CreateCheck
<1>2. CASE CreateProbe(r) /\ ~End(r) BY <1>0, <1>2, CreateProbeStep DEF Stays, CreateProbe
<1>3. ASSUME NEW pc \in {"commit", "undo"}, Goes(r, pc), req[r].pc # "clean" PROVE Stays(r)
      BY <1>0, <1>3, GoesSame DEF Stays, Same
<1>4. CASE (CreateCommit(r) \/ AddCommit(r) \/ AddReverse(r)) /\ ~End(r)
      BY <1>3, <1>4 DEF CreateCommit, AddCommit, AddReverse
<1>5. CASE AddCheck(r) /\ ~End(r)
  <2>1. req[r].c \in Clusters BY <1>5 DEF TypeInv, Aimed, AddCheck
  <2> QED BY <1>0, <1>5, <2>1, AddCheckStep DEF Stays, AddCheck
<1>6. CASE AddProbe(r) /\ ~End(r) BY <1>0, <1>6, AddProbeStep DEF Stays, Claims, AddProbe
<1>7. ASSUME NEW n \in Nodes, Apply(r, n) \/ Verify(r, n) \/ Clean(r, n) PROVE Stays(r)
  <2>1. CASE Apply(r, n) BY <1>0, <2>1, ApplyStep DEF Stays, Same, Apply
  <2>2. CASE Verify(r, n) BY <1>0, <2>2, VerifyStep DEF Stays, Same, Verify
  <2>3. CASE Clean(r, n) BY <1>0, <2>3, CleanStep DEF Stays, Same, Clean
  <2> QED BY <1>7, <2>1, <2>2, <2>3
<1>8. CASE Undo(r) /\ ~End(r) BY <1>0, <1>8, UndoStep DEF Stays, Same, Undo
<1>9. CASE CleanupEnd(r) BY <1>9 DEF CleanupEnd
<1> QED BY <1>1, <1>2, <1>4, <1>5, <1>6, <1>7, <1>8, <1>9 DEF RequestStep

\* A request that neither moves nor loses nor gets a lock.
LEMMA OrderFrame ==
    ASSUME NEW q \in Requests, Owned(q), Ordered(q), req'[q] = req[q], TypeInv,
           \A k \in Keys : lock'[k] = q <=> lock[k] = q
    PROVE  Owned(q)' /\ Ordered(q)'
<1>1. Wanted(q)' = Wanted(q) BY DEF Wanted
<1>2. Wanted(q) \subseteq Keys BY WantedKeys
<1>3. Missing(q)' = Missing(q) BY <1>1, <1>2 DEF Missing
<1>4. Owned(q)' BY <1>1 DEF Owned
<1>5. Ordered(q)' BY <1>3 DEF Ordered, Keys
<1> QED BY <1>4, <1>5

LEMMA EndOrder ==
    ASSUME TypeInv, OrderInv, NEW r \in Requests, End(r)
    PROVE  OrderInv'
<1>1. TypeOK /\ Only(r) /\ req'[r] = NoRequest BY EndStep DEF TypeInv
<1>2. \A k \in Keys : lock'[k] # r /\ \A q \in Requests \ {r} : lock'[k] = q <=> lock[k] = q
      BY ConstantsAssumption DEF End, Unlocked
<1>3. Owned(r)' /\ Ordered(r)' BY <1>1, <1>2 DEF Owned, Ordered, NoRequest
<1>4. ASSUME NEW q \in Requests \ {r} PROVE Owned(q)' /\ Ordered(q)'
  <2>1. req'[q] = req[q] BY <1>1, OnlyFrame DEF TypeOK
  <2> QED BY <1>2, <2>1, OrderFrame DEF OrderInv
<1> QED BY <1>3, <1>4 DEF OrderInv

LEMMA StaysOrder ==
    ASSUME TypeInv, OrderInv, NEW r \in Requests, Stays(r)
    PROVE  OrderInv'
<1>1. TypeOK BY DEF TypeInv
<1>2. Owned(r)' /\ Ordered(r)' BY DEF OrderInv, Owned, Ordered, Stays, Wanted
<1>3. ASSUME NEW q \in Requests \ {r} PROVE Owned(q)' /\ Ordered(q)'
  <2>1. req'[q] = req[q] BY <1>1, OnlyFrame DEF TypeOK, Stays
  <2> QED BY <2>1, OrderFrame DEF OrderInv, Stays
<1> QED BY <1>2, <1>3 DEF OrderInv

LEMMA BeginsOrder ==
    ASSUME TypeInv, OrderInv, NEW r \in Requests, Begins(r)
    PROVE  OrderInv'
<1>1. TypeOK BY DEF TypeInv
<1>2. Only(r) /\ UNCHANGED lock /\ req'[r].pc # "free" /\ req[r].pc = "free"
  <2>1. UNCHANGED lock /\ req[r].pc = "free"
        BY DEF Begins, CreateBegin, AddBegin, CleanupBegin
  <2>2. Only(r) /\ req'[r].pc # "free"
        BY <1>1, CreateBeginStep, AddBeginStep, CleanupBeginStep DEF Begins
  <2> QED BY <2>1, <2>2
<1>3. \A k \in Keys : lock[k] # r BY <1>2 DEF OrderInv, Owned, Wanted
<1>4. Owned(r)' /\ Ordered(r)' BY <1>2, <1>3 DEF Owned, Ordered, Keys
<1>5. ASSUME NEW q \in Requests \ {r} PROVE Owned(q)' /\ Ordered(q)'
  <2>1. req'[q] = req[q] BY <1>1, <1>2, OnlyFrame DEF TypeOK
  <2> QED BY <1>2, <2>1, OrderFrame DEF OrderInv
<1> QED BY <1>4, <1>5 DEF OrderInv

LEMMA LockOrder ==
    ASSUME TypeInv, OrderInv, NEW r \in Requests, Lock(r)
    PROVE  OrderInv'
<1>1. TypeOK /\ req[r].pc = "lock" BY DEF TypeInv, Lock
<1>2. PICK k \in Keys : NextKey(r, k) /\ lock[k] = Free /\ lock' = [lock EXCEPT ![k] = r]
      BY DEF Lock
<1>3. /\ Only(r) /\ req'[r].pc \in {"lock", "check"}
      /\ req'[r].kind = req[r].kind /\ req'[r].c = req[r].c /\ req'[r].nodes = req[r].nodes
      BY <1>1, LockStep
<1>4. Wanted(r)' = Wanted(r) /\ Wanted(r) \subseteq Keys BY <1>3, WantedKeys DEF Wanted
<1>5. lock'[k] = r /\ \A x \in Keys : x # k => lock'[x] = lock[x] BY <1>1, <1>2 DEF TypeOK
<1>6. Missing(r)' = Missing(r) \ {k} BY <1>4, <1>5 DEF Missing
<1>7. Owned(r)'
      BY <1>2, <1>3, <1>4, <1>5 DEF OrderInv, Owned, NextKey, Missing
<1>8. Ordered(r)'
  <2> SUFFICES ASSUME NEW x \in Nodes, lock'[x] = r
               PROVE  Missing(r)' \subseteq Nodes /\ \A m \in Missing(r)' : x < m
      BY DEF Ordered
  <2>1. x \in Keys BY DEF Keys
  <2>2. CASE x = k
    <3>1. Missing(r) \subseteq Nodes /\ \A m \in Missing(r) : k <= m BY <1>2, <2>2 DEF NextKey
    <3>2. ASSUME NEW m \in Missing(r) \ {k} PROVE k < m
      <4>1. k \in Nat /\ m \in Nat BY <2>2, <3>1, <3>2, ConstantsAssumption
      <4>2. k <= m /\ m # k BY <3>1, <3>2
      <4> QED BY <4>1, <4>2
    <3> QED BY <1>6, <2>2, <3>1, <3>2
  <2>3. CASE x # k
        BY <1>1, <1>5, <1>6, <2>1, <2>3 DEF OrderInv, Ordered
  <2> QED BY <2>2, <2>3
<1>9. ASSUME NEW q \in Requests \ {r} PROVE Owned(q)' /\ Ordered(q)'
  <2>1. req'[q] = req[q] BY <1>1, <1>3, OnlyFrame DEF TypeOK
  <2>2. \A x \in Keys : lock'[x] = q <=> lock[x] = q
        BY <1>2, <1>5, ConstantsAssumption
  <2> QED BY <2>1, <2>2, OrderFrame DEF OrderInv
<1> QED BY <1>7, <1>8, <1>9 DEF OrderInv

LEMMA OrderStep == TypeInv /\ OrderInv /\ [Next]_vars => OrderInv'
<1> SUFFICES ASSUME TypeInv, OrderInv, [Next]_vars PROVE OrderInv'
    OBVIOUS
<1>1. ASSUME UNCHANGED <<lock, req>> PROVE OrderInv'
      BY <1>1, OrderFrame DEF OrderInv
<1>2. CASE Outside
      BY <1>1, <1>2 DEF Outside, Remove, Unplug, Plug, Delete, DeviceJoins
<1>3. CASE \E r \in Requests : Begins(r) BY <1>3, BeginsOrder
<1>4. CASE \E r \in Requests : Lock(r) BY <1>4, LockOrder
<1>5. CASE \E r \in Requests : RequestStep(r)
      BY <1>5, RequestStays, EndOrder, StaysOrder
<1>6. CASE UNCHANGED vars BY <1>1, <1>6 DEF vars
<1> QED BY <1>2, <1>3, <1>4, <1>5, <1>6, NextParts

\* A request that holds a key and waits, waits for a node that comes after it.
LEMMA WaitsUpward ==
    ASSUME TypeInv, OrderInv, NEW q \in Requests, NEW k \in Keys, lock[k] = q,
           req[q].pc = "lock", NEW m \in Keys, NextKey(q, m)
    PROVE  m \in Nodes /\ (k \in Nodes => k < m)
<1>1. Owned(q) /\ Ordered(q) /\ k \in Wanted(q) BY DEF OrderInv, Owned
<1>2. req[q].nodes \subseteq Nodes BY RequestTyped DEF TypeInv, Request
<1>3. m \in Missing(q) /\ m \in Wanted(q) /\ lock[m] # q BY DEF NextKey, Missing
<1>4. CASE k \in Nodes BY <1>1, <1>3, <1>4 DEF Ordered
<1>5. CASE k \notin Nodes BY <1>1, <1>2, <1>3, <1>5 DEF Wanted
<1> QED BY <1>4, <1>5

\* No set of requests waits for each other's locks, whatever users do: the keys that they
\* wait for would grow without end along the waits (clusters.py, the sorted locks).
THEOREM DeadlockFree == Spec => []NoDeadlock
<1>1. TypeInv /\ OrderInv => NoDeadlock
  <2> SUFFICES ASSUME TypeInv, OrderInv, NEW Q \in SUBSET Requests, Q # {},
                      \A r \in Q : \E q \in Q : Waits(r, q)
               PROVE  FALSE
      BY DEF NoDeadlock
  <2> DEFINE S == {k \in Nodes : \E r, q \in Q : NextKey(r, k) /\ lock[k] = q}
  <2>1. \A r \in Q : Missing(r) \subseteq Keys BY WantedKeys DEF Missing
  <2>2. \A r \in Q : req[r].pc = "lock" /\ \E q \in Q : \E k \in Keys :
                         NextKey(r, k) /\ lock[k] = q
        BY <2>1 DEF Waits
  <2>3. ASSUME NEW q \in Q, NEW k \in Keys, lock[k] = q
        PROVE  \E m \in S : k \in Nodes => k < m
    <3>1. PICK p \in Q, m \in Keys : NextKey(q, m) /\ lock[m] = p BY <2>2
    <3>2. m \in Nodes /\ (k \in Nodes => k < m) BY <2>2, <2>3, <3>1, WaitsUpward
    <3> QED BY <3>1, <3>2
  <2>4. S # {} BY <2>2, <2>3
  <2>5. S \subseteq Nat /\ IsFiniteSet(S) BY ConstantsAssumption, FS_Subset
  <2>6. PICK k \in S : \A m \in S : m <= k BY <2>4, <2>5, FiniteMaximum
  <2>7. PICK m \in S : k < m BY <2>3, <2>6 DEF Keys
  <2> QED BY <2>5, <2>6, <2>7
<1> QED BY <1>1, TypeInit, TypeStep, OrderInit, OrderStep, PTL DEF Spec

----------------------------------------------------------------------------
(* What a failed request leaves.                                           *)

HeldInv == \A r \in Requests : Held(r)

LEMMA HeldStep == TypeInv /\ HeldInv /\ [Next]_vars => HeldInv'
<1> SUFFICES ASSUME TypeInv, HeldInv, [Next]_vars PROVE HeldInv'
    OBVIOUS
<1>1. TypeOK BY DEF TypeInv
<1>2. ASSUME UNCHANGED <<req, lock>> PROVE HeldInv'
      BY <1>2, HeldFrame DEF HeldInv
<1>3. CASE Outside
      BY <1>2, <1>3 DEF Outside, Remove, Unplug, Plug, Delete, DeviceJoins
<1>4. CASE UNCHANGED vars BY <1>2, <1>4 DEF vars
<1>5. ASSUME NEW r \in Requests, Begins(r) PROVE HeldInv'
  <2>1. Only(r) BY <1>1, <1>5, CreateBeginStep, AddBeginStep, CleanupBeginStep DEF Begins
  <2>2. UNCHANGED lock BY <1>5 DEF Begins, CreateBegin, AddBegin, CleanupBegin
  <2>3. Held(r)'
    <3>1. req'[r].pc \in {"lock", "clean"} \/ (req'[r].nodes = {} /\ req'[r].kind # "add")
          BY <1>1, <1>5, CreateBeginStep, AddBeginStep, CleanupBeginStep DEF Begins
    <3> QED BY <3>1 DEF Held, Past, Missing, Wanted
  <2>4. ASSUME NEW q \in Requests \ {r} PROVE Held(q)'
    <3>1. req'[q] = req[q] BY <1>1, <2>1, OnlyFrame DEF TypeOK
    <3> QED BY <2>2, <3>1, HeldFrame DEF HeldInv
  <2> QED BY <2>3, <2>4 DEF HeldInv
<1>6. ASSUME NEW r \in Requests, Lock(r) \/ RequestStep(r) PROVE HeldInv'
  <2>1. CASE End(r)
    <3>1. Only(r) /\ Held(r)' BY <1>1, <2>1, EndInv DEF ReqInv
    <3>2. \A q \in Requests \ {r} : req'[q] = req[q] BY <1>1, <3>1, OnlyFrame DEF TypeOK
    <3> QED BY <1>6, <3>1, <3>2, HeldFrame, LocksKept DEF HeldInv
  <2>2. CASE Lock(r)
    <3>1. Only(r) /\ Held(r)' BY <1>1, <2>2, LockStep, LockHeld
    <3>2. \A q \in Requests \ {r} : req'[q] = req[q] BY <1>1, <3>1, OnlyFrame DEF TypeOK
    <3> QED BY <1>6, <3>1, <3>2, HeldFrame, LocksKept DEF HeldInv
  <2>3. CASE RequestStep(r) /\ Stays(r)
    <3>1. Only(r) /\ Held(r)'
      <4>1. req[r].pc \notin {"free", "lock"}
            BY <2>3 DEF RequestStep, CreateCheck, CreateProbe, CreateCommit, AddCheck,
               AddProbe, AddReverse, AddCommit, Apply, Verify, Clean, Undo, CleanupEnd
      <4>2. CASE req[r].pc = "clean" BY <2>3, <4>2 DEF Stays, Held, Past
      <4>3. CASE Past(r) BY <2>3, <4>3, HeldKept DEF Stays, HeldInv
      <4> QED BY <2>3, <4>1, <4>2, <4>3 DEF Stays, Past
    <3>2. \A q \in Requests \ {r} : req'[q] = req[q] BY <1>1, <3>1, OnlyFrame DEF TypeOK
    <3> QED BY <1>6, <3>1, <3>2, HeldFrame, LocksKept DEF HeldInv
  <2> QED BY <1>6, <2>1, <2>2, <2>3, RequestStays
<1> QED BY <1>3, <1>4, <1>5, <1>6, NextParts

\* A node that a request has not written, or has restored, has no address or the one that
\* it had when the request got it.
Unwritten(r) ==
    Past(r) => \A n \in req[r].nodes \ req[r].applied : dropin[n] \in {NoAddr, req[r].was[n]}
Clear(r) ==
    /\ req[r].pc \notin Claiming \cup {"undo"} => req[r].applied = {}
    /\ req[r].kind = "add" => \A m, n \in req[r].nodes : m = n
LeftInv == \A r \in Requests : Clear(r) /\ Unwritten(r)

\* The own request: what was noted stays, and what was written is remembered.
LEMMA OwnLeft ==
    ASSUME TypeInv, LeftInv, "hang" \notin Ops, "rollbackFails" \notin Ops,
           NEW r \in Requests, RequestStep(r), ~End(r)
    PROVE  Clear(r)' /\ Unwritten(r)'
<1>1. TypeOK /\ Aimed(r) /\ Clear(r) /\ Unwritten(r) BY DEF TypeInv, LeftInv
<1>2. Stays(r) BY RequestStays
<1>3. req[r] \in Request /\ dropin \in [Nodes -> Address \cup {NoAddr}]
      BY <1>1, RequestTyped DEF TypeOK
<1>4. req[r].pc \notin {"free", "lock"}
      BY DEF RequestStep, CreateCheck, CreateProbe, CreateCommit, AddCheck,
             AddProbe, AddReverse, AddCommit, Apply, Verify, Clean, Undo, CleanupEnd
<1>5. ASSUME req'[r].applied = req[r].applied, req'[r].was = req[r].was, UNCHANGED dropin,
             req'[r].pc \in Claiming \cup {"undo"} \/ req[r].applied = {},
             req[r].pc # "clean"
      PROVE  Clear(r)' /\ Unwritten(r)'
  <2>1. Clear(r)' BY <1>1, <1>2, <1>5 DEF Clear, Stays
  <2>2. Unwritten(r)' BY <1>1, <1>2, <1>4, <1>5 DEF Unwritten, Stays, Past
  <2> QED BY <2>1, <2>2
<1>6. CASE CreateCheck(r) \/ CreateProbe(r)
  <2>1. req'[r].applied = req[r].applied /\ req'[r].was = req[r].was
        BY <1>1, <1>6, CreateCheckFields, CreateProbeFields
  <2>2. UNCHANGED dropin /\ req[r].pc \in {"check", "probe"}
        BY <1>6 DEF CreateCheck, CreateProbe
  <2>3. req[r].applied = {} BY <1>1, <2>2 DEF Clear, Claiming
  <2> QED BY <1>5, <2>1, <2>2, <2>3 DEF Claiming
<1>7. CASE AddCheck(r) \/ AddProbe(r)
  <2>1. req'[r].applied = req[r].applied /\ req'[r].was = req[r].was
        BY <1>1, <1>7, AddCheckFields, AddProbeFields
  <2>2. UNCHANGED dropin /\ req[r].pc \in {"check", "probe"}
        BY <1>7 DEF AddCheck, AddProbe
  <2>3. req[r].applied = {} BY <1>1, <2>2 DEF Clear, Claiming
  <2> QED BY <1>5, <2>1, <2>2, <2>3 DEF Claiming
<1>8. CASE CreateCommit(r) \/ AddCommit(r) \/ AddReverse(r)
  <2>1. PICK pc \in {"commit", "undo"} : Goes(r, pc)
        BY <1>8 DEF CreateCommit, AddCommit, AddReverse
  <2>2. /\ req'[r].applied = req[r].applied /\ req'[r].was = req[r].was
        /\ req'[r].pc = pc
        BY <1>1, <2>1, GoesFields
  <2>3. UNCHANGED dropin /\ req[r].pc \in {"commit", "reverse"}
        BY <1>8 DEF CreateCommit, AddCommit, AddReverse
  <2> QED BY <1>5, <2>2, <2>3 DEF Claiming
<1>9. ASSUME NEW n \in Nodes, Apply(r, n) PROVE Clear(r)' /\ Unwritten(r)'
  <2>1. req[r].pc = "apply" /\ req'[r].pc \in Claiming \cup {"undo"}
        BY <1>1, <1>9, ApplyStep DEF Apply, Claiming
  <2>2. Clear(r)' BY <1>1, <1>2, <2>1 DEF Clear, Stays
  <2>3. /\ req[r].applied \subseteq req'[r].applied /\ req'[r].was = req[r].was
        /\ UNCHANGED files \/ n \in req'[r].applied
        BY <1>1, <1>9, ApplyFields
  <2>4. ASSUME NEW m \in Nodes, m \notin req'[r].applied PROVE dropin'[m] = dropin[m]
    <3>1. CASE UNCHANGED files BY <3>1
    <3>2. CASE m # n
      <4>1. UNCHANGED files \/ Applied(n, AddressOf(r, n)) BY <1>9 DEF Apply
      <4> QED BY <1>1, <3>1, <3>2, <4>1, ScriptTouches
    <3> QED BY <2>3, <2>4, <3>1, <3>2
  <2>5. req'[r].nodes = req[r].nodes /\ req[r].nodes \subseteq Nodes /\ Past(r)
        BY <1>2, <1>3, <2>1 DEF Stays, Request, Past
  <2>6. Unwritten(r)' BY <1>1, <2>3, <2>4, <2>5 DEF Unwritten
  <2> QED BY <2>2, <2>6
<1>10. ASSUME NEW n \in Nodes, Verify(r, n) PROVE Clear(r)' /\ Unwritten(r)'
  <2>1. req'[r].applied = req[r].applied /\ req'[r].was = req[r].was
        BY <1>1, <1>10, VerifyFields
  <2>2. UNCHANGED dropin /\ req[r].pc = "verify" BY <1>10 DEF Verify
  <2>3. req'[r].pc \in Claiming \cup {"undo"} BY <1>1, <1>10, VerifyStep DEF Claiming
  <2> QED BY <1>5, <2>1, <2>2, <2>3 DEF Claiming
<1>11. ASSUME NEW n \in Nodes, Clean(r, n) PROVE Clear(r)' /\ Unwritten(r)'
  <2>1. req'[r].applied = req[r].applied BY <1>1, <1>11, CleanFields
  <2>2. req[r].pc = "clean" /\ req'[r].pc = "clean" BY <1>2, <1>11 DEF Clean, Stays
  <2> QED BY <1>1, <1>2, <2>1, <2>2 DEF Clear, Unwritten, Stays, Past, Claiming
<1>12. CASE Undo(r)
  <2>1. req[r].pc = "undo" /\ req'[r].pc = "undo" BY <1>1, <1>12, UndoStep DEF Undo
  <2>2. PICK n \in req[r].applied : /\ RolledBack(n) \/ NotRolledBack
                                    /\ req'[r].applied = req[r].applied \ {n}
                                    /\ req'[r].was = req[r].was
        BY <1>1, <1>12, UndoFields
  <2>3. n \in Nodes /\ req[r].nodes \subseteq Nodes BY <1>3 DEF Request
  <2>4. dropin'[n] = NoAddr /\ \A m \in Nodes : m # n => dropin'[m] = dropin[m]
        BY <1>3, <2>2, <2>3 DEF RolledBack, NotRolledBack
  <2>5. Clear(r)' BY <1>1, <1>2, <2>1 DEF Clear, Stays
  <2>6. Unwritten(r)'
    <3> SUFFICES ASSUME NEW m \in req[r].nodes, m \notin req'[r].applied
                 PROVE  dropin'[m] \in {NoAddr, req'[r].was[m]}
        BY <1>2 DEF Unwritten, Stays
    <3>1. CASE m = n BY <2>4, <3>1
    <3>2. CASE m # n BY <1>1, <2>1, <2>2, <2>3, <2>4, <3>2 DEF Unwritten, Past
    <3> QED BY <3>1, <3>2
  <2> QED BY <2>5, <2>6
<1>13. CASE CleanupEnd(r) BY <1>13 DEF CleanupEnd
<1> QED BY <1>6, <1>7, <1>8, <1>9, <1>10, <1>11, <1>12, <1>13 DEF RequestStep

\* Another request's script writes on its own nodes; what it undoes has no address.
LEMMA OthersLeft ==
    ASSUME TypeInv, HeldInv, LeftInv, "rollbackFails" \notin Ops,
           NEW r \in Requests, Lock(r) \/ RequestStep(r), Only(r), NEW q \in Requests \ {r}
    PROVE  Clear(q)' /\ Unwritten(q)'
<1>1. TypeOK /\ Aimed(r) /\ Clear(q) /\ Unwritten(q) BY DEF TypeInv, LeftInv
<1>2. req'[q] = req[q] BY <1>1, OnlyFrame DEF TypeOK
<1>3. Clear(q)' BY <1>1, <1>2 DEF Clear
<1>4. req[r] \in Request /\ dropin \in [Nodes -> Address \cup {NoAddr}]
      /\ req[q].nodes \subseteq Nodes
      BY <1>1, RequestTyped DEF TypeOK, Request
<1>5. ASSUME Past(q), NEW m \in req[q].nodes PROVE dropin'[m] \in {NoAddr, dropin[m]}
  <2>1. CASE UNCHANGED files BY <2>1
  <2>2. ASSUME NEW n \in Nodes, RolledBack(n) \/ NotRolledBack
        PROVE  dropin'[m] \in {NoAddr, dropin[m]}
        BY <1>4, <1>5, <2>2 DEF RolledBack, NotRolledBack
  <2>3. ASSUME NEW n \in Nodes, Apply(r, n) PROVE dropin'[m] = dropin[m]
    <3>1. n \in req[r].nodes /\ Past(r) BY <1>1, <2>3 DEF Apply, Aimed, Past
    <3>2. m # n BY <1>1, <1>5, <3>1, Alone DEF HeldInv
    <3>3. UNCHANGED files \/ Applied(n, AddressOf(r, n)) BY <2>3 DEF Apply
    <3> QED BY <1>1, <1>4, <2>1, <3>2, <3>3, ScriptTouches
  <2>4. CASE Lock(r) \/ CreateCheck(r) \/ CreateProbe(r) \/ CreateCommit(r) \/ AddCheck(r)
             \/ AddProbe(r) \/ AddReverse(r) \/ AddCommit(r) \/ CleanupEnd(r)
             \/ \E n \in Nodes : Verify(r, n)
        BY <2>1, <2>4 DEF Lock, CreateCheck, CreateProbe, CreateCommit, AddCheck, AddProbe,
                          AddReverse, AddCommit, CleanupEnd, Verify
  <2>5. CASE Undo(r) BY <1>4, <2>1, <2>2, <2>5 DEF Undo, Request
  <2>6. CASE \E n \in Nodes : Clean(r, n) BY <2>2, <2>6 DEF Clean
  <2> QED BY <2>3, <2>4, <2>5, <2>6 DEF RequestStep
<1>6. Unwritten(q)' BY <1>1, <1>2, <1>5 DEF Unwritten, Past
<1> QED BY <1>3, <1>6

LEMMA LeftStep ==
    ASSUME "hang" \notin Ops, "rollbackFails" \notin Ops
    PROVE  TypeInv /\ HeldInv /\ LeftInv /\ [Next]_vars => LeftInv'
<1> SUFFICES ASSUME TypeInv, HeldInv, LeftInv, [Next]_vars PROVE LeftInv'
    OBVIOUS
<1>1. TypeOK BY DEF TypeInv
<1>2. ASSUME UNCHANGED <<req, dropin>> PROVE LeftInv'
      BY <1>2 DEF LeftInv, Clear, Unwritten, Past
<1>3. CASE Outside
      BY <1>2, <1>3 DEF Outside, Remove, Unplug, Plug, Delete, DeviceJoins
<1>4. CASE UNCHANGED vars BY <1>2, <1>4 DEF vars
<1>5. ASSUME NEW r \in Requests, Begins(r) PROVE LeftInv'
  <2>1. Only(r) BY <1>1, <1>5, CreateBeginStep, AddBeginStep, CleanupBeginStep DEF Begins
  <2>2. UNCHANGED dropin BY <1>5 DEF Begins, CreateBegin, AddBegin, CleanupBegin
  <2>3. req'[r].applied = {}
    <3>1. NoRequest \in Request BY NoRequestTyped
    <3>2. ASSUME NEW S \in SUBSET Nodes, NEW ix \in [Nodes -> 0..MaxSlot], CreateBegin(r, S, ix)
          PROVE  req'[r].applied = {}
          BY <1>1, <3>2 DEF CreateBegin, NoRequest, TypeOK
    <3>3. ASSUME NEW c \in Clusters, NEW n \in Nodes, NEW net \in BOOLEAN, AddBegin(r, c, n, net)
          PROVE  req'[r].applied = {}
          BY <1>1, <3>3 DEF AddBegin, NoRequest, TypeOK
    <3>4. ASSUME NEW c \in Clusters, CleanupBegin(r, c) PROVE req'[r].applied = {}
          BY <1>1, <3>4 DEF CleanupBegin, NoRequest, TypeOK
    <3> QED BY <1>5, <3>2, <3>3, <3>4 DEF Begins
  <2>4. /\ req'[r].pc \in {"lock", "clean"} \/ req'[r].nodes = {}
        /\ req'[r].kind = "add" => \A m, n \in req'[r].nodes : m = n
    <3>1. ASSUME NEW S \in SUBSET Nodes, NEW ix \in [Nodes -> 0..MaxSlot], CreateBegin(r, S, ix)
          PROVE  req'[r].kind = "create" /\ (req'[r].pc = "lock" \/ req'[r].nodes = {})
          BY <1>1, <3>1, CreateBeginStep
    <3>2. ASSUME NEW c \in Clusters, NEW n \in Nodes, NEW net \in BOOLEAN, AddBegin(r, c, n, net)
          PROVE  req'[r].pc = "lock" /\ req'[r].nodes = {n}
          BY <1>1, <3>2, AddBeginStep
    <3>3. ASSUME NEW c \in Clusters, CleanupBegin(r, c)
          PROVE  req'[r].kind = "delete" /\ req'[r].pc = "clean"
          BY <1>1, <3>3, CleanupBeginStep
    <3> QED BY <1>5, <3>1, <3>2, <3>3 DEF Begins
  <2>5. Clear(r)' /\ Unwritten(r)' BY <2>3, <2>4 DEF Clear, Unwritten, Past
  <2>6. ASSUME NEW q \in Requests \ {r} PROVE Clear(q)' /\ Unwritten(q)'
    <3>1. req'[q] = req[q] BY <1>1, <2>1, OnlyFrame DEF TypeOK
    <3> QED BY <2>2, <3>1 DEF LeftInv, Clear, Unwritten, Past
  <2> QED BY <2>5, <2>6 DEF LeftInv
<1>6. ASSUME NEW r \in Requests, Lock(r) \/ RequestStep(r) PROVE LeftInv'
  <2>1. CASE End(r)
    <3>1. Only(r) /\ req'[r] = NoRequest BY <1>1, <2>1, EndStep
    <3>2. Clear(r)' /\ Unwritten(r)' BY <3>1 DEF NoRequest, Clear, Unwritten, Past
    <3> QED BY <1>6, <3>1, <3>2, OthersLeft DEF LeftInv
  <2>2. CASE Lock(r)
    <3>1. /\ Only(r) /\ req'[r].pc \in {"lock", "check"} /\ req'[r].nodes = req[r].nodes
          /\ req'[r].kind = req[r].kind
          BY <1>1, <2>2, LockStep
    <3>2. req'[r].applied = req[r].applied /\ (req'[r].pc = "check" => req'[r].was = Noted(r))
          BY <1>1, <2>2, LockFields
    <3>3. req[r].pc = "lock" /\ UNCHANGED dropin BY <2>2 DEF Lock
    <3>4. Clear(r)' BY <3>1, <3>2, <3>3 DEF LeftInv, Clear, Claiming
    <3>5. Unwritten(r)'
      <4>1. \A n \in req[r].nodes : Noted(r)[n] = dropin[n]
            BY <1>1, RequestTyped DEF Noted, Request
      <4> QED BY <3>1, <3>2, <3>3, <4>1 DEF Unwritten, Past
    <3> QED BY <1>6, <3>1, <3>4, <3>5, OthersLeft DEF LeftInv
  <2>3. CASE RequestStep(r) /\ ~End(r)
    <3>1. Only(r) BY <2>3, RequestStays DEF Stays
    <3> QED BY <1>6, <2>3, <3>1, OwnLeft, OthersLeft DEF LeftInv
  <2> QED BY <1>6, <2>1, <2>2, <2>3
<1> QED BY <1>3, <1>4, <1>5, <1>6, NextParts

Leaves ==
    \A r \in Requests :
        req[r].pc \notin {"free", "clean", "lock"} /\ req'[r].pc = "free" =>
            \A n \in req[r].nodes :
                member'[n] # NoRow \/ dropin'[n] \in {NoAddr, req[r].was[n]}

LEMMA EndLeaves ==
    ASSUME TypeInv, LeftInv, Next
    PROVE  Leaves
<1> SUFFICES ASSUME NEW r \in Requests, req[r].pc \notin {"free", "clean", "lock"},
                    req'[r].pc = "free", NEW n \in req[r].nodes
             PROVE  member'[n] # NoRow \/ dropin'[n] \in {NoAddr, req[r].was[n]}
    BY DEF Leaves
<1>1. TypeOK /\ Aimed(r) /\ Clear(r) /\ Unwritten(r) BY DEF TypeInv, LeftInv
<1>2. n \in Nodes BY <1>1, RequestTyped DEF Request
<1>3. ASSUME req[r].applied = {}, UNCHANGED dropin
      PROVE  dropin'[n] \in {NoAddr, req[r].was[n]}
      BY <1>1, <1>3 DEF Unwritten, Past
<1>4. RequestStep(r)
  <2>1. CASE Outside
        BY <2>1 DEF Outside, Remove, Unplug, Plug, Delete, DeviceJoins
  <2>2. ASSUME NEW q \in Requests, Begins(q) PROVE FALSE
    <3>1. Only(q) /\ req'[q].pc # "free"
          BY <1>1, <2>2, CreateBeginStep, AddBeginStep, CleanupBeginStep DEF Begins
    <3>2. q # r => req'[r] = req[r] BY <1>1, <3>1, OnlyFrame DEF TypeOK
    <3> QED BY <3>1, <3>2
  <2>3. ASSUME NEW q \in Requests, Lock(q) PROVE FALSE
    <3>1. Only(q) /\ req'[q].pc # "free" BY <1>1, <2>3, LockStep
    <3>2. q # r => req'[r] = req[r] BY <1>1, <3>1, OnlyFrame DEF TypeOK
    <3> QED BY <3>1, <3>2
  <2>4. ASSUME NEW q \in Requests \ {r}, RequestStep(q) PROVE FALSE
    <3>1. Only(q) BY <1>1, <2>4, RequestStays, EndStep DEF Stays
    <3>2. req'[r] = req[r] BY <1>1, <3>1, OnlyFrame DEF TypeOK
    <3> QED BY <3>2
  <2> QED BY <2>1, <2>2, <2>3, <2>4, NextParts
<1>5. End(r) BY <1>4, RequestStays DEF Stays
<1>6. CASE UNCHANGED dropin /\ req[r].pc \in {"check", "probe"}
  <2>1. req[r].applied = {} BY <1>1, <1>6 DEF Clear, Claiming
  <2> QED BY <1>3, <1>6, <2>1
<1>7. CASE Undo(r)
  <2>1. CASE req[r].applied = {} /\ UNCHANGED dropin BY <1>3, <2>1
  <2>2. ASSUME NEW m \in req[r].applied, req' = [req EXCEPT ![r].applied = @ \ {m}]
        PROVE  FALSE
    <3>1. req'[r].pc = req[r].pc BY <1>1, <2>2, RequestTyped DEF TypeOK, Request
    <3> QED BY <3>1
  <2> QED BY <1>7, <2>1, <2>2 DEF Undo
<1>8. CASE CreateCommit(r)
  <2>1. PICK c \in Clusters : Formed(r, c)
    <3>1. ~Goes(r, "undo") BY <1>1, GoesFields
    <3> QED BY <1>8, <3>1 DEF CreateCommit, Formed
  <2>2. member'[n] = [c |-> c, i |-> req[r].ix[n]] BY <1>2, <2>1 DEF Formed
  <2>3. req[r].ix[n] \in Nat BY <1>1, <1>8 DEF CreateCommit, Aimed, Slots
  <2> QED BY <2>2, <2>3, ConstantsAssumption
<1>9. CASE AddCommit(r)
  <2>1. PICK m \in req[r].nodes : member' = [member EXCEPT ![m] = [c |-> req[r].c, i |-> req[r].ix[m]]]
    <3>1. ~Goes(r, "undo") BY <1>1, GoesFields
    <3> QED BY <1>9, <3>1 DEF AddCommit
  <2>2. m = n BY <1>1, <1>9, <2>1 DEF Clear, AddCommit
  <2>3. member'[n] = [c |-> req[r].c, i |-> req[r].ix[n]] BY <1>1, <1>2, <2>1, <2>2 DEF TypeOK
  <2>4. req[r].c \in Clusters /\ req[r].ix[n] \in Nat BY <1>1, <1>9 DEF AddCommit, Aimed, Slots
  <2> QED BY <2>3, <2>4, ConstantsAssumption
<1>10. ASSUME NEW m \in Nodes, Apply(r, m) \/ Verify(r, m) PROVE FALSE
       BY <1>1, <1>10, ApplyStep, VerifyStep
<1>11. ~AddReverse(r) BY <1>1, GoesFields DEF AddReverse
<1> QED BY <1>4, <1>6, <1>7, <1>8, <1>9, <1>10, <1>11
    DEF RequestStep, CreateCheck, CreateProbe, AddCheck, AddProbe, Clean, CleanupEnd

LEMMA LeftInit == Init => HeldInv /\ LeftInv
<1> SUFFICES ASSUME Init PROVE HeldInv /\ LeftInv
    OBVIOUS
<1>1. \A r \in Requests : req[r] = NoRequest BY DEF Init
<1> QED BY <1>1 DEF NoRequest, HeldInv, Held, LeftInv, Clear, Unwritten, Past

\* A request that fails, at whatever point, leaves none of its addresses on its nodes,
\* unless a script hangs or a rollback fails (clusters.py, _apply_configs and
\* _rollback_configs): the nodes it has written are all remembered and worked through.
THEOREM FailureClean ==
    ASSUME "hang" \notin Ops, "rollbackFails" \notin Ops
    PROVE  Spec => FailureLeavesNothing
<1>1. TypeInv /\ LeftInv /\ [Next]_vars => [Leaves]_vars BY EndLeaves
<1> QED BY <1>1, TypeInit, TypeStep, HeldStep, LeftInit, LeftStep, PTL
    DEF Spec, FailureLeavesNothing, Leaves
=============================================================================
