-------------------------- MODULE TransactionsProofs --------------------------
(***************************************************************************)
(* Proofs about Transactions for callbacks that await every nested block    *)
(* before they go on and never catch the error of a plain query: for every  *)
(* engine, any number of blocks, writes and faults.  The first part is the  *)
(* protocol on its own, the second its promise, NestedTransaction.          *)
(***************************************************************************)
EXTENDS Transactions, SequenceTheorems, WellFoundedInduction, TLAPS

Sequential == Overlap = FALSE /\ Swallow = FALSE

Places == {"idle", "body", "threw", "undone", "resolved", "rejected", "leaked"}

\* The places of a block whose writes are lost, or that never opened.
Lost == {"idle", "undone", "rejected", "leaked"}

---------------------------------------------------------------------------
(* Types. *)

ClientTypes ==
  /\ pc \in [Blocks -> Places]
  /\ parent \in [Nested -> Blocks]
  /\ raised \in [Blocks -> BOOLEAN]
  /\ counter \in 0..N /\ poisoned \in BOOLEAN
  /\ owner \in [Writes -> Blocks \cup {Nobody}] /\ inDoubt \in BOOLEAN

ServerTypes ==
  /\ began \in BOOLEAN /\ aborted \in BOOLEAN /\ dead \in BOOLEAN
  /\ readonly \in BOOLEAN
  /\ stack \in Seq(Nested)
  /\ layer \in [Blocks -> SUBSET Writes] /\ durable \in SUBSET Writes

\* The type invariant is the client's part, the server's and the fault count.
LEMMA TypeParts ==
  TypeOK <=> engine \in Engines /\ ClientTypes /\ ServerTypes /\ faults \in 0..MaxFaults
BY DEF TypeOK, ClientTypes, ServerTypes, Places

\* The same, of the next state.
LEMMA TypePartsNext ==
  TypeOK' <=> engine' \in Engines /\ ClientTypes' /\ ServerTypes' /\ faults' \in 0..MaxFaults
BY DEF TypeOK, ClientTypes, ServerTypes, Places

\* A named savepoint that is open has a depth in the stack.
LEMMA DepthOfOpen ==
  ASSUME TypeOK, NEW c \in Nested, IsOpen(c)
  PROVE  Depth(c) \in 1..Len(stack) /\ stack[Depth(c)] = c /\ stack # <<>>
<1>1. stack \in Seq(Nested)
  BY DEF TypeOK
<1>2. DOMAIN stack = 1..Len(stack)
  BY <1>1
<1>3. Depth(c) \in DOMAIN stack /\ stack[Depth(c)] = c
  BY DEF Depth, IsOpen
<1>4. stack # <<>>
  BY <1>1, <1>2, <1>3
<1> QED BY <1>2, <1>3, <1>4

\* SAVEPOINT preserves the server's types.
LEMMA SavepointTypes ==
  ASSUME TypeOK, NEW c \in Nested, ServerSavepoint(c)
  PROVE  ServerTypes'
<1>1. stack \in Seq(Nested)
  BY DEF TypeOK
<1>2. Append(stack, c) \in Seq(Nested)
  BY <1>1
<1> QED BY <1>1, <1>2 DEF ServerSavepoint, ServerTypes, TypeOK

\* ROLLBACK TO preserves the server's types.
LEMMA RollbackToTypes ==
  ASSUME TypeOK, NEW c \in Nested, IsOpen(c), ServerRollbackTo(c)
  PROVE  ServerTypes'
<1>1. stack \in Seq(Nested) /\ Depth(c) \in 1..Len(stack)
  BY DepthOfOpen DEF TypeOK
<1>2. SubSeq(stack, 1, Depth(c)) \in Seq(Nested)
  BY <1>1, SubSeqProperties
<1>3. layer' \in [Blocks -> SUBSET Writes]
  BY DEF ServerRollbackTo, TypeOK
<1> QED BY <1>2, <1>3 DEF ServerRollbackTo, ServerTypes, TypeOK

\* RELEASE preserves the server's types.
LEMMA ReleaseTypes ==
  ASSUME TypeOK, NEW c \in Nested, IsOpen(c), ServerRelease(c)
  PROVE  ServerTypes'
<1> DEFINE d == Depth(c)
           kept == UNION {layer[b] : b \in Above(d)}
           below == IF d = 1 THEN 0 ELSE stack[d - 1]
           atOnce == d = 1 /\ ~began
<1>1. stack \in Seq(Nested) /\ d \in 1..Len(stack)
  BY DepthOfOpen DEF TypeOK
<1>2. stack' \in Seq(Nested)
  <2>1. SubSeq(stack, 1, d - 1) \in Seq(Nested)
    BY <1>1, SubSeqProperties
  <2> QED BY <2>1 DEF ServerRelease
<1>3. kept \in SUBSET Writes
  <2>1. Above(d) \subseteq Nested
    BY <1>1 DEF Above
  <2>2. Nested \subseteq Blocks
    BY BoundsAssumption DEF Nested, Blocks
  <2> QED BY <2>1, <2>2 DEF TypeOK
<1>4. layer' = [b \in Blocks |->
                  CASE b \in Above(d) -> {}
                    [] b = below /\ ~atOnce -> layer[b] \cup kept
                    [] OTHER -> layer[b]]
  BY DEF ServerRelease
<1>5. layer' \in [Blocks -> SUBSET Writes]
  <2> HIDE DEF kept, below, atOnce, d
  <2>1. layer \in [Blocks -> SUBSET Writes]
    BY DEF TypeOK
  <2> QED BY <1>3, <1>4, <2>1
<1>6. durable' \in SUBSET Writes
  <2>1. durable' = IF atOnce THEN durable \cup kept ELSE durable
    BY DEF ServerRelease
  <2>2. durable \in SUBSET Writes
    BY DEF TypeOK
  <2> HIDE DEF kept, atOnce
  <2> QED BY <1>3, <2>1, <2>2
<1>7. UNCHANGED <<began, aborted, dead, readonly>>
  BY DEF ServerRelease
<1> QED BY <1>2, <1>5, <1>6, <1>7 DEF ServerTypes, TypeOK

\* A write preserves the server's types.
LEMMA WriteTypes ==
  ASSUME TypeOK, NEW w \in Writes, ServerWrite(w)
  PROVE  ServerTypes'
<1>1. stack \in Seq(Nested) /\ Nested \subseteq Blocks /\ 0 \in Blocks
  BY BoundsAssumption DEF TypeOK, Nested, Blocks
<1>2. Top \in Blocks
  BY <1>1 DEF Top
<1> QED BY <1>2 DEF ServerWrite, ServerTypes, TypeOK

\* The end of the transaction preserves the server's types.
LEMMA EndTypes ==
  ASSUME TypeOK, ServerEnd(Uncommitted, FALSE) \/ ServerEnd({}, FALSE)
                   \/ ServerEnd(Uncommitted, readonly) \/ ServerEnd({}, readonly),
         dead' \in BOOLEAN
  PROVE  ServerTypes'
<1>1. Uncommitted \in SUBSET Writes
  BY DEF Uncommitted, TypeOK
<1>2. durable' \in SUBSET Writes /\ readonly' \in BOOLEAN
  BY <1>1 DEF ServerEnd, TypeOK
<1>3. began' = FALSE /\ aborted' = FALSE /\ stack' = <<>> /\ layer' = Empty
  BY DEF ServerEnd
<1>4. layer' \in [Blocks -> SUBSET Writes]
  BY <1>3 DEF Empty
<1>5. stack' \in Seq(Nested)
  BY <1>3
<1> QED BY <1>2, <1>3, <1>4, <1>5 DEF ServerTypes

\* A failing command preserves the types of all it touches.
LEMMA FaultTypes ==
  ASSUME TypeOK, NEW kinds, Fault(kinds)
  PROVE  ServerTypes' /\ faults' \in 0..MaxFaults
<1>1. ServerTypes'
  BY DEF Fault, ServerTypes, TypeOK, Empty
<1>2. faults' \in 0..MaxFaults
  BY BoundsAssumption DEF Fault, TypeOK
<1> QED BY <1>1, <1>2

\* The commands that are refused preserve the types of all they touch.
LEMMA RefusedTypes ==
  ASSUME TypeOK, Refused \/ \E c \in Nested : NoSuchSavepoint(c)
  PROVE  ServerTypes' /\ UNCHANGED faults
BY DEF Refused, NoSuchSavepoint, server, ServerTypes, TypeOK


\* The engine is chosen once.
LEMMA EngineStays == [Next]_vars => engine' = engine
BY DEF Next, Begin, Driver, Leave, Use, Finished, vars

\* Every step preserves the type invariant.
LEMMA TypeStep ==
  ASSUME TypeOK, [Next]_vars
  PROVE  TypeOK'
<1>0. Nested \subseteq Blocks /\ 0 \in Blocks /\ N \in Nat /\ MaxFaults \in Nat
  BY BoundsAssumption DEF Nested, Blocks
<1>e. engine' \in Engines
  BY EngineStays DEF TypeOK
<1> USE <1>0, <1>e
<1>1. CASE BeginPooled
  <2>1. CASE BeginSucceeds
    BY <1>1, <2>1 DEF BeginPooled, BeginSucceeds, Goto, TypeOK
  <2>2. CASE NoConnection
    BY <1>1, <2>2, FaultTypes, TypeParts, TypePartsNext DEF BeginPooled, NoConnection, Goto, ClientTypes, Places
  <2>3. CASE Fault({"stmt", "dead"}) /\ Goto(0, "threw")
    BY <1>1, <2>3, FaultTypes, TypeParts, TypePartsNext DEF BeginPooled, Goto, ClientTypes, Places
  <2> QED BY <1>1, <2>1, <2>2, <2>3 DEF BeginPooled
<1>2. CASE BeginSqlite
  <2>1. CASE BeginSucceeds
    BY <1>2, <2>1 DEF BeginSqlite, BeginSucceeds, Goto, TypeOK
  <2>2. CASE Fault({"stmt"}) /\ Goto(0, "rejected")
    BY <1>2, <2>2, FaultTypes, TypeParts, TypePartsNext DEF BeginSqlite, Goto, ClientTypes, Places
  <2>3. CASE /\ faults < MaxFaults /\ faults' = faults + 1
             /\ began' = TRUE /\ Goto(0, "threw")
             /\ UNCHANGED <<aborted, dead, readonly, stack, layer, durable>>
    BY <1>2, <2>3 DEF BeginSqlite, Goto, TypeOK
  <2> QED BY <1>2, <2>1, <2>2, <2>3 DEF BeginSqlite
<1>3. ASSUME NEW b \in Blocks, NEW w \in Writes, Query(b, w)
      PROVE  TypeOK'
  <2>1. ClientTypes'
    BY <1>3, TypeParts DEF Query, Raise, ClientTypes, ModesAssumption
  <2>2. ServerTypes' /\ faults' \in 0..MaxFaults
    <3>1. CASE UNCHANGED <<owner, server, faults>>
      BY <3>1, TypeParts DEF server, ServerTypes
    <3>2. CASE ServerWrite(w) /\ UNCHANGED <<raised, faults>>
      BY <3>2, WriteTypes, TypeParts
    <3>3. CASE Refused \/ Fault({"stmt", "txn", "dead"})
      BY <3>3, RefusedTypes, FaultTypes, TypeParts
    <3> QED BY <1>3, <3>1, <3>2, <3>3 DEF Query
  <2> QED BY <2>1, <2>2, TypePartsNext
<1>4. ASSUME NEW b \in Blocks, QueryReadonly(b) \/ NestRefused(b)
      PROVE  TypeOK'
  <2>1. CASE QueryReadonly(b)
    BY <2>1, ModesAssumption DEF QueryReadonly, Raise, TypeOK
  <2>2. CASE NestRefused(b)
    BY <2>2 DEF NestRefused, server, TypeOK
  <2> QED BY <1>4, <2>1, <2>2
<1>5. ASSUME NEW b \in Blocks, NEW c \in Nested, Nest(b, c)
      PROVE  TypeOK'
  <2>1. ClientTypes'
    <3>1. pc' \in [Blocks -> Places]
      BY <1>5, TypeParts DEF Nest, Goto, ClientTypes, Places
    <3>2. parent' \in [Nested -> Blocks] /\ raised' \in [Blocks -> BOOLEAN]
      BY <1>5, TypeParts DEF Nest, ClientTypes
    <3>3. counter' \in 0..N
      BY <1>5 DEF Nest, Nested
    <3> QED BY <1>5, <3>1, <3>2, <3>3, TypeParts DEF Nest, ClientTypes
  <2>2. ServerTypes' /\ faults' \in 0..MaxFaults
    <3>1. CASE ServerSavepoint(c) /\ UNCHANGED <<raised, faults>>
      BY <3>1, SavepointTypes, TypeParts
    <3>2. CASE Refused
      BY <3>2, RefusedTypes, TypeParts
    <3>3. CASE Fault(IF SavepointFaults THEN {"stmt", "dead"} ELSE {"dead"})
      BY <3>3, FaultTypes
    <3>4. CASE UNCHANGED <<server, faults>>
      BY <3>4, TypeParts DEF server, ServerTypes
    <3> QED BY <1>5, <3>1, <3>2, <3>3, <3>4 DEF Nest
  <2> QED BY <2>1, <2>2, TypePartsNext
<1>6. ASSUME NEW c \in Nested, ReturnNested(c)
      PROVE  TypeOK'
  <2>1. ClientTypes'
    BY <1>6, TypeParts DEF ReturnNested, Goto, ClientTypes, Places
  <2>2. ServerTypes' /\ faults' \in 0..MaxFaults
    <3>1. CASE IsOpen(c) /\ ServerRelease(c) /\ UNCHANGED faults
      BY <3>1, ReleaseTypes, TypeParts
    <3>2. CASE Refused \/ NoSuchSavepoint(c) \/ Fault({"stmt", "dead"})
      BY <3>2, RefusedTypes, FaultTypes, TypeParts
    <3> QED BY <1>6, <3>1, <3>2 DEF ReturnNested
  <2> QED BY <2>1, <2>2, TypePartsNext
<1>7. ASSUME NEW b \in Blocks, Throw(b)
      PROVE  TypeOK'
  BY <1>7 DEF Throw, Goto, server, TypeOK
<1>8. ASSUME NEW c \in Nested, RollbackTo(c)
      PROVE  TypeOK'
  <2>1. ClientTypes'
    <3>1. pc' \in [Blocks -> Places] /\ poisoned' \in BOOLEAN
      BY <1>8, TypeParts DEF RollbackTo, Goto, ClientTypes, Places
    <3>2. raised' \in [Blocks -> BOOLEAN]
      BY <1>8, TypeParts DEF RollbackTo, RejectTo, ClientTypes
    <3> QED BY <1>8, <3>1, <3>2, TypeParts DEF RollbackTo, ClientTypes
  <2>2. ServerTypes' /\ faults' \in 0..MaxFaults
    <3>1. CASE IsOpen(c) /\ ServerRollbackTo(c) /\ UNCHANGED faults
      BY <3>1, RollbackToTypes, TypeParts
    <3>2. CASE UNCHANGED <<server, faults>>
      BY <3>2, TypeParts DEF server, ServerTypes
    <3>3. CASE NoSuchSavepoint(c) \/ Fault({"stmt", "dead"})
      BY <3>3, RefusedTypes, FaultTypes, TypeParts
    <3> QED BY <1>8, <3>1, <3>2, <3>3 DEF RollbackTo
  <2> QED BY <2>1, <2>2, TypePartsNext
<1>9. ASSUME NEW c \in Nested, ReleaseUndone(c)
      PROVE  TypeOK'
  <2>1. ClientTypes'
    BY <1>9, TypeParts DEF ReleaseUndone, RejectTo, Goto, ClientTypes, Places
  <2>2. ServerTypes' /\ faults' \in 0..MaxFaults
    <3>1. CASE IsOpen(c) /\ ServerRelease(c) /\ UNCHANGED faults
      BY <3>1, ReleaseTypes, TypeParts
    <3>2. CASE Refused \/ NoSuchSavepoint(c) \/ Fault({"stmt", "dead"})
      BY <3>2, RefusedTypes, FaultTypes, TypeParts
    <3> QED BY <1>9, <3>1, <3>2 DEF ReleaseUndone
  <2> QED BY <2>1, <2>2, TypePartsNext
<1>10. CASE ReturnPoisoned
  BY <1>10 DEF ReturnPoisoned, Goto, server, TypeOK
<1>11. CASE Commit
  <2>1. ClientTypes'
    BY <1>11, TypeParts
       DEF Commit, CommitPostgres, CommitMysql, CommitSqlite, CommitAccepted,
           CommitLost, CommitFailed, Goto, ClientTypes, Places
  <2>2. ServerTypes' /\ faults' \in 0..MaxFaults
    <3>1. CASE CommitAccepted
      BY <3>1, EndTypes, TypeParts DEF CommitAccepted, ServerTypes
    <3>2. CASE CommitLost
      <4>1. dead' \in BOOLEAN /\ faults' \in 0..MaxFaults
        BY <3>2, TypeParts DEF CommitLost
      <4>2. ServerEnd(Uncommitted, readonly) \/ ServerEnd({}, readonly)
        BY <3>2 DEF CommitLost
      <4> QED BY <4>1, <4>2, EndTypes
    <3>3. CASE UNCHANGED <<server, faults>>
      BY <3>3, TypeParts DEF server, ServerTypes
    <3>4. CASE ServerEnd({}, FALSE) /\ UNCHANGED dead /\ faults' \in {faults, faults + 1}
               /\ (faults' = faults + 1 => faults < MaxFaults)
      BY <3>4, EndTypes, TypeParts DEF ServerTypes
    <3>5. CASE Fault({"stmt"})
      BY <3>5, FaultTypes
    <3>6. CASE CommitPostgres
      <4>1. CASE dead /\ CommitFailed
        BY <3>3, <4>1 DEF CommitFailed, Refused
      <4>2. CASE /\ ServerEnd({}, FALSE) /\ UNCHANGED <<dead, inDoubt, faults>>
        BY <3>4, <4>2 DEF TypeOK
      <4>3. CASE /\ faults < MaxFaults /\ faults' = faults + 1 /\ ServerEnd({}, FALSE)
                 /\ UNCHANGED <<dead, inDoubt>>
        BY <3>4, <4>3 DEF TypeOK
      <4> QED BY <3>1, <3>2, <3>6, <4>1, <4>2, <4>3 DEF CommitPostgres
    <3>7. CASE CommitMysql
      BY <3>1, <3>2, <3>3, <3>7 DEF CommitMysql, CommitFailed, Refused
    <3>8. CASE CommitSqlite
      BY <3>1, <3>3, <3>5, <3>8 DEF CommitSqlite
    <3> QED BY <1>11, <3>6, <3>7, <3>8 DEF Commit
  <2> QED BY <2>1, <2>2, TypePartsNext
<1>12. CASE RollbackOuter
  <2>1. ClientTypes'
    BY <1>12, TypeParts DEF RollbackOuter, RolledBack, Leaks, Goto, ClientTypes, Places
  <2>2. ServerTypes' /\ faults' \in 0..MaxFaults
    <3>1. CASE RolledBack
      BY <3>1, EndTypes, TypeParts DEF RolledBack, ServerTypes
    <3>2. CASE Leaks
      BY <3>2, TypeParts DEF Leaks, ServerTypes
    <3> QED BY <1>12, <3>1, <3>2 DEF RollbackOuter
  <2> QED BY <2>1, <2>2, TypePartsNext
<1>13. CASE UNCHANGED vars
  BY <1>13 DEF vars, TypeOK
<1>14. CASE \E b \in Blocks : Use(b)
  BY <1>3, <1>4, <1>5, <1>14 DEF Use
<1>15. CASE \E b \in Blocks : Leave(b)
  BY <1>6, <1>7, <1>10, <1>11, <1>15 DEF Leave
<1>16. CASE Begin \/ Driver
  BY <1>1, <1>2, <1>8, <1>9, <1>12, <1>16 DEF Begin, Driver
<1> QED BY <1>13, <1>14, <1>15, <1>16 DEF Next, Finished

\* The initial state is well typed.
LEMMA InitTypes == Init => TypeOK
<1> SUFFICES ASSUME Init PROVE TypeOK
  OBVIOUS
<1>1. engine \in Engines
  BY DEF Init
<1>2. ClientTypes
  BY BoundsAssumption DEF Init, ClientTypes, Places, Nested, Blocks, Nobody
<1>3. faults \in 0..MaxFaults
  BY BoundsAssumption DEF Init
<1>4. layer \in [Blocks -> SUBSET Writes]
  BY DEF Init, Empty
<1>5. ServerTypes
  <2>1. stack \in Seq(Nested)
    BY DEF Init
  <2>2. durable \in SUBSET Writes
    BY DEF Init
  <2>3. began \in BOOLEAN /\ aborted \in BOOLEAN /\ dead \in BOOLEAN /\ readonly \in BOOLEAN
    BY Zenon DEF Init
  <2> QED BY <1>4, <2>1, <2>2, <2>3, Zenon DEF ServerTypes
<1> QED BY <1>1, <1>2, <1>3, <1>5, TypeParts

\* Every variable keeps its type, whatever the callbacks and the engine do.
THEOREM TypeCorrect == Spec => []TypeOK
BY InitTypes, TypeStep, PTL DEF Spec

\* The final ROLLBACK of a block that threw ends in one of two answers and
\* makes nothing durable.
LEMMA RollbackOuterMoves ==
  ASSUME RollbackOuter
  PROVE  /\ pc[0] = "threw" /\ (Goto(0, "rejected") \/ Goto(0, "leaked"))
         /\ UNCHANGED <<parent, counter, poisoned, owner, inDoubt, durable>>
<1>1. durable \cup {} = durable
  OBVIOUS
<1> QED BY <1>1 DEF RollbackOuter, RolledBack, Leaks, ServerEnd

---------------------------------------------------------------------------
(* The inductive invariant. *)

\* The running blocks are a chain: all of them are numbered up to counter,
\* each runs inside a lower block that waits in its body, no running block
\* lies between a block and its parent, and only the innermost one has no
\* running child.
Chain ==
  /\ \A c \in Nested : pc[c] \in Running => c <= counter
  /\ \A c \in Nested : pc[c] \in Running => parent[c] < c /\ pc[parent[c]] = "body"
  /\ \A c \in Nested, b \in Blocks :
       pc[c] \in Running /\ pc[b] \in Running /\ b < c => b <= parent[c]
  /\ \A b \in Blocks, c \in Nested :
       pc[b] \in Running /\ pc[c] \in Running /\ b < c => HasRunning(b)
  /\ \A c \in Nested : pc[c] \in Running => pc[0] = "body"

\* A callback that may send a command does so inside the transaction, unless
\* the connection is dead or the transaction is already doomed.
InTransaction ==
  /\ \A b \in Blocks : InBody(b) => began \/ dead \/ poisoned
  /\ stack # <<>> => began

\* Nothing is durable before COMMIT.
NothingYet ==
  /\ pc[0] \in {"idle", "body", "threw"} => durable = {} \/ inDoubt
  /\ inDoubt => pc[0] \in {"threw", "rejected", "leaked"}
  /\ pc[0] # "undone"

\* Outside the transaction the server is clean, unless ROLLBACK failed.
SettledClean ==
  pc[0] \notin Running \cup {"leaked"} => ~began /\ stack = <<>> /\ ~readonly

IInv ==
  /\ TypeOK /\ Chain /\ InTransaction /\ NothingYet /\ SettledClean
  /\ RejectedLeavesNothing

\* The running blocks lie on one chain: only the innermost sends commands.
LEMMA OnlyInnermost ==
  ASSUME Sequential, Chain, NEW b \in Blocks, NEW c \in Blocks,
         InBody(b), pc[c] \in Running
  PROVE  c <= b
<1>1. pc[b] \in Running /\ ~HasRunning(b)
  BY DEF InBody, Waiting, Sequential, Running
<1>2. c \in Nested => ~(b < c)
  BY <1>1 DEF Chain
<1>3. c \in Nat /\ b \in Nat /\ (c \in Nested \/ c = 0)
  BY BoundsAssumption DEF Blocks, Nested
<1> QED BY <1>2, <1>3

\* A block whose callback has thrown has no running child.
LEMMA ThrownIsInnermost ==
  ASSUME Chain, NEW x \in Blocks, pc[x] # "body"
  PROVE  ~HasRunning(x)
BY DEF Chain, HasRunning

\* The innermost block may move anywhere, out of the chain too.
LEMMA ChainMove ==
  ASSUME TypeOK, Chain, NEW x \in Blocks, pc[x] \in Running, ~HasRunning(x),
         NEW place \in Places, Goto(x, place), UNCHANGED <<parent, counter>>
  PROVE  Chain'
<1>0. /\ Nested \subseteq Blocks /\ Blocks \subseteq Nat /\ 0 \in Blocks
      /\ 0 \notin Nested /\ \A b \in Blocks : b # 0 => b \in Nested
  BY BoundsAssumption DEF Nested, Blocks
<1>1. \A b \in Blocks : b # x => pc'[b] = pc[b]
  BY DEF Goto, TypeOK
<1>2. \A b \in Blocks : pc'[b] \in Running => pc[b] \in Running
  BY <1>1
<1>3. \A c \in Nested : pc[c] \in Running => parent[c] # x
  BY DEF HasRunning
<1>4. parent' = parent /\ counter' = counter /\ parent \in [Nested -> Blocks]
  BY DEF TypeOK
<1>5. (\A c \in Nested : pc[c] \in Running => c <= counter)'
  BY <1>0, <1>2, <1>4 DEF Chain
<1>6. (\A c \in Nested : pc[c] \in Running => parent[c] < c /\ pc[parent[c]] = "body")'
  BY <1>0, <1>1, <1>2, <1>3, <1>4 DEF Chain
<1>7. (\A c \in Nested, b \in Blocks :
         pc[c] \in Running /\ pc[b] \in Running /\ b < c => b <= parent[c])'
  BY <1>0, <1>2, <1>4 DEF Chain
<1>8. ASSUME NEW b \in Blocks, NEW c \in Nested,
             pc'[b] \in Running, pc'[c] \in Running, b < c
      PROVE  HasRunning(b)'
  <2>1. PICK d \in Nested : parent[d] = b /\ pc[d] \in Running
    BY <1>0, <1>2, <1>8 DEF Chain, HasRunning
  <2>2. CASE d # x
    BY <1>0, <1>1, <1>4, <2>1, <2>2 DEF HasRunning
  <2>3. CASE d = x
    <3>1. c # x \/ pc'[x] \in Running
      BY <1>8
    <3>2. c = x => pc'[d] \in Running
      BY <2>3, <1>8
    <3>3. CASE c = x
      BY <3>2, <3>3, <1>4, <2>1 DEF HasRunning
    <3>4. CASE c # x
      <4>1. ~(x < c)
        BY <1>0, <1>2, <1>8 DEF Chain
      <4>2. c < x
        BY <4>1, <3>4, <1>0
      <4>3. c <= parent[x]
        BY <1>0, <1>2, <1>8, <2>1, <2>3, <4>2 DEF Chain
      <4> QED BY <4>3, <2>1, <2>3, <1>8, <1>0
    <3> QED BY <3>3, <3>4
  <2> QED BY <2>2, <2>3
<1>9. (\A b \in Blocks, c \in Nested :
         pc[b] \in Running /\ pc[c] \in Running /\ b < c => HasRunning(b))'
  BY <1>8
<1>10. (\A c \in Nested : pc[c] \in Running => pc[0] = "body")'
  <2> SUFFICES ASSUME NEW c \in Nested, pc'[c] \in Running
               PROVE  pc'[0] = "body"
    OBVIOUS
  <2>1. pc[c] \in Running /\ pc[0] = "body"
    BY <1>0, <1>2 DEF Chain
  <2>2. HasRunning(0)
    BY <1>0, <2>1 DEF Chain, Running
  <2> QED BY <1>0, <1>1, <2>1, <2>2
<1> QED BY <1>5, <1>6, <1>7, <1>9, <1>10 DEF Chain

\* A step that leaves the program counters, the parents and the counter
\* alone leaves the chain alone.
LEMMA ChainStay ==
  ASSUME Chain, UNCHANGED <<pc, parent, counter>>
  PROVE  Chain'
BY DEF Chain, HasRunning

\* A new block becomes the innermost one, or nothing changes in the chain.
LEMMA ChainNest ==
  ASSUME Sequential, TypeOK, Chain,
         NEW b \in Blocks, NEW c \in Nested, Nest(b, c)
  PROVE  Chain'
<1>0. /\ Nested \subseteq Blocks /\ Blocks \subseteq Nat /\ 0 \in Blocks
      /\ 0 \notin Nested /\ \A e \in Blocks : e # 0 => e \in Nested
  BY BoundsAssumption DEF Nested, Blocks
<1>1. /\ c = counter + 1 /\ counter' = c /\ counter \in Nat
      /\ parent' = [parent EXCEPT ![c] = b]
      /\ \E place \in {"body", "rejected"} : pc' = [pc EXCEPT ![c] = place]
  BY BoundsAssumption DEF Nest, Goto, TypeOK
<1>2. pc[c] \notin Running
  BY <1>0, <1>1 DEF Chain
<1>3. pc[b] = "body" /\ b # c /\ pc[b] \in Running
  BY <1>2 DEF Nest, InBody, Running
<1>4. \A e \in Blocks : e # c => pc'[e] = pc[e]
  BY <1>1 DEF TypeOK
<1>5. \A e \in Nested : e # c => parent'[e] = parent[e]
  BY <1>1 DEF TypeOK
<1>6. parent'[c] = b
  BY <1>1 DEF TypeOK
<1>7. \A e \in Blocks : pc[e] \in Running => e <= b
  BY OnlyInnermost DEF Nest
<1>8. b < c
  BY <1>0, <1>1, <1>3 DEF Chain
<1>9. (\A d \in Nested : pc[d] \in Running => d <= counter)'
  BY <1>0, <1>1, <1>4 DEF Chain
<1>10. (\A d \in Nested : pc[d] \in Running => parent[d] < d /\ pc[parent[d]] = "body")'
  <2> SUFFICES ASSUME NEW d \in Nested, pc'[d] \in Running
               PROVE  parent'[d] < d /\ pc'[parent'[d]] = "body"
    OBVIOUS
  <2>1. CASE d = c
    BY <2>1, <1>3, <1>4, <1>6, <1>8
  <2>2. CASE d # c
    <3>1. pc[d] \in Running /\ parent'[d] = parent[d] /\ parent[d] \in Blocks
      BY <2>2, <1>0, <1>4, <1>5 DEF TypeOK
    <3>2. parent[d] < d /\ pc[parent[d]] = "body"
      BY <3>1 DEF Chain
    <3> QED BY <1>2, <1>4, <3>1, <3>2 DEF Running
  <2> QED BY <2>1, <2>2
<1>11. (\A d \in Nested, e \in Blocks :
          pc[d] \in Running /\ pc[e] \in Running /\ e < d => e <= parent[d])'
  <2> SUFFICES ASSUME NEW d \in Nested, NEW e \in Blocks,
                      pc'[d] \in Running, pc'[e] \in Running, e < d
               PROVE  e <= parent'[d]
    OBVIOUS
  <2>1. CASE d = c
    BY <2>1, <1>0, <1>4, <1>6, <1>7
  <2>2. CASE d # c
    <3>1. e # c
      BY <2>2, <1>0, <1>1, <1>4 DEF Chain
    <3> QED BY <2>2, <3>1, <1>0, <1>4, <1>5 DEF Chain
  <2> QED BY <2>1, <2>2
<1>12. (\A e \in Blocks, d \in Nested :
          pc[e] \in Running /\ pc[d] \in Running /\ e < d => HasRunning(e))'
  <2> SUFFICES ASSUME NEW e \in Blocks, NEW d \in Nested,
                      pc'[e] \in Running, pc'[d] \in Running, e < d
               PROVE  HasRunning(e)'
    OBVIOUS
  <2>1. e # c
    BY <1>0, <1>1, <1>4 DEF Chain
  <2>2. CASE d = c /\ e = b
    BY <2>2, <1>6 DEF HasRunning
  <2>3. CASE d # c \/ e # b
    <3>1. \E f \in Nested : pc[f] \in Running /\ e < f
      <4>1. CASE d # c
        BY <4>1, <1>4, <1>0
      <4>2. CASE d = c /\ e # b
        <5>1. e < b
          BY <4>2, <2>1, <1>0, <1>4, <1>7
        <5> QED BY <5>1, <1>0, <1>3
      <4> QED BY <2>3, <4>1, <4>2
    <3>2. PICK g \in Nested : parent[g] = e /\ pc[g] \in Running
      BY <2>1, <3>1, <1>4 DEF Chain, HasRunning
    <3> QED BY <3>2, <1>0, <1>2, <1>4, <1>5 DEF HasRunning
  <2> QED BY <2>2, <2>3
<1>13. (\A d \in Nested : pc[d] \in Running => pc[0] = "body")'
  BY <1>0, <1>3, <1>4 DEF Chain
<1> QED BY <1>9, <1>10, <1>11, <1>12, <1>13 DEF Chain

\* Every step keeps the running blocks a chain.
LEMMA ChainStep ==
  ASSUME Sequential, TypeOK, Chain, [Next]_vars
  PROVE  Chain'
<1>0. Nested \subseteq Blocks /\ 0 \in Blocks /\ 0 \notin Nested
  BY BoundsAssumption DEF Nested, Blocks
<1>1. CASE Begin
  <2>1. PICK place \in Places : pc[0] = "idle" /\ Goto(0, place)
    BY <1>1 DEF Begin, BeginPooled, BeginSqlite, BeginSucceeds, NoConnection, Places
  <2>2. \A c \in Nested : pc'[c] \notin Running
    BY <1>0, <2>1 DEF Chain, Goto, TypeOK
  <2>3. UNCHANGED <<parent, counter>>
    BY <1>1 DEF Begin, BeginPooled, BeginSqlite
  <2> QED BY <2>2, <2>3 DEF Chain, HasRunning
<1>2. ASSUME NEW b \in Blocks, NEW w \in Writes,
             Query(b, w)
      PROVE  Chain'
  BY <1>2, ChainStay DEF Query
<1>3. ASSUME NEW b \in Blocks, QueryReadonly(b) \/ NestRefused(b)
      PROVE  Chain'
  BY <1>3, ChainStay DEF QueryReadonly, NestRefused
<1>4. ASSUME NEW b \in Blocks, NEW c \in Nested, Nest(b, c)
      PROVE  Chain'
  BY <1>4, ChainNest
<1>5. ASSUME NEW c \in Nested, ReturnNested(c)
      PROVE  Chain'
  <2>1. pc[c] \in Running /\ ~HasRunning(c) /\ UNCHANGED <<parent, counter>>
    BY <1>5 DEF ReturnNested, Returns, InBody, Running
  <2>2. Goto(c, "resolved") \/ Goto(c, "threw")
    BY <1>5 DEF ReturnNested
  <2> QED BY <1>0, <2>1, <2>2, ChainMove DEF Places
<1>6. ASSUME NEW b \in Blocks, Throw(b)
      PROVE  Chain'
  <2>1. /\ pc[b] \in Running /\ ~HasRunning(b) /\ UNCHANGED <<parent, counter>>
        /\ Goto(b, "threw")
    BY <1>6 DEF Throw, Waiting, Sequential, Running
  <2> QED BY <2>1, ChainMove DEF Places
<1>7. ASSUME NEW c \in Nested, RollbackTo(c) \/ ReleaseUndone(c)
      PROVE  Chain'
  <2>1. pc[c] \in {"threw", "undone"} /\ UNCHANGED <<parent, counter>>
    BY <1>7 DEF RollbackTo, ReleaseUndone
  <2>2. pc[c] \in Running /\ ~HasRunning(c)
    BY <1>0, <2>1, ThrownIsInnermost DEF Running
  <2>3. Goto(c, "undone") \/ Goto(c, "rejected")
    BY <1>7 DEF RollbackTo, ReleaseUndone
  <2> QED BY <1>0, <2>1, <2>2, <2>3, ChainMove DEF Places
<1>8. CASE Commit \/ ReturnPoisoned
  <2>1. pc[0] \in Running /\ ~HasRunning(0) /\ UNCHANGED <<parent, counter>>
    BY <1>8 DEF Commit, CommitPostgres, CommitMysql, CommitSqlite,
                ReturnPoisoned, Returns, InBody, Running
  <2>2. Goto(0, "resolved") \/ Goto(0, "threw")
    BY <1>8 DEF Commit, CommitPostgres, CommitMysql, CommitSqlite,
                CommitAccepted, CommitLost, CommitFailed, ReturnPoisoned
  <2> QED BY <1>0, <2>1, <2>2, ChainMove DEF Places
<1>9. CASE RollbackOuter
  <2>1. /\ pc[0] = "threw" /\ (Goto(0, "rejected") \/ Goto(0, "leaked"))
        /\ UNCHANGED <<parent, counter>>
    BY <1>9, RollbackOuterMoves
  <2>2. pc[0] \in Running /\ ~HasRunning(0)
    BY <1>0, <2>1, ThrownIsInnermost DEF Running
  <2> QED BY <1>0, <2>1, <2>2, ChainMove DEF Places
<1>10. CASE UNCHANGED vars
  BY <1>10, ChainStay DEF vars
<1> QED BY <1>1, <1>2, <1>3, <1>4, <1>5, <1>6, <1>7, <1>8, <1>9, <1>10
        DEF Next, Driver, Leave, Use, Finished

\* When the outer block is not in its body, no callback can send anything.
LEMMA NoBodyLeft ==
  ASSUME TypeOK, Chain, pc[0] # "body"
  PROVE  \A b \in Blocks : pc[b] # "body" /\ (b \in Nested => pc[b] \notin Running)
BY BoundsAssumption DEF Chain, Running, Blocks, Nested

\* The callbacks that may send a command after block x moved within the
\* chain could do so before, or were waiting for x.
LEMMA InBodyAfterMove ==
  ASSUME Sequential, TypeOK, Chain, NEW x \in Blocks, NEW place \in {"threw", "undone"},
         pc[x] \in Running, Goto(x, place), UNCHANGED parent,
         \A e \in Blocks : e # x => raised'[e] = raised[e],
         NEW b \in Blocks, InBody(b)'
  PROVE  InBody(b)
<1>1. b # x /\ pc[b] = "body" /\ ~raised[b]
  BY DEF InBody, Goto, TypeOK
<1>2. \A c \in Nested : pc[c] \in Running => pc'[c] \in Running
  BY DEF Goto, TypeOK, Running
<1>3. ~Waiting(b)
  BY <1>2 DEF InBody, Waiting, HasRunning
<1> QED BY <1>1, <1>3 DEF InBody

\* Every step keeps the callbacks inside the transaction.
LEMMA InTransactionStep ==
  ASSUME Sequential, TypeOK, TypeOK', Chain, Chain', InTransaction, SettledClean, [Next]_vars
  PROVE  InTransaction'
<1> DEFINE G == began \/ dead \/ poisoned
<1>0. Nested \subseteq Blocks /\ 0 \in Blocks /\ 0 \notin Nested
  BY BoundsAssumption DEF Nested, Blocks
<1>a. pc'[0] # "body" => \A b \in Blocks : ~InBody(b)'
  <2> SUFFICES ASSUME pc'[0] # "body" PROVE \A b \in Blocks : pc'[b] # "body"
    BY DEF InBody
  <2> QED BY BoundsAssumption DEF Chain, Running, Blocks, Nested
<1>1. CASE Begin
  <2>1. CASE began' = TRUE
    BY <2>1 DEF InTransaction
  <2>2. CASE began' # TRUE
    <3>1. /\ pc[0] = "idle" /\ (Goto(0, "rejected") \/ Goto(0, "threw"))
          /\ (stack' = stack \/ stack' = <<>>)
      BY <1>1, <2>2 DEF Begin, BeginPooled, BeginSqlite, BeginSucceeds, NoConnection, Fault
    <3>2. pc'[0] # "body"
      BY <1>0, <3>1 DEF Goto, TypeOK
    <3>3. stack' = <<>>
      <4>1. pc[0] = "idle"
        BY <1>1 DEF Begin, BeginPooled, BeginSqlite
      <4> QED BY <3>1, <4>1 DEF SettledClean, Running
    <3> QED BY <1>a, <3>2, <3>3 DEF InTransaction
  <2> QED BY <2>1, <2>2
<1>2. ASSUME NEW b \in Blocks, NEW w \in Writes, Query(b, w)
      PROVE  InTransaction'
  <2>1. InBody(b) /\ G /\ UNCHANGED <<pc, parent, poisoned>>
    BY <1>2 DEF Query, InTransaction
  <2>2. CASE UNCHANGED <<began, dead, stack>>
    BY <2>1, <2>2 DEF InTransaction
  <2>3. CASE Fault({"stmt", "txn", "dead"}) /\ Raise(b) /\ ~poisoned
    <3>1. raised' = [raised EXCEPT ![b] = TRUE]
      BY <2>3 DEF Raise, Sequential
    <3>2. \A e \in Blocks : ~InBody(e)'
      <4> SUFFICES ASSUME NEW e \in Blocks, InBody(e)' PROVE FALSE
        OBVIOUS
      <4>1. e # b
        BY <3>1 DEF InBody, TypeOK
      <4>2. InBody(e)
        BY <2>1, <3>1, <4>1 DEF InBody, Waiting, HasRunning, TypeOK
      <4>3. e <= b /\ b <= e
        BY <2>1, <4>2, OnlyInnermost DEF InBody, Running
      <4> QED BY <4>1, <4>3, BoundsAssumption DEF Blocks
    <3>3. stack' # <<>> => began'
      BY <2>3 DEF Fault, InTransaction
    <3> QED BY <3>2, <3>3 DEF InTransaction
  <2> QED BY <1>2, <2>2, <2>3 DEF Query, server, ServerWrite, Refused
<1>3. ASSUME NEW b \in Blocks, QueryReadonly(b) \/ NestRefused(b)
      PROVE  InTransaction'
  <2>1. G /\ UNCHANGED <<began, dead, poisoned, stack>>
    BY <1>3 DEF QueryReadonly, NestRefused, server, InTransaction
  <2> QED BY <2>1 DEF InTransaction
<1>4. ASSUME NEW b \in Blocks, NEW c \in Nested, Nest(b, c)
      PROVE  InTransaction'
  <2>1. (began \/ dead) /\ UNCHANGED poisoned
    BY <1>4 DEF Nest, InTransaction
  <2>2. CASE ~dead /\ ServerSavepoint(c)
    BY <2>1, <2>2 DEF ServerSavepoint, InTransaction
  <2>3. CASE UNCHANGED server
    BY <2>1, <2>3 DEF server, InTransaction
  <2>4. CASE Fault(IF SavepointFaults THEN {"stmt", "dead"} ELSE {"dead"})
    BY <2>1, <2>4 DEF Fault, InTransaction
  <2> QED BY <1>4, <2>2, <2>3, <2>4 DEF Nest, Refused
<1>5. ASSUME NEW c \in Nested, ReturnNested(c)
      PROVE  InTransaction'
  <2>1. G /\ UNCHANGED poisoned
    BY <1>0, <1>5 DEF ReturnNested, Returns, InTransaction
  <2>2. CASE IsOpen(c) /\ ServerRelease(c)
    <3>1. stack # <<>> /\ UNCHANGED <<began, dead>>
      BY <2>2, DepthOfOpen DEF ServerRelease
    <3> QED BY <3>1 DEF InTransaction
  <2>3. CASE Refused \/ NoSuchSavepoint(c)
    BY <2>1, <2>3 DEF Refused, NoSuchSavepoint, server, InTransaction
  <2>4. CASE Fault({"stmt", "dead"})
    BY <2>1, <2>4 DEF Fault, InTransaction
  <2> QED BY <1>5, <2>2, <2>3, <2>4 DEF ReturnNested
<1>6. ASSUME NEW b \in Blocks, Throw(b)
      PROVE  InTransaction'
  <2>1. UNCHANGED <<began, dead, poisoned, stack>>
    BY <1>6 DEF Throw, server
  <2>2. \A e \in Blocks : InBody(e)' => InBody(e)
    BY <1>6, InBodyAfterMove DEF Throw, Running, TypeOK
  <2> QED BY <2>1, <2>2 DEF InTransaction
<1>7. ASSUME NEW c \in Nested, RollbackTo(c)
      PROVE  InTransaction'
  <2>1. CASE IsOpen(c) /\ ServerRollbackTo(c) /\ Goto(c, "undone") /\ UNCHANGED <<raised, poisoned>>
    <3>1. stack # <<>> /\ UNCHANGED <<began, dead>>
      BY <2>1, DepthOfOpen DEF ServerRollbackTo
    <3> QED BY <3>1 DEF InTransaction
  <2>2. CASE poisoned' = TRUE /\ (UNCHANGED server \/ NoSuchSavepoint(c) \/ Fault({"stmt", "dead"}))
    BY <2>2 DEF server, NoSuchSavepoint, Fault, InTransaction
  <2> QED BY <1>7, <2>1, <2>2 DEF RollbackTo
<1>8. ASSUME NEW c \in Nested, ReleaseUndone(c)
      PROVE  InTransaction'
  <2>1. CASE IsOpen(c) /\ ServerRelease(c)
    <3>1. stack # <<>> /\ UNCHANGED <<began, dead>>
      BY <2>1, DepthOfOpen DEF ServerRelease
    <3> QED BY <3>1 DEF InTransaction
  <2>2. CASE poisoned' = TRUE /\ (Refused \/ NoSuchSavepoint(c) \/ Fault({"stmt", "dead"}))
    BY <2>2 DEF server, Refused, NoSuchSavepoint, Fault, InTransaction
  <2> QED BY <1>8, <2>1, <2>2 DEF ReleaseUndone
<1>9. CASE ReturnPoisoned \/ RollbackOuter
  <2>1. pc'[0] # "body" /\ (stack' # <<>> => began')
    BY <1>0, <1>9 DEF ReturnPoisoned, RollbackOuter, RolledBack, Leaks, ServerEnd, server,
                      InTransaction, Goto, TypeOK
  <2> QED BY <1>a, <2>1 DEF InTransaction
<1>10. CASE Commit
  <2>1. pc'[0] # "body"
    BY <1>0, <1>10 DEF Commit, CommitPostgres, CommitMysql, CommitSqlite,
                CommitAccepted, CommitLost, CommitFailed, Goto, TypeOK
  <2>2. stack' # <<>> => began'
    BY <1>10 DEF Commit, CommitPostgres, CommitMysql, CommitSqlite, CommitAccepted,
         CommitLost, CommitFailed, ServerEnd, Fault, Refused, server, InTransaction
  <2> QED BY <1>a, <2>1, <2>2 DEF InTransaction
<1>11. CASE UNCHANGED vars
  BY <1>11 DEF vars, InTransaction, InBody, Waiting, HasRunning
<1> QED BY <1>1, <1>2, <1>3, <1>4, <1>5, <1>6, <1>7, <1>8, <1>9, <1>10, <1>11
        DEF Next, Driver, Leave, Use, Finished

\* A command that is refused or fails of itself makes nothing durable.
LEMMA FailureKeepsDurable ==
  ASSUME Refused \/ (\E c \in Nested : NoSuchSavepoint(c)) \/ \E kinds : Fault(kinds)
  PROVE  UNCHANGED <<durable, readonly>>
BY DEF Refused, NoSuchSavepoint, Fault, server

\* RELEASE makes nothing durable inside a transaction.
LEMMA ReleaseKeepsDurable ==
  ASSUME TypeOK, InTransaction, NEW c \in Nested, IsOpen(c), ServerRelease(c)
  PROVE  UNCHANGED <<durable, readonly, began>>
<1>1. began
  BY DepthOfOpen DEF InTransaction
<1> QED BY <1>1 DEF ServerRelease

\* Only COMMIT makes writes durable: every other step leaves them alone.
LEMMA DurableStep ==
  ASSUME TypeOK, Chain, InTransaction, SettledClean, Next,
         ~Commit
  PROVE  UNCHANGED durable /\ UNCHANGED inDoubt
<1>1. CASE Begin
  BY <1>1, FailureKeepsDurable DEF Begin, BeginPooled, BeginSqlite, BeginSucceeds, NoConnection
<1>2. ASSUME NEW b \in Blocks, NEW w \in Writes, Query(b, w)
      PROVE  UNCHANGED durable /\ UNCHANGED inDoubt
  <2>1. CASE ~poisoned /\ ~dead /\ ServerWrite(w)
    <3>1. began
      BY <1>2, <2>1 DEF Query, InTransaction
    <3> QED BY <1>2, <2>1, <3>1 DEF ServerWrite, Query
  <2>2. CASE UNCHANGED server
    BY <1>2, <2>2 DEF server, Query
  <2> QED BY <1>2, <2>1, <2>2, FailureKeepsDurable DEF Query
<1>3. ASSUME NEW b \in Blocks, QueryReadonly(b) \/ NestRefused(b) \/ Throw(b)
      PROVE  UNCHANGED durable /\ UNCHANGED inDoubt
  BY <1>3 DEF QueryReadonly, NestRefused, Throw, server
<1>4. ASSUME NEW b \in Blocks, NEW c \in Nested, Nest(b, c)
      PROVE  UNCHANGED durable /\ UNCHANGED inDoubt
  BY <1>4, FailureKeepsDurable DEF Nest, ServerSavepoint, server
<1>5. ASSUME NEW c \in Nested, ReturnNested(c) \/ RollbackTo(c) \/ ReleaseUndone(c)
      PROVE  UNCHANGED durable /\ UNCHANGED inDoubt
  <2>1. UNCHANGED inDoubt
    BY <1>5 DEF ReturnNested, RollbackTo, ReleaseUndone
  <2>2. CASE UNCHANGED server \/ ServerRollbackTo(c)
    BY <2>1, <2>2 DEF server, ServerRollbackTo
  <2>3. CASE IsOpen(c) /\ ServerRelease(c)
    BY <2>1, <2>3, ReleaseKeepsDurable
  <2>4. CASE Refused \/ NoSuchSavepoint(c) \/ Fault({"stmt", "dead"})
    BY <2>1, <2>4, FailureKeepsDurable
  <2> QED BY <1>5, <2>2, <2>3, <2>4 DEF ReturnNested, RollbackTo, ReleaseUndone
<1>6. CASE ReturnPoisoned \/ RollbackOuter
  BY <1>6, RollbackOuterMoves DEF ReturnPoisoned, server
<1>7. CASE UNCHANGED vars
  BY <1>7 DEF vars
<1> QED BY <1>1, <1>2, <1>3, <1>4, <1>5, <1>6, <1>7 DEF Next, Driver, Leave, Use, Finished

\* COMMIT ends the outer callback's body.
LEMMA CommitMoves ==
  ASSUME TypeOK, Commit
  PROVE  pc[0] = "body" /\ pc'[0] \in {"threw", "resolved"}
<1>1. pc[0] = "body"
  BY DEF Commit, CommitPostgres, CommitMysql, CommitSqlite, Returns, InBody
<1>2. Goto(0, "threw") \/ Goto(0, "resolved")
  BY DEF Commit, CommitPostgres, CommitMysql, CommitSqlite, CommitAccepted,
         CommitLost, CommitFailed
<1> QED BY <1>1, <1>2, BoundsAssumption DEF Goto, TypeOK, Blocks

\* Where the outer block goes: only from idle, from its body or from threw,
\* and out of threw only to an answer.
LEMMA OuterMoves ==
  ASSUME TypeOK, Chain, Next, pc'[0] # pc[0]
  PROVE  \/ pc[0] = "idle" /\ Begin
         \/ pc[0] = "body" /\ pc'[0] = "threw" /\ (Throw(0) \/ ReturnPoisoned \/ Commit)
         \/ pc[0] = "body" /\ pc'[0] = "resolved" /\ Commit
         \/ pc[0] = "threw" /\ pc'[0] \in {"rejected", "leaked"} /\ RollbackOuter
<1>0. Nested \subseteq Blocks /\ 0 \in Blocks /\ 0 \notin Nested
  BY BoundsAssumption DEF Nested, Blocks
<1>1. CASE Begin
  BY <1>1 DEF Begin, BeginPooled, BeginSqlite
<1>2. ASSUME NEW c \in Nested, NEW place, Goto(c, place)
      PROVE  FALSE
  BY <1>0, <1>2 DEF Goto, TypeOK
<1>3. ASSUME NEW b \in Blocks, Throw(b)
      PROVE  b = 0 /\ pc[0] = "body" /\ pc'[0] = "threw"
  BY <1>0, <1>3 DEF Throw, Goto, TypeOK
<1>4. CASE Commit \/ ReturnPoisoned
  BY <1>0, <1>4 DEF Commit, CommitPostgres, CommitMysql, CommitSqlite, CommitAccepted,
                    CommitLost, CommitFailed, ReturnPoisoned, Returns, InBody, Goto, TypeOK
<1>5. CASE RollbackOuter
  BY <1>0, <1>5, RollbackOuterMoves DEF Goto, TypeOK
<1>6. ASSUME NEW c \in Nested,
             ReturnNested(c) \/ RollbackTo(c) \/ ReleaseUndone(c) \/ \E b \in Blocks : Nest(b, c)
      PROVE  FALSE
  BY <1>2, <1>6 DEF ReturnNested, RollbackTo, ReleaseUndone, Nest
<1>7. ASSUME NEW b \in Blocks, QueryReadonly(b) \/ NestRefused(b) \/ \E w \in Writes : Query(b, w)
      PROVE  FALSE
  BY <1>7 DEF QueryReadonly, NestRefused, Query
<1> QED BY <1>1, <1>3, <1>4, <1>5, <1>6, <1>7 DEF Next, Driver, Leave, Use, Finished, vars

\* Nothing is durable before the COMMIT that resolves, or whose answer is lost.
LEMMA NothingYetStep ==
  ASSUME TypeOK, Chain, InTransaction, NothingYet, SettledClean,
         RejectedLeavesNothing, [Next]_vars
  PROVE  NothingYet' /\ RejectedLeavesNothing'
<1>1. CASE UNCHANGED vars
  BY <1>1 DEF vars, NothingYet, RejectedLeavesNothing
<1>2. CASE Next /\ ~Commit
  <2>1. UNCHANGED durable /\ UNCHANGED inDoubt
    BY <1>2, DurableStep
  <2>2. CASE pc'[0] = pc[0]
    BY <2>1, <2>2 DEF NothingYet, RejectedLeavesNothing
  <2>3. CASE Begin /\ pc[0] = "idle"
    <3>1. ~inDoubt /\ durable = {}
      BY <2>3 DEF NothingYet
    <3>2. pc'[0] # "undone"
      <4>1. \E place \in {"body", "rejected", "threw"} : Goto(0, place)
        BY <2>3 DEF Begin, BeginPooled, BeginSqlite, BeginSucceeds, NoConnection
      <4> QED BY <4>1, BoundsAssumption DEF Goto, TypeOK, Blocks
    <3> QED BY <2>1, <3>1, <3>2 DEF NothingYet, RejectedLeavesNothing
  <2>4. CASE pc[0] = "body" /\ pc'[0] = "threw"
    BY <2>1, <2>4 DEF NothingYet, RejectedLeavesNothing
  <2>5. CASE pc[0] = "threw" /\ pc'[0] \in {"rejected", "leaked"}
    BY <2>1, <2>5 DEF NothingYet, RejectedLeavesNothing
  <2> QED BY <1>2, <2>2, <2>3, <2>4, <2>5, OuterMoves
<1>3. CASE Commit
  <2>1. pc[0] = "body" /\ pc'[0] \in {"threw", "resolved"}
    BY <1>3, CommitMoves
  <2>2. durable = {} /\ ~inDoubt
    BY <2>1 DEF NothingYet
  <2>3. CASE CommitLost
    <3>1. pc'[0] = "threw"
      BY <2>3, BoundsAssumption DEF CommitLost, Goto, TypeOK, Blocks
    <3>2. PICK done \in BOOLEAN : inDoubt' = done
                                /\ ServerEnd(IF done THEN Uncommitted ELSE {}, readonly)
      BY <2>3 DEF CommitLost
    <3>3. CASE done = TRUE
      BY <3>1, <3>2, <3>3 DEF NothingYet, RejectedLeavesNothing
    <3>4. CASE done = FALSE
      BY <2>2, <3>1, <3>2, <3>4 DEF ServerEnd, NothingYet, RejectedLeavesNothing
    <3> QED BY <3>3, <3>4
  <2>4. CASE CommitAccepted
    <3>1. pc'[0] = "resolved"
      BY <2>4, BoundsAssumption DEF CommitAccepted, Goto, TypeOK, Blocks
    <3> QED BY <2>2, <2>4, <3>1 DEF CommitAccepted, NothingYet, RejectedLeavesNothing
  <2>5. CASE UNCHANGED inDoubt /\ (UNCHANGED server \/ ServerEnd({}, FALSE) \/ Fault({"stmt"}))
    <3>1. durable' = {} /\ ~inDoubt'
      BY <2>2, <2>5, FailureKeepsDurable DEF server, ServerEnd
    <3> QED BY <2>1, <3>1 DEF NothingYet, RejectedLeavesNothing
  <2> QED BY <1>3, <2>3, <2>4, <2>5
          DEF Commit, CommitPostgres, CommitMysql, CommitSqlite, CommitFailed, Refused
<1> QED BY <1>1, <1>2, <1>3

\* While the outer block is out of its body and does not move, nothing
\* happens at all.
LEMMA OutsideNothingMoves ==
  ASSUME TypeOK, Chain, Next, pc[0] # "body", pc'[0] = pc[0]
  PROVE  UNCHANGED vars
<1>1. \A b \in Blocks : pc[b] # "body" /\ (b \in Nested => pc[b] \notin Running)
  BY NoBodyLeft
<1>2. ~Commit /\ ~ReturnPoisoned /\ ~RollbackOuter
  <2>1. RollbackOuter => pc'[0] # pc[0]
    BY RollbackOuterMoves, BoundsAssumption DEF Goto, TypeOK, Blocks
  <2> QED BY <2>1 DEF Commit, CommitPostgres, CommitMysql, CommitSqlite, ReturnPoisoned,
                      Returns, InBody
<1>3. \A c \in Nested : ~ReturnNested(c) /\ ~RollbackTo(c) /\ ~ReleaseUndone(c)
  BY <1>1, BoundsAssumption DEF ReturnNested, RollbackTo, ReleaseUndone, Returns, InBody,
              Running, Nested, Blocks
<1>4. \A b \in Blocks : /\ ~Throw(b) /\ ~QueryReadonly(b) /\ ~NestRefused(b)
                        /\ \A w \in Writes : ~Query(b, w)
                        /\ \A c \in Nested : ~Nest(b, c)
  BY <1>1 DEF Throw, QueryReadonly, NestRefused, Query, Nest, InBody
<1>5. ~Begin
  <2> SUFFICES ASSUME Begin PROVE FALSE
    OBVIOUS
  <2>1. pc[0] = "idle" /\ \E place \in {"body", "rejected", "threw"} : Goto(0, place)
    BY DEF Begin, BeginPooled, BeginSqlite, BeginSucceeds, NoConnection
  <2> QED BY <2>1, BoundsAssumption DEF Goto, TypeOK, Blocks
<1> QED BY <1>2, <1>3, <1>4, <1>5 DEF Next, Driver, Leave, Use, Finished

\* The server is clean whenever the outer transaction is not running, unless
\* its ROLLBACK failed.
LEMMA SettledCleanStep ==
  ASSUME TypeOK, Chain, SettledClean, [Next]_vars
  PROVE  SettledClean'
<1>1. CASE UNCHANGED vars
  BY <1>1 DEF vars, SettledClean
<1>2. CASE pc[0] \notin Running /\ pc'[0] = pc[0] /\ Next
  BY <1>1, <1>2, OutsideNothingMoves DEF Running
<1>3. CASE Begin /\ pc[0] = "idle"
  <2>1. CASE pc'[0] = "body" \/ pc'[0] = "threw"
    BY <2>1 DEF SettledClean, Running
  <2>2. CASE Fault({"dead"}) \/ Fault({"stmt"})
    BY <1>3, <2>2 DEF Fault, SettledClean, Running
  <2>3. \/ Goto(0, "body") \/ Goto(0, "threw")
        \/ Fault({"dead"}) \/ Fault({"stmt"})
    BY <1>3 DEF Begin, BeginPooled, BeginSqlite, BeginSucceeds, NoConnection
  <2> QED BY <2>1, <2>2, <2>3, BoundsAssumption DEF Goto, TypeOK, Blocks
<1>4. CASE pc'[0] \in Running
  BY <1>4 DEF SettledClean
<1>5. CASE RollbackOuter
  <2>1. CASE RolledBack
    BY <2>1 DEF RolledBack, ServerEnd, SettledClean
  <2>2. CASE Leaks
    BY <2>2, BoundsAssumption DEF Leaks, Goto, TypeOK, Blocks, SettledClean
  <2> QED BY <1>5, <2>1, <2>2 DEF RollbackOuter
<1>6. CASE Commit /\ pc'[0] = "resolved"
  <2>1. ~Goto(0, "threw")
    BY <1>6, BoundsAssumption DEF Goto, TypeOK, Blocks
  <2>2. \E kept : ServerEnd(kept, FALSE)
    BY <1>6, <2>1 DEF Commit, CommitPostgres, CommitMysql, CommitSqlite, CommitAccepted,
                      CommitLost, CommitFailed
  <2> QED BY <2>2 DEF ServerEnd, SettledClean
<1>7. CASE pc[0] \in Running /\ pc'[0] = pc[0]
  BY <1>4, <1>7
<1> QED BY <1>1, <1>2, <1>3, <1>4, <1>5, <1>6, <1>7, OuterMoves DEF Running

---------------------------------------------------------------------------
(* The theorems. *)

\* The strengthened invariant holds in every state of every behaviour.
THEOREM Inductive == ASSUME Sequential PROVE Spec => []IInv
<1>1. Init => IInv
  <2> SUFFICES ASSUME Init PROVE IInv
    OBVIOUS
  <2>1. TypeOK
    BY InitTypes
  <2>2. \A b \in Blocks : pc[b] = "idle"
    BY DEF Init
  <2>3. Nested \subseteq Blocks /\ 0 \in Blocks
    BY BoundsAssumption DEF Nested, Blocks
  <2> QED BY <2>1, <2>2, <2>3 DEF Init, IInv, Chain, InTransaction, NothingYet, SettledClean,
             RejectedLeavesNothing, Running, InBody
<1>2. IInv /\ [Next]_vars => IInv'
  BY TypeStep, ChainStep, InTransactionStep, NothingYetStep, SettledCleanStep DEF IInv
<1> QED BY <1>1, <1>2, PTL DEF Spec

\* A $transaction that rejects has made nothing durable, unless the answer to
\* its COMMIT was lost.
THEOREM RejectionIsClean == ASSUME Sequential PROVE Spec => []RejectedLeavesNothing
<1>1. IInv => RejectedLeavesNothing
  BY DEF IInv
<1> QED BY <1>1, Inductive, PTL

\* The connection is returned outside any transaction, without savepoints and
\* writable, whatever failed before the final ROLLBACK.
THEOREM ConnectionIsClean == ASSUME Sequential PROVE Spec => []ReturnedClean
<1>1. IInv => ReturnedClean
  BY DEF IInv, SettledClean, ReturnedClean, Running
<1> QED BY <1>1, Inductive, PTL

\* No write becomes durable but by the COMMIT of the outer transaction.
THEOREM CommitIsTheOnlyWay == ASSUME Sequential PROVE Spec => DurableOnlyAtCommit
<1>1. IInv /\ [Next]_vars => [durable' # durable => pc[0] = "body" /\ pc'[0] # "body"]_vars
  <2> SUFFICES ASSUME IInv, Next, durable' # durable
               PROVE  pc[0] = "body" /\ pc'[0] # "body"
    BY DEF vars
  <2>1. Commit
    BY DurableStep DEF IInv
  <2> QED BY <2>1, CommitMoves DEF IInv
<1> QED BY <1>1, Inductive, PTL DEF Spec, DurableOnlyAtCommit
---------------------------------------------------------------------------
(***************************************************************************)
(* Proofs that Transactions keeps the promise of NestedTransaction, for any *)
(* number of blocks, writes and faults on every engine.  The stack of        *)
(* savepoints is the chain of running blocks, so a RELEASE or ROLLBACK TO    *)
(* moves or drops exactly one block's layer of writes.  Homes then says in   *)
(* which running block each write would be lost, and at COMMIT the writes at *)
(* home in block 0 are those whose whole chain of blocks was kept.           *)
(***************************************************************************)

\* The numbers of the blocks.
LEMMA BlockNumbers ==
  /\ N \in Nat /\ Nested \subseteq Blocks /\ Blocks \subseteq Nat /\ 0 \in Blocks
  /\ 0 \notin Nested /\ Nobody \notin Blocks
  /\ \A b \in Blocks : b \in Nat /\ (b = 0 \/ b \in Nested)
  /\ \A c \in Nested : c \in Nat /\ c # 0 /\ c \in Blocks
BY BoundsAssumption DEF Nested, Blocks, Nobody

---------------------------------------------------------------------------
(* The stack of savepoints. *)

\* Entries of the stack, which is a sequence of nested blocks.
LEMMA StackEntries ==
  ASSUME TypeOK
  PROVE  /\ Len(stack) \in Nat /\ DOMAIN stack = 1..Len(stack)
         /\ \A i \in 1..Len(stack) : stack[i] \in Nested
BY DEF TypeOK

\* While the stack is the chain, the innermost running block is on top of it
\* and its parent, when that is a nested block, right below.
LEMMA InnermostOnTop ==
  ASSUME TypeOK, Chain, StackIsTheRunningChain, began, ~poisoned,
         NEW c \in Nested, pc[c] \in Running, ~HasRunning(c)
  PROVE  /\ stack # <<>> /\ stack[Len(stack)] = c /\ IsOpen(c) /\ Depth(c) = Len(stack)
         /\ (IF Depth(c) = 1 THEN 0 ELSE stack[Depth(c) - 1]) = parent[c]
<1>0. /\ \A b \in Blocks : b \in Nat /\ (b = 0 \/ b \in Nested)
      /\ \A d \in Nested : d \in Nat /\ d # 0 /\ d \in Blocks
  BY BlockNumbers
<1>1. /\ Len(stack) \in Nat /\ DOMAIN stack = 1..Len(stack)
      /\ \A i \in 1..Len(stack) : stack[i] \in Nested
  BY StackEntries
<1>2. /\ {stack[i] : i \in DOMAIN stack} = {d \in Nested : pc[d] \in Running}
      /\ \A i, j \in DOMAIN stack : i < j => stack[i] < stack[j]
  BY DEF StackIsTheRunningChain
<1>3. PICK k \in 1..Len(stack) : stack[k] = c
  BY <1>1, <1>2
<1>4. \A d \in Nested : pc[d] \in Running => d <= c
  BY <1>0 DEF Chain
<1>5. k = Len(stack)
  <2> SUFFICES ASSUME k < Len(stack) PROVE FALSE
    BY <1>1, <1>3
  <2>1. Len(stack) \in DOMAIN stack /\ c < stack[Len(stack)]
    BY <1>1, <1>2, <1>3
  <2>2. stack[Len(stack)] \in Nested /\ pc[stack[Len(stack)]] \in Running
    BY <1>1, <1>2, <2>1
  <2> QED BY <1>0, <1>4, <2>1, <2>2
<1>6. IsOpen(c) /\ stack # <<>>
  BY <1>1, <1>3 DEF IsOpen
<1>7. Depth(c) = Len(stack)
  <2>1. Depth(c) \in 1..Len(stack) /\ stack[Depth(c)] = c
    BY <1>6, DepthOfOpen
  <2> QED BY <1>0, <1>1, <1>2, <1>3, <1>5, <2>1
<1>8. parent[c] \in Blocks /\ parent[c] < c /\ pc[parent[c]] = "body"
  BY DEF Chain, TypeOK
<1>9. \A d \in Nested : pc[d] \in Running /\ d < c => d <= parent[c]
  BY <1>0 DEF Chain
<1>10. CASE Len(stack) = 1
  <2>1. parent[c] \notin Nested
    <3> SUFFICES ASSUME parent[c] \in Nested PROVE FALSE
      OBVIOUS
    <3>1. PICK i \in DOMAIN stack : stack[i] = parent[c]
      BY <1>2, <1>8 DEF Running
    <3> QED BY <1>0, <1>1, <1>3, <1>8, <1>10, <3>1
  <2> QED BY <1>3, <1>5, <1>6, <1>7, <1>8, <1>10, <2>1, BlockNumbers
<1>11. CASE Len(stack) # 1
  <2> DEFINE n == Len(stack) - 1
  <2>1. n \in 1..Len(stack) /\ n < Len(stack)
    BY <1>1, <1>3, <1>11
  <2>2. stack[n] \in Nested /\ pc[stack[n]] \in Running /\ stack[n] < c
    BY <1>1, <1>2, <1>3, <1>5, <2>1
  <2>3. stack[n] <= parent[c]
    BY <1>9, <2>2
  <2>4. parent[c] \in Nested
    <3>1. stack[n] \in Nat /\ stack[n] # 0
      BY <1>0, <2>2
    <3>2. parent[c] # 0
      BY <2>3, <3>1
    <3> QED BY <1>0, <1>8, <3>2
  <2>5. PICK i \in DOMAIN stack : stack[i] = parent[c]
    BY <1>2, <1>8, <2>4 DEF Running
  <2>9. n \in DOMAIN stack /\ n \in Nat /\ stack[n] \in Nat /\ stack[i] \in Nat
    BY <1>0, <1>1, <2>1, <2>2, <2>5
  <2>6. i \in 1..Len(stack) /\ i # Len(stack)
    BY <1>0, <1>1, <1>3, <1>5, <1>8, <2>5
  <2>7. ~(i < n)
    <3> SUFFICES ASSUME i < n PROVE FALSE
      OBVIOUS
    <3>1. stack[i] < stack[n]
      BY <1>2, <2>5, <2>9
    <3> QED BY <2>3, <2>5, <2>9, <3>1
  <2>8. i = n
    BY <1>1, <2>1, <2>6, <2>7
  <2> QED BY <1>3, <1>5, <1>6, <1>7, <1>11, <2>5, <2>8
<1> QED BY <1>10, <1>11

\* A block that may send a command is the top of the stack.
LEMMA SenderOnTop ==
  ASSUME Sequential, TypeOK, Chain, StackIsTheRunningChain, began, ~poisoned,
         NEW b \in Blocks, InBody(b)
  PROVE  Top = b
<1>1. pc[b] \in Running /\ ~HasRunning(b)
  BY DEF InBody, Waiting, Sequential, Running
<1>2. CASE b \in Nested
  BY <1>1, <1>2, InnermostOnTop DEF Top
<1>3. CASE b = 0
  <2>1. \A c \in Nested : pc[c] \notin Running
    BY <1>3, OnlyInnermost, BlockNumbers
  <2>2. stack = <<>>
    BY <2>1, StackEntries DEF StackIsTheRunningChain, TypeOK
  <2> QED BY <1>3, <2>2 DEF Top
<1> QED BY <1>2, <1>3, BlockNumbers

\* Only the layer of the innermost running block lies above its savepoint.
LEMMA AboveInnermost ==
  ASSUME TypeOK, NEW c \in Nested, stack # <<>>, stack[Len(stack)] = c
  PROVE  Above(Len(stack)) = {c}
<1>1. Len(stack) \in Nat \ {0}
  BY DEF TypeOK
<1>2. Len(stack)..Len(stack) = {Len(stack)}
  BY <1>1
<1> QED BY <1>2 DEF Above

\* Removing the top takes the last block out of the chain.
LEMMA PopsTheLast ==
  ASSUME TypeOK, StackIsTheRunningChain, began, ~poisoned, NEW c \in Nested,
         stack # <<>>, stack[Len(stack)] = c, stack' = SubSeq(stack, 1, Len(stack) - 1)
  PROVE  /\ {stack'[i] : i \in DOMAIN stack'} = {d \in Nested : pc[d] \in Running} \ {c}
         /\ \A i, j \in DOMAIN stack' : i < j => stack'[i] < stack'[j]
<1>1. /\ Len(stack) \in Nat \ {0} /\ DOMAIN stack = 1..Len(stack)
      /\ \A i \in 1..Len(stack) : stack[i] \in Nested
  BY StackEntries DEF TypeOK
<1>2. /\ {stack[i] : i \in DOMAIN stack} = {d \in Nested : pc[d] \in Running}
      /\ \A i, j \in DOMAIN stack : i < j => stack[i] < stack[j]
  BY DEF StackIsTheRunningChain
<1>3. /\ DOMAIN stack' = 1..(Len(stack) - 1)
      /\ \A i \in 1..(Len(stack) - 1) : stack'[i] = stack[i]
  <2>1. stack \in Seq(Nested)
    BY DEF TypeOK
  <2> QED BY <1>1, <2>1
<1>4. \A i \in 1..(Len(stack) - 1) : stack[i] # c
  <2> SUFFICES ASSUME NEW i \in 1..(Len(stack) - 1) PROVE stack[i] # c
    OBVIOUS
  <2>1. i \in DOMAIN stack /\ Len(stack) \in DOMAIN stack /\ i < Len(stack)
    BY <1>1
  <2>2. stack[i] < c /\ c \in Nat
    BY <1>2, <2>1, BlockNumbers
  <2> QED BY <2>2
<1>5. {stack'[i] : i \in DOMAIN stack'} = {stack[i] : i \in DOMAIN stack} \ {c}
  <2>1. \A i \in DOMAIN stack : i \in 1..(Len(stack) - 1) \/ stack[i] = c
    BY <1>1
  <2>2. \A i \in 1..(Len(stack) - 1) : i \in DOMAIN stack
    BY <1>1
  <2> QED BY <1>3, <1>4, <2>1, <2>2
<1>6. \A i \in DOMAIN stack' : i \in DOMAIN stack /\ stack'[i] = stack[i]
  BY <1>1, <1>3
<1> QED BY <1>2, <1>5, <1>6

\* A step that changes neither the stack nor which blocks run keeps them equal.
LEMMA StackStays ==
  ASSUME StackIsTheRunningChain, began' => began, poisoned => poisoned', stack' = stack,
         \A c \in Nested : pc'[c] \in Running <=> pc[c] \in Running
  PROVE  StackIsTheRunningChain'
BY DEF StackIsTheRunningChain

\* A block that moves but goes on running, or block 0, changes no nested
\* block's running.
LEMMA StillRunning ==
  ASSUME TypeOK, NEW b \in Blocks, NEW place, Goto(b, place),
         b \in Nested => pc[b] \in Running /\ place \in Running
  PROVE  \A c \in Nested : pc'[c] \in Running <=> pc[c] \in Running
BY BlockNumbers DEF Goto, TypeOK

\* A failing command that leaves BEGIN open leaves the stack alone.
LEMMA FaultStack ==
  ASSUME NEW kinds, Fault(kinds), began'
  PROVE  began /\ stack' = stack
BY DEF Fault

\* Nest adds the new block on top of the stack.
LEMMA StackNest ==
  ASSUME Sequential, TypeOK, Chain, StackIsTheRunningChain,
         NEW b \in Blocks, NEW c \in Nested, Nest(b, c), began', ~poisoned'
  PROVE  /\ {stack'[i] : i \in DOMAIN stack'} = {d \in Nested : pc'[d] \in Running}
         /\ \A i, j \in DOMAIN stack' : i < j => stack'[i] < stack'[j]
<1>0. \A d \in Nested : d \in Nat
  BY BlockNumbers
<1>1. c = counter + 1 /\ counter \in Nat /\ ~poisoned /\ UNCHANGED poisoned
  BY BoundsAssumption DEF Nest, TypeOK
<1>2. /\ pc[c] \notin Running
      /\ \A d \in Nested : pc[d] \in Running => d < c
  BY <1>0, <1>1 DEF Chain
<1>3. \A d \in Nested : d # c => pc'[d] = pc[d]
  <2>1. Goto(c, "body") \/ Goto(c, "rejected")
    BY DEF Nest
  <2> QED BY <2>1, BlockNumbers DEF Goto, TypeOK
<1>4. CASE ServerSavepoint(c) /\ Goto(c, "body")
  <2>1. began /\ stack' = Append(stack, c) /\ stack \in Seq(Nested) /\ pc'[c] = "body"
    BY <1>4, BlockNumbers DEF ServerSavepoint, Goto, TypeOK
  <2>2. /\ Len(stack) \in Nat /\ DOMAIN stack = 1..Len(stack)
        /\ \A i \in 1..Len(stack) : stack[i] \in Nested
    BY StackEntries
  <2>3. /\ DOMAIN stack' = 1..(Len(stack) + 1)
        /\ \A i \in 1..Len(stack) : stack'[i] = stack[i]
        /\ stack'[Len(stack) + 1] = c
    BY <2>1, <2>2
  <2>4. /\ {stack[i] : i \in DOMAIN stack} = {d \in Nested : pc[d] \in Running}
        /\ \A i, j \in DOMAIN stack : i < j => stack[i] < stack[j]
    BY <1>1, <2>1 DEF StackIsTheRunningChain
  <2>5. {stack'[i] : i \in DOMAIN stack'} = {stack[i] : i \in DOMAIN stack} \cup {c}
    <3>1. \A i \in DOMAIN stack' : i \in 1..Len(stack) \/ i = Len(stack) + 1
      BY <2>2, <2>3
    <3>2. Len(stack) + 1 \in DOMAIN stack' /\ \A i \in 1..Len(stack) : i \in DOMAIN stack'
      BY <2>2, <2>3
    <3> QED BY <2>2, <2>3, <3>1, <3>2
  <2>6. {d \in Nested : pc'[d] \in Running} = {d \in Nested : pc[d] \in Running} \cup {c}
    BY <1>3, <2>1 DEF Running
  <2>7. ASSUME NEW i \in DOMAIN stack', NEW j \in DOMAIN stack', i < j
        PROVE  stack'[i] < stack'[j]
    <3>1. i \in 1..Len(stack) /\ stack'[i] = stack[i]
      BY <2>2, <2>3, <2>7
    <3>2. CASE j \in 1..Len(stack)
      BY <2>2, <2>3, <2>4, <2>7, <3>1, <3>2
    <3>3. CASE j = Len(stack) + 1
      <4>1. stack[i] \in Nested /\ pc[stack[i]] \in Running
        BY <2>2, <2>4, <3>1
      <4> QED BY <1>2, <2>3, <3>1, <3>3, <4>1
    <3> QED BY <2>2, <2>3, <3>2, <3>3
  <2> QED BY <2>4, <2>5, <2>6, <2>7
<1>5. CASE Goto(c, "rejected") /\ began /\ stack' = stack
  <2>1. \A d \in Nested : pc'[d] \in Running <=> pc[d] \in Running
    BY <1>2, <1>3, <1>5, BlockNumbers DEF Goto, TypeOK, Running
  <2> QED BY <1>1, <1>5, <2>1 DEF StackIsTheRunningChain
<1>6. \/ ServerSavepoint(c) /\ Goto(c, "body")
      \/ Goto(c, "rejected") /\ UNCHANGED server
      \/ Goto(c, "rejected") /\ Fault(IF SavepointFaults THEN {"stmt", "dead"} ELSE {"dead"})
  BY DEF Nest, Refused
<1> QED BY <1>4, <1>5, <1>6, FaultStack DEF server

\* Every step keeps the stack the chain of running blocks.
LEMMA StackStep ==
  ASSUME Sequential, TypeOK, Chain, InTransaction, SettledClean,
         StackIsTheRunningChain, [Next]_vars
  PROVE  StackIsTheRunningChain'
<1> SUFFICES ASSUME began', ~poisoned' PROVE StackIsTheRunningChain'
  BY DEF StackIsTheRunningChain
<1>1. CASE Begin
  <2>1. \E place \in {"body", "rejected", "threw"} : Goto(0, place)
    BY <1>1 DEF Begin, BeginPooled, BeginSqlite, BeginSucceeds, NoConnection
  <2>2. stack = <<>> /\ \A c \in Nested : pc[c] \notin Running
    BY <1>1 DEF Begin, BeginPooled, BeginSqlite, SettledClean, Running, Chain
  <2>3. stack' = <<>>
    BY <1>1, <2>2 DEF Begin, BeginPooled, BeginSqlite, BeginSucceeds, NoConnection, Fault
  <2>4. \A c \in Nested : pc'[c] \notin Running
    BY <2>1, <2>2, BlockNumbers DEF Goto, TypeOK
  <2> QED BY <2>3, <2>4 DEF StackIsTheRunningChain
<1>2. ASSUME NEW b \in Blocks, NEW w \in Writes, Query(b, w)
      PROVE  StackIsTheRunningChain'
  <2>1. began /\ stack' = stack
    BY <1>2, FaultStack DEF Query, ServerWrite, Refused, server
  <2> QED BY <1>2, <2>1, StackStays DEF Query
<1>3. ASSUME NEW b \in Blocks, QueryReadonly(b) \/ NestRefused(b)
      PROVE  StackIsTheRunningChain'
  <2>1. UNCHANGED <<pc, began, poisoned, stack>>
    BY <1>3 DEF QueryReadonly, NestRefused, server
  <2> QED BY <2>1, StackStays
<1>4. ASSUME NEW b \in Blocks, NEW c \in Nested, Nest(b, c)
      PROVE  StackIsTheRunningChain'
  BY <1>4, StackNest DEF StackIsTheRunningChain
<1>5. ASSUME NEW c \in Nested, ReturnNested(c)
      PROVE  StackIsTheRunningChain'
  <2>1. pc[c] \in Running /\ ~HasRunning(c) /\ UNCHANGED poisoned
    BY <1>5 DEF ReturnNested, Returns, InBody, Running
  <2>2. CASE ServerRelease(c) /\ Goto(c, "resolved")
    <3>1. began
      BY <2>2 DEF ServerRelease
    <3>2. /\ stack # <<>> /\ stack[Len(stack)] = c
          /\ stack' = SubSeq(stack, 1, Len(stack) - 1)
      BY <2>1, <2>2, <3>1, InnermostOnTop DEF ServerRelease
    <3>3. {d \in Nested : pc'[d] \in Running} = {d \in Nested : pc[d] \in Running} \ {c}
      BY <2>2, BlockNumbers DEF Goto, TypeOK, Running
    <3> QED BY <2>1, <3>1, <3>2, <3>3, PopsTheLast DEF StackIsTheRunningChain
  <2>3. CASE Goto(c, "threw") /\ (Refused \/ NoSuchSavepoint(c) \/ Fault({"stmt", "dead"}))
    <3>1. began /\ stack' = stack
      BY <2>3, FaultStack DEF Refused, NoSuchSavepoint, server
    <3> QED BY <2>1, <2>3, <3>1, StackStays, StillRunning, BlockNumbers DEF Running
  <2> QED BY <1>5, <2>2, <2>3 DEF ReturnNested
<1>6. ASSUME NEW b \in Blocks, Throw(b)
      PROVE  StackIsTheRunningChain'
  <2>1. \A c \in Nested : pc'[c] \in Running <=> pc[c] \in Running
    BY <1>6, StillRunning DEF Throw, Running
  <2> QED BY <1>6, <2>1, StackStays DEF Throw, server
<1>7. ASSUME NEW c \in Nested, RollbackTo(c)
      PROVE  StackIsTheRunningChain'
  <2>1. ServerRollbackTo(c) /\ Goto(c, "undone") /\ UNCHANGED poisoned /\ pc[c] = "threw"
    BY <1>7 DEF RollbackTo
  <2>2. began /\ pc[c] \in Running /\ ~HasRunning(c)
    BY <2>1, ThrownIsInnermost, BlockNumbers DEF ServerRollbackTo, Running
  <2>3. stack' = SubSeq(stack, 1, Len(stack)) /\ stack \in Seq(Nested)
    BY <2>1, <2>2, InnermostOnTop DEF ServerRollbackTo, TypeOK
  <2>4. stack' = stack
    BY <2>3
  <2> QED BY <2>1, <2>2, <2>4, StackStays, StillRunning, BlockNumbers DEF Running
<1>8. ASSUME NEW c \in Nested, ReleaseUndone(c)
      PROVE  StackIsTheRunningChain'
  <2>1. ServerRelease(c) /\ Goto(c, "rejected") /\ UNCHANGED poisoned /\ pc[c] = "undone"
    BY <1>8 DEF ReleaseUndone
  <2>2. began /\ pc[c] \in Running /\ ~HasRunning(c)
    BY <2>1, ThrownIsInnermost, BlockNumbers DEF ServerRelease, Running
  <2>3. /\ stack # <<>> /\ stack[Len(stack)] = c
        /\ stack' = SubSeq(stack, 1, Len(stack) - 1)
    BY <2>1, <2>2, InnermostOnTop DEF ServerRelease
  <2>4. {d \in Nested : pc'[d] \in Running} = {d \in Nested : pc[d] \in Running} \ {c}
    BY <2>1, BlockNumbers DEF Goto, TypeOK, Running
  <2> QED BY <2>1, <2>2, <2>3, <2>4, PopsTheLast DEF StackIsTheRunningChain
<1>9. CASE ReturnPoisoned \/ RollbackOuter
  <2>1. CASE RollbackOuter /\ RolledBack
    BY <2>1 DEF RolledBack, ServerEnd
  <2>2. CASE RollbackOuter /\ Leaks
    <3>1. Goto(0, "leaked") /\ UNCHANGED <<began, stack, poisoned>>
      BY <2>2 DEF RollbackOuter, Leaks
    <3> QED BY <3>1, StackStays, StillRunning, BlockNumbers
  <2>3. CASE ReturnPoisoned
    BY <2>3 DEF ReturnPoisoned
  <2> QED BY <1>9, <2>1, <2>2, <2>3 DEF RollbackOuter
<1>10. CASE Commit
  <2>1. Goto(0, "resolved") \/ Goto(0, "threw")
    BY <1>10 DEF Commit, CommitPostgres, CommitMysql, CommitSqlite, CommitAccepted,
                 CommitLost, CommitFailed
  <2>2. began /\ stack' = stack
    BY <1>10, FaultStack DEF Commit, CommitPostgres, CommitMysql, CommitSqlite,
         CommitAccepted, CommitLost, CommitFailed, ServerEnd, Refused, server
  <2>3. poisoned' = poisoned
    BY <1>10 DEF Commit, CommitPostgres, CommitMysql, CommitSqlite
  <2> QED BY <2>1, <2>2, <2>3, StackStays, StillRunning, BlockNumbers
<1>11. CASE UNCHANGED vars
  BY <1>11, StackStays DEF vars
<1> QED BY <1>1, <1>2, <1>3, <1>4, <1>5, <1>6, <1>7, <1>8, <1>9, <1>10, <1>11
        DEF Next, Driver, Leave, Use, Finished

---------------------------------------------------------------------------
(* Numbers, and a transaction that can still be committed. *)

\* Blocks are numbered in the order they are opened, by older blocks, and
\* only a block that was opened writes.
Numbered ==
  /\ \A c \in Nested : (pc[c] = "idle" <=> c > counter) /\ parent[c] < c
  /\ \A w \in Writes : owner[w] \in Blocks => pc[owner[w]] # "idle"

\* Nothing happens before BEGIN.
Fresh ==
  pc[0] = "idle" =>
    /\ ~aborted /\ ~poisoned /\ layer = Empty
    /\ \A c \in Nested : pc[c] = "idle"

\* postgresql's aborted state never outlives the block it happened in: the
\* callback that goes on is not in it, or is refused by the client.
NotAborted == \A b \in Blocks : InBody(b) => ~aborted \/ poisoned

\* What a step may do to the counters, the parents and the owners.
LEMMA Moves ==
  ASSUME Next
  PROVE  \/ \E b \in Blocks, c \in Nested : Nest(b, c)
         \/ \E b \in Blocks, w \in Writes :
              /\ Query(b, w) /\ owner' = [owner EXCEPT ![w] = b]
              /\ pc[b] = "body" /\ UNCHANGED <<pc, parent, counter>>
         \/ UNCHANGED <<pc, parent, counter, owner>>
         \/ /\ UNCHANGED <<parent, counter, owner>>
            /\ \E x \in Blocks, place \in Places \ {"idle"} :
                 Goto(x, place) /\ (x \in Nested => pc[x] \in Running)
<1> DEFINE Moved == /\ UNCHANGED <<parent, counter, owner>>
                    /\ \E x \in Blocks, place \in Places \ {"idle"} :
                         Goto(x, place) /\ (x \in Nested => pc[x] \in Running)
<1>1. CASE Begin
  <2>1. Goto(0, "body") \/ Goto(0, "rejected") \/ Goto(0, "threw")
    BY <1>1 DEF Begin, BeginPooled, BeginSqlite, BeginSucceeds, NoConnection
  <2>2. UNCHANGED <<parent, counter, owner>>
    BY <1>1 DEF Begin, BeginPooled, BeginSqlite
  <2> QED BY <2>1, <2>2, BlockNumbers DEF Places
<1>2. ASSUME NEW b \in Blocks, NEW w \in Writes, Query(b, w)
      PROVE  \/ owner' = [owner EXCEPT ![w] = b] /\ pc[b] = "body"
             \/ UNCHANGED owner
  BY <1>2 DEF Query, InBody
<1>3. ASSUME NEW b \in Blocks, NEW w \in Writes, Query(b, w)
      PROVE  UNCHANGED <<pc, parent, counter>>
  BY <1>3 DEF Query
<1>4. ASSUME NEW b \in Blocks, QueryReadonly(b) \/ NestRefused(b)
      PROVE  UNCHANGED <<pc, parent, counter, owner>>
  BY <1>4 DEF QueryReadonly, NestRefused
<1>5. ASSUME NEW c \in Nested, ReturnNested(c) \/ RollbackTo(c) \/ ReleaseUndone(c)
      PROVE  Moved
  <2>1. \E place \in Places \ {"idle"} : Goto(c, place)
    BY <1>5 DEF ReturnNested, RollbackTo, ReleaseUndone, Places
  <2>2. UNCHANGED <<parent, counter, owner>> /\ pc[c] \in Running
    BY <1>5 DEF ReturnNested, RollbackTo, ReleaseUndone, Returns, InBody, Running
  <2> QED BY <2>1, <2>2, BlockNumbers
<1>6. ASSUME NEW b \in Blocks, Throw(b)
      PROVE  Moved
  BY <1>6 DEF Throw, Running, Places
<1>7. CASE ReturnPoisoned \/ Commit \/ RollbackOuter
  <2>1. Goto(0, "threw") \/ Goto(0, "resolved") \/ Goto(0, "rejected") \/ Goto(0, "leaked")
    BY <1>7, RollbackOuterMoves
       DEF ReturnPoisoned, Commit, CommitPostgres, CommitMysql,
           CommitSqlite, CommitAccepted, CommitLost, CommitFailed
  <2>2. UNCHANGED <<parent, counter, owner>>
    BY <1>7, RollbackOuterMoves
       DEF ReturnPoisoned, Commit, CommitPostgres, CommitMysql, CommitSqlite
  <2> QED BY <2>1, <2>2, BlockNumbers DEF Places
<1>8. CASE UNCHANGED vars
  BY <1>8 DEF vars
<1> HIDE DEF Moved
<1>9. Moved => /\ UNCHANGED <<parent, counter, owner>>
               /\ \E x \in Blocks, place \in Places \ {"idle"} :
                    Goto(x, place) /\ (x \in Nested => pc[x] \in Running)
  BY DEF Moved
<1>10. CASE Moved
  BY <1>9, <1>10
<1>11. CASE Driver
  BY <1>5, <1>7, <1>10, <1>11, <1>9 DEF Driver
<1>12. ASSUME NEW b \in Blocks, Leave(b)
       PROVE  Moved \/ ReturnPoisoned \/ Commit
  BY <1>5, <1>6, <1>12 DEF Leave
<1>13. ASSUME NEW b \in Blocks, Use(b)
       PROVE  \/ \E c \in Nested : Nest(b, c)
              \/ \E w \in Writes : Query(b, w)
              \/ UNCHANGED <<pc, parent, counter, owner>>
  BY <1>4, <1>13 DEF Use
<1> QED BY <1>1, <1>2, <1>3, <1>7, <1>8, <1>9, <1>11, <1>12, <1>13 DEF Next, Finished

\* Numbers and owners are kept by every step.
LEMMA NumberedStep ==
  ASSUME TypeOK, Numbered, [Next]_vars
  PROVE  Numbered'
<1>0. /\ \A b \in Blocks : b \in Nat /\ (b = 0 \/ b \in Nested)
      /\ \A d \in Nested : d \in Nat /\ d # 0 /\ d \in Blocks
      /\ Nobody \notin Blocks /\ counter \in Nat
      /\ pc \in [Blocks -> Places] /\ parent \in [Nested -> Blocks]
      /\ owner \in [Writes -> Blocks \cup {Nobody}]
  BY BlockNumbers DEF TypeOK, Places
<1>1. CASE UNCHANGED <<pc, parent, counter, owner>>
  BY <1>1 DEF Numbered
<1>2. ASSUME NEW b \in Blocks, NEW c \in Nested, Nest(b, c)
      PROVE  Numbered'
  <2>1. /\ c = counter + 1 /\ counter' = c /\ pc[b] = "body" /\ UNCHANGED owner
        /\ parent' = [parent EXCEPT ![c] = b] /\ (Goto(c, "body") \/ Goto(c, "rejected"))
    BY <1>2 DEF Nest, InBody
  <2>2. b < c
    BY <1>0, <2>1 DEF Numbered
  <2>3. pc'[c] # "idle" /\ \A d \in Blocks : d # c => pc'[d] = pc[d]
    BY <1>0, <2>1 DEF Goto
  <2>4. ASSUME NEW d \in Nested
        PROVE  (pc'[d] = "idle" <=> d > counter') /\ parent'[d] < d
    <3>1. CASE d = c
      BY <1>0, <2>1, <2>2, <2>3, <3>1
    <3>2. CASE d # c
      BY <1>0, <2>1, <2>3, <3>2 DEF Numbered
    <3> QED BY <3>1, <3>2
  <2>5. ASSUME NEW w \in Writes, owner'[w] \in Blocks
        PROVE  pc'[owner'[w]] # "idle"
    BY <1>0, <2>1, <2>3, <2>5 DEF Numbered
  <2> QED BY <2>4, <2>5 DEF Numbered
<1>3. ASSUME NEW b \in Blocks, NEW w \in Writes, owner' = [owner EXCEPT ![w] = b],
             pc[b] = "body", UNCHANGED <<pc, parent, counter>>
      PROVE  Numbered'
  BY <1>0, <1>3 DEF Numbered
<1>4. ASSUME UNCHANGED <<parent, counter, owner>>,
             NEW x \in Blocks, NEW place \in Places \ {"idle"},
             Goto(x, place), x \in Nested => pc[x] \in Running
      PROVE  Numbered'
  <2>1. /\ pc'[x] # "idle" /\ (x \in Nested => pc[x] # "idle")
        /\ \A d \in Blocks : d # x => pc'[d] = pc[d]
    BY <1>0, <1>4 DEF Goto, Running
  <2> QED BY <1>0, <1>4, <2>1 DEF Numbered
<1> QED BY <1>1, <1>2, <1>3, <1>4, Moves DEF vars

\* Nothing happens before BEGIN, and BEGIN does not happen again.
LEMMA FreshStep ==
  ASSUME TypeOK, Chain, Fresh, [Next]_vars
  PROVE  Fresh'
<1>1. CASE UNCHANGED vars
  BY <1>1 DEF vars, Fresh
<1>2. CASE Next /\ pc'[0] = pc[0] /\ pc[0] = "idle"
  BY <1>1, <1>2, OutsideNothingMoves DEF Running
<1>3. CASE Next /\ pc'[0] # pc[0]
  <2>1. pc'[0] # "idle"
    <3>1. Begin => \E place \in {"body", "rejected", "threw"} : Goto(0, place)
      BY DEF Begin, BeginPooled, BeginSqlite, BeginSucceeds, NoConnection
    <3>2. Begin => pc'[0] # "idle"
      BY <3>1, BlockNumbers DEF Goto, TypeOK
    <3> QED BY <1>3, <3>2, OuterMoves
  <2> QED BY <2>1 DEF Fresh
<1> QED BY <1>1, <1>2, <1>3 DEF Fresh

\* No callback can send a command once the outer one has left its body.
LEMMA NobodySends ==
  ASSUME TypeOK', Chain', pc'[0] # "body"
  PROVE  \A b \in Blocks : ~InBody(b)'
<1> SUFFICES \A b \in Blocks : pc'[b] # "body"
  BY DEF InBody
<1> QED BY BoundsAssumption DEF Chain, Running, Blocks, Nested

\* An error that reaches the one callback that may send a command leaves none.
LEMMA RaisedSilences ==
  ASSUME Sequential, TypeOK, Chain, NEW b \in Blocks, InBody(b), Raise(b),
         UNCHANGED <<pc, parent>>
  PROVE  \A e \in Blocks : ~InBody(e)'
<1> SUFFICES ASSUME NEW e \in Blocks, InBody(e)' PROVE FALSE
  OBVIOUS
<1>1. raised' = [raised EXCEPT ![b] = TRUE]
  BY DEF Raise, Sequential
<1>2. e # b
  BY <1>1 DEF InBody, TypeOK
<1>3. InBody(e)
  BY <1>1, <1>2 DEF InBody, Waiting, HasRunning, TypeOK
<1>4. e <= b /\ b <= e
  BY <1>3, OnlyInnermost DEF InBody, Running
<1> QED BY <1>2, <1>4, BlockNumbers

\* A block that throws silences all: those around it wait.
LEMMA ThrownSilences ==
  ASSUME Sequential, TypeOK, Chain, NEW c \in Nested, InBody(c), Goto(c, "threw"),
         UNCHANGED <<parent, raised>>
  PROVE  \A e \in Blocks : ~InBody(e)'
<1> SUFFICES ASSUME NEW e \in Blocks, InBody(e)' PROVE FALSE
  OBVIOUS
<1>1. pc[c] \in Running /\ c \in Blocks
  BY BlockNumbers DEF InBody, Running
<1>2. InBody(e)
  BY <1>1, InBodyAfterMove
<1>3. e <= c /\ c <= e
  BY <1>1, <1>2, OnlyInnermost DEF InBody, Running
<1>4. e # c
  BY <1>1 DEF InBody, Goto, TypeOK
<1> QED BY <1>1, <1>3, <1>4, BlockNumbers

Careful == Sequential /\ SavepointFaults = FALSE

\* Whoever may send a command is not in an aborted transaction.
LEMMA NotAbortedStep ==
  ASSUME Careful, TypeOK, TypeOK', Chain, Chain', Fresh, NotAborted, [Next]_vars
  PROVE  NotAborted'
<1> USE DEF Careful
<1>1. CASE Begin
  <2>1. pc[0] = "idle" /\ ~aborted
    BY <1>1 DEF Begin, BeginPooled, BeginSqlite, Fresh
  <2>2. \/ UNCHANGED aborted
        \/ Goto(0, "rejected") \/ Goto(0, "threw")
    BY <1>1 DEF Begin, BeginPooled, BeginSqlite, BeginSucceeds, NoConnection
  <2>3. aborted' => pc'[0] # "body"
    BY <2>1, <2>2, BlockNumbers DEF Goto, TypeOK
  <2> QED BY <2>3, NobodySends DEF NotAborted
<1>2. ASSUME NEW b \in Blocks, NEW w \in Writes, Query(b, w)
      PROVE  NotAborted'
  <2>1. InBody(b) /\ UNCHANGED <<pc, parent, poisoned>>
    BY <1>2 DEF Query
  <2>2. CASE poisoned
    BY <2>1, <2>2 DEF NotAborted
  <2>3. CASE ServerWrite(w) /\ ~aborted
    BY <2>3 DEF ServerWrite, NotAborted
  <2>4. CASE Raise(b)
    BY <2>1, <2>4, RaisedSilences DEF NotAborted
  <2> QED BY <1>2, <2>2, <2>3, <2>4 DEF Query
<1>3. ASSUME NEW b \in Blocks, QueryReadonly(b)
      PROVE  NotAborted'
  BY <1>3, RaisedSilences DEF QueryReadonly, NotAborted
<1>4. ASSUME NEW b \in Blocks, NestRefused(b)
      PROVE  NotAborted'
  BY <1>4 DEF NestRefused, server, NotAborted
<1>5. ASSUME NEW b \in Blocks, NEW c \in Nested, Nest(b, c)
      PROVE  NotAborted'
  <2>1. InBody(b) /\ ~poisoned /\ ~aborted
    BY <1>5 DEF Nest, NotAborted
  <2>2. ~aborted'
    BY <1>5, <2>1 DEF Nest, ServerSavepoint, Refused, Fault, server
  <2> QED BY <2>2 DEF NotAborted
<1>6. ASSUME NEW c \in Nested, ReturnNested(c)
      PROVE  NotAborted'
  <2>1. InBody(c) /\ UNCHANGED <<parent, raised, poisoned>>
    BY <1>6 DEF ReturnNested, Returns
  <2>2. CASE Goto(c, "threw")
    BY <2>1, <2>2, ThrownSilences DEF NotAborted
  <2>3. CASE ~aborted /\ ServerRelease(c)
    BY <2>3 DEF ServerRelease, NotAborted
  <2> QED BY <1>6, <2>2, <2>3 DEF ReturnNested
<1>7. ASSUME NEW b \in Blocks, Throw(b)
      PROVE  NotAborted'
  <2>1. pc[b] \in Running /\ UNCHANGED <<parent, aborted, poisoned>> /\ Goto(b, "threw")
    BY <1>7 DEF Throw, server, Running
  <2>2. \A e \in Blocks : e # b => raised'[e] = raised[e]
    BY <1>7 DEF Throw, TypeOK
  <2>3. \A e \in Blocks : InBody(e)' => InBody(e)
    BY <2>1, <2>2, InBodyAfterMove
  <2> QED BY <2>1, <2>3 DEF NotAborted
<1>8. ASSUME NEW c \in Nested, RollbackTo(c) \/ ReleaseUndone(c)
      PROVE  NotAborted'
  <2>1. poisoned' \/ ServerRollbackTo(c) \/ (~aborted /\ ServerRelease(c))
    BY <1>8 DEF RollbackTo, ReleaseUndone
  <2> QED BY <2>1 DEF ServerRollbackTo, ServerRelease, NotAborted
<1>9. CASE ReturnPoisoned \/ RollbackOuter \/ Commit
  <2>1. Goto(0, "threw") \/ Goto(0, "resolved") \/ Goto(0, "rejected") \/ Goto(0, "leaked")
    BY <1>9, RollbackOuterMoves
       DEF ReturnPoisoned, Commit, CommitPostgres, CommitMysql,
           CommitSqlite, CommitAccepted, CommitLost, CommitFailed
  <2>2. pc'[0] # "body"
    BY <2>1, BlockNumbers DEF Goto, TypeOK
  <2> QED BY <2>2, NobodySends DEF NotAborted
<1>10. CASE UNCHANGED vars
  BY <1>10 DEF vars, NotAborted, InBody, Waiting, HasRunning
<1> QED BY <1>1, <1>2, <1>3, <1>4, <1>5, <1>6, <1>7, <1>8, <1>9, <1>10
        DEF Next, Driver, Leave, Use, Finished

---------------------------------------------------------------------------
(* Where each write would be lost. *)

Live(b) == pc[b] \in {"body", "threw"}

\* home gives each block the live block whose ROLLBACK TO would drop its
\* writes: itself while it is live, its parent's home once it resolved, none
\* once it was undone.  A savepoint's layer holds the writes at home there.
HomeOf(home) ==
  /\ home \in [Blocks -> Blocks \cup {Nobody}]
  /\ \A b \in Blocks : Live(b) => home[b] = b
  /\ \A b \in Blocks : home[b] \in Blocks => Live(home[b])
  /\ \A c \in Nested : pc[c] = "resolved" => home[c] = home[parent[c]]
  /\ \A c \in Nested : pc[c] \in Lost => home[c] = Nobody
  /\ \A b \in Blocks : layer[b] = {w \in Writes : owner[w] \in Blocks /\ home[owner[w]] = b}

Homes == began /\ ~poisoned /\ pc[0] # "leaked" => \E home : HomeOf(home)

\* A step that moves no block between live, resolved and undone, and touches
\* no write, leaves every home as it is.
LEMMA HomesStay ==
  ASSUME NEW home, HomeOf(home), UNCHANGED <<layer, owner>>,
         \A b \in Blocks : pc'[b] \in {"body", "threw"} <=> Live(b),
         \A c \in Nested : pc'[c] = "resolved" => pc[c] = "resolved" /\ parent'[c] = parent[c],
         \A c \in Nested : pc'[c] \in Lost => pc[c] \in Lost
  PROVE  HomeOf(home)'
BY DEF HomeOf, Live

\* A block that was idle becomes the home of its own writes, of which there
\* are none.
LEMMA HomesNest ==
  ASSUME TypeOK, Numbered, NEW home, HomeOf(home), UNCHANGED <<layer, owner>>,
         NEW c \in Nested, NEW b \in Blocks, pc[c] = "idle", Goto(c, "body"),
         parent' = [parent EXCEPT ![c] = b]
  PROVE  HomeOf([home EXCEPT ![c] = c])'
<1> DEFINE new == [home EXCEPT ![c] = c]
<1>0. /\ \A e \in Blocks : e \in Nat /\ (e = 0 \/ e \in Nested)
      /\ \A d \in Nested : d \in Nat /\ d \in Blocks
      /\ Nobody \notin Blocks /\ counter \in Nat
      /\ pc \in [Blocks -> Places] /\ parent \in [Nested -> Blocks]
      /\ home \in [Blocks -> Blocks \cup {Nobody}]
  BY BlockNumbers DEF TypeOK, Places, HomeOf
<1>1. /\ pc'[c] = "body" /\ \A e \in Blocks : e # c => pc'[e] = pc[e]
      /\ new[c] = c /\ \A e \in Blocks : e # c => new[e] = home[e]
      /\ home[c] = Nobody /\ ~Live(c)
  BY <1>0 DEF Goto, HomeOf, Live, Lost
<1>2. new \in [Blocks -> Blocks \cup {Nobody}]
  BY <1>0
<1>3. ASSUME NEW e \in Blocks
      PROVE  /\ pc'[e] \in {"body", "threw"} => new[e] = e
             /\ new[e] \in Blocks => pc'[new[e]] \in {"body", "threw"}
  <2>1. CASE e = c
    BY <1>0, <1>1, <2>1
  <2>2. CASE e # c
    <3>1. pc'[e] = pc[e] /\ new[e] = home[e]
      BY <1>1, <2>2
    <3>2. home[e] \in Blocks => home[e] # c
      BY <1>1, <3>1 DEF HomeOf
    <3> QED BY <1>1, <3>1, <3>2 DEF HomeOf, Live
  <2> QED BY <2>1, <2>2
<1>4. ASSUME NEW d \in Nested, pc'[d] = "resolved"
      PROVE  new[d] = new[parent'[d]]
  <2>1. d # c /\ pc[d] = "resolved" /\ parent'[d] = parent[d] /\ parent[d] \in Blocks
    BY <1>0, <1>1, <1>4
  <2>2. parent[d] # c
    <3>1. parent[d] < d /\ ~(d > counter) /\ c > counter
      BY <2>1 DEF Numbered
    <3> QED BY <1>0, <2>1, <3>1
  <2> QED BY <1>0, <1>1, <2>1, <2>2 DEF HomeOf
<1>5. ASSUME NEW d \in Nested, pc'[d] \in Lost
      PROVE  new[d] = Nobody
  <2>1. d # c
    BY <1>1, <1>5 DEF Lost
  <2> QED BY <1>0, <1>1, <1>5, <2>1 DEF HomeOf
<1>6. ASSUME NEW e \in Blocks
      PROVE  layer'[e] = {w \in Writes : owner'[w] \in Blocks /\ new[owner'[w]] = e}
  <2>1. layer'[e] = {w \in Writes : owner[w] \in Blocks /\ home[owner[w]] = e} /\ owner' = owner
    BY DEF HomeOf
  <2>2. \A w \in Writes : owner[w] \in Blocks => owner[w] # c
    BY <1>0 DEF Numbered
  <2> HIDE DEF new
  <2>3. \A w \in Writes : owner[w] \in Blocks => new[owner[w]] = home[owner[w]]
    BY <1>1, <2>2
  <2> QED BY <2>1, <2>3
<1> HIDE DEF new
<1>7. HomeOf(new)'
  BY <1>2, <1>3, <1>4, <1>5, <1>6 DEF HomeOf, Live
<1> QED BY <1>7 DEF new

\* A live block c that leaves sends the writes at home in it to another live
\* block, or loses them.
LEMMA HomesMove ==
  ASSUME TypeOK, NEW home, HomeOf(home), UNCHANGED <<owner, parent>>,
         NEW c \in Nested, Live(c), NEW to \in Blocks \cup {Nobody}, to # c,
         \/ to = parent[c] /\ Live(to) /\ Goto(c, "resolved")
         \/ to = Nobody /\ Goto(c, "undone"),
         layer' = [b \in Blocks |-> CASE b = c -> {}
                                     [] b = to /\ b # c -> layer[b] \cup layer[c]
                                     [] OTHER -> layer[b]]
  PROVE  HomeOf([x \in Blocks |-> IF home[x] = c THEN to ELSE home[x]])'
<1> DEFINE new == [x \in Blocks |-> IF home[x] = c THEN to ELSE home[x]]
<1>0. /\ c \in Blocks /\ Nobody \notin Blocks /\ \A d \in Nested : d \in Blocks
      /\ pc \in [Blocks -> Places] /\ parent \in [Nested -> Blocks]
      /\ home \in [Blocks -> Blocks \cup {Nobody}]
  BY BlockNumbers DEF TypeOK, Places, HomeOf
<1>1. /\ pc'[c] \in {"resolved", "undone"} /\ \A e \in Blocks : e # c => pc'[e] = pc[e]
      /\ home[c] = c
      /\ pc'[c] = "resolved" => to = parent[c]
      /\ pc'[c] = "undone" => to = Nobody
      /\ to \in Blocks => pc[to] \in {"body", "threw"} /\ home[to] = to
  BY <1>0 DEF Goto, HomeOf, Live
<1>2. \A x \in Blocks : new[x] = IF home[x] = c THEN to ELSE home[x]
  OBVIOUS
<1>3. new \in [Blocks -> Blocks \cup {Nobody}]
  BY <1>0
<1> HIDE DEF new
<1>4. ASSUME NEW e \in Blocks
      PROVE  /\ pc'[e] \in {"body", "threw"} => new[e] = e
             /\ new[e] \in Blocks => pc'[new[e]] \in {"body", "threw"}
  <2>1. pc'[e] \in {"body", "threw"} => new[e] = e
    BY <1>1, <1>2 DEF HomeOf, Live
  <2>2. new[e] \in Blocks => new[e] # c
    BY <1>2
  <2>3. new[e] \in Blocks => pc[new[e]] \in {"body", "threw"}
    BY <1>1, <1>2 DEF HomeOf, Live
  <2> QED BY <1>1, <2>1, <2>2, <2>3
<1>5. ASSUME NEW d \in Nested, pc'[d] = "resolved"
      PROVE  new[d] = new[parent'[d]]
  <2>1. CASE d = c
    <3>1. parent'[d] = to /\ to \in Blocks
      BY <1>0, <1>1, <1>5, <2>1
    <3> QED BY <1>0, <1>1, <1>2, <2>1, <3>1
  <2>2. CASE d # c
    <3>1. pc[d] = "resolved" /\ parent'[d] = parent[d] /\ parent[d] \in Blocks /\ d \in Blocks
      BY <1>0, <1>1, <1>5, <2>2
    <3>2. home[d] = home[parent[d]]
      BY <3>1 DEF HomeOf
    <3> QED BY <1>2, <3>1, <3>2
  <2> QED BY <2>1, <2>2
<1>6. ASSUME NEW d \in Nested, pc'[d] \in Lost
      PROVE  new[d] = Nobody
  <2>1. CASE d = c
    BY <1>0, <1>1, <1>2, <1>6, <2>1 DEF Lost
  <2>2. CASE d # c
    <3>1. d \in Blocks /\ home[d] = Nobody
      BY <1>0, <1>1, <1>6, <2>2 DEF HomeOf
    <3> QED BY <1>0, <1>2, <3>1
  <2> QED BY <2>1, <2>2
<1>7. ASSUME NEW e \in Blocks
      PROVE  layer'[e] = {w \in Writes : owner'[w] \in Blocks /\ new[owner'[w]] = e}
  <2>1. /\ layer[e] = {w \in Writes : owner[w] \in Blocks /\ home[owner[w]] = e}
        /\ layer[c] = {w \in Writes : owner[w] \in Blocks /\ home[owner[w]] = c}
        /\ owner' = owner
    BY <1>0 DEF HomeOf
  <2>2. CASE e = c
    <3>1. layer'[e] = {}
      BY <1>0, <2>2
    <3>2. \A x \in Blocks : new[x] # c
      BY <1>2
    <3> QED BY <2>1, <2>2, <3>1, <3>2
  <2>3. CASE e # c /\ e = to
    <3>1. layer'[e] = layer[e] \cup layer[c]
      BY <1>0, <2>3
    <3>2. \A x \in Blocks : new[x] = e <=> home[x] = e \/ home[x] = c
      BY <1>2, <2>3
    <3> QED BY <2>1, <3>1, <3>2
  <2>4. CASE e # c /\ e # to
    <3>1. layer'[e] = layer[e]
      BY <1>0, <2>4
    <3>2. \A x \in Blocks : new[x] = e <=> home[x] = e
      BY <1>2, <2>4
    <3> QED BY <2>1, <3>1, <3>2
  <2> QED BY <2>2, <2>3, <2>4
<1>8. HomeOf(new)'
  BY <1>3, <1>4, <1>5, <1>6, <1>7 DEF HomeOf, Live
<1> QED BY <1>8 DEF new

\* A write joins the layer of the block that sends it.
LEMMA HomesWrite ==
  ASSUME TypeOK, NEW home, HomeOf(home), NEW b \in Blocks, NEW w \in Writes,
         pc[b] = "body", owner[w] = Nobody, owner' = [owner EXCEPT ![w] = b],
         layer' = [layer EXCEPT ![b] = @ \cup {w}], UNCHANGED <<pc, parent>>
  PROVE  HomeOf(home)'
<1>0. /\ Nobody \notin Blocks /\ home[b] = b
      /\ owner \in [Writes -> Blocks \cup {Nobody}] /\ layer \in [Blocks -> SUBSET Writes]
  BY BlockNumbers DEF TypeOK, HomeOf, Live
<1>1. /\ owner'[w] = b /\ \A v \in Writes : v # w => owner'[v] = owner[v]
  BY <1>0
<1>2. ASSUME NEW e \in Blocks
      PROVE  layer'[e] = {v \in Writes : owner'[v] \in Blocks /\ home[owner'[v]] = e}
  <2>1. layer[e] = {v \in Writes : owner[v] \in Blocks /\ home[owner[v]] = e}
    BY DEF HomeOf
  <2>2. CASE e = b
    BY <1>0, <1>1, <2>1, <2>2
  <2>3. CASE e # b
    BY <1>0, <1>1, <2>1, <2>3
  <2> QED BY <2>2, <2>3
<1> QED BY <1>2 DEF HomeOf, Live

\* While nothing was lost, every step keeps the layers the writes at home.
LEMMA HomesStep ==
  ASSUME Sequential, TypeOK, Chain, InTransaction, StackIsTheRunningChain,
         SettledClean, Numbered, Fresh, Homes, [Next]_vars
  PROVE  Homes'
<1> SUFFICES ASSUME began', ~poisoned', pc'[0] # "leaked" PROVE \E home : HomeOf(home)'
  BY DEF Homes
<1>l. pc[0] # "leaked"
  <2> SUFFICES ASSUME pc[0] = "leaked" PROVE FALSE
    OBVIOUS
  <2>1. Next
    BY DEF vars
  <2> QED BY <2>1, OuterMoves
<1>0. /\ \A b \in Blocks : b = 0 \/ b \in Nested
      /\ \A d \in Nested : d \in Blocks /\ d # 0
      /\ Nobody \notin Blocks /\ 0 \in Blocks /\ pc \in [Blocks -> Places]
      /\ parent \in [Nested -> Blocks]
  BY BlockNumbers DEF TypeOK, Places
<1>m. ASSUME NEW home, HomeOf(home), UNCHANGED <<layer, owner, parent>>,
             NEW x \in Blocks, NEW place, Goto(x, place),
             \/ Live(x) /\ place \in {"body", "threw"}
             \/ pc[x] = "undone" /\ place = "rejected"
      PROVE  \E h : HomeOf(h)'
  <2>1. pc'[x] = place /\ \A b \in Blocks : b # x => pc'[b] = pc[b]
    BY <1>0, <1>m DEF Goto
  <2>2. \A b \in Blocks : pc'[b] \in {"body", "threw"} <=> Live(b)
    BY <1>m, <2>1 DEF Live
  <2>3. \A c \in Nested : pc'[c] = "resolved" => pc[c] = "resolved" /\ parent'[c] = parent[c]
    BY <1>0, <1>m, <2>1
  <2>4. \A c \in Nested : pc'[c] \in Lost => pc[c] \in Lost
    BY <1>0, <1>m, <2>1 DEF Lost
  <2> QED BY <1>m, <2>2, <2>3, <2>4, HomesStay
<1>1. CASE Begin
  <2> DEFINE home == [b \in Blocks |-> IF b = 0 THEN 0 ELSE Nobody]
  <2>1. /\ ~began /\ layer = Empty /\ \A c \in Nested : pc[c] = "idle"
        /\ UNCHANGED <<owner, parent>>
    BY <1>1 DEF Begin, BeginPooled, BeginSqlite, Fresh, SettledClean, Running
  <2>2. layer' = Empty /\ (Goto(0, "body") \/ Goto(0, "threw"))
    BY <1>1, <2>1 DEF Begin, BeginPooled, BeginSqlite, BeginSucceeds, NoConnection, Fault
  <2>3. pc'[0] \in {"body", "threw"} /\ \A c \in Nested : pc'[c] = "idle"
    BY <1>0, <2>1, <2>2 DEF Goto
  <2>4. \A w \in Writes : owner'[w] \notin Blocks
    <3>1. pc[0] = "idle"
      BY <1>1 DEF Begin, BeginPooled, BeginSqlite
    <3> QED BY <1>0, <2>1, <3>1 DEF Numbered
  <2>5. home \in [Blocks -> Blocks \cup {Nobody}] /\ home[0] = 0
        /\ \A c \in Nested : home[c] = Nobody
    BY <1>0
  <2> HIDE DEF home
  <2>6. \A b \in Blocks : layer'[b] = {w \in Writes : owner'[w] \in Blocks /\ home[owner'[w]] = b}
    BY <2>2, <2>4 DEF Empty
  <2>7. HomeOf(home)'
    BY <1>0, <2>3, <2>5, <2>6 DEF HomeOf, Live
  <2> QED BY <2>7
<1>2. ASSUME NEW b \in Blocks, NEW w \in Writes, Query(b, w)
      PROVE  \E home : HomeOf(home)'
  <2>1. began /\ ~poisoned /\ InBody(b) /\ owner[w] = Nobody /\ UNCHANGED <<pc, parent>>
    BY <1>2, FaultStack DEF Query, ServerWrite, Refused, server
  <2>2. PICK home : HomeOf(home)
    BY <2>1, <1>l DEF Homes
  <2>3. CASE ServerWrite(w) /\ owner' = [owner EXCEPT ![w] = b]
    <3>1. layer' = [layer EXCEPT ![b] = @ \cup {w}]
      BY <2>1, <2>3, SenderOnTop DEF ServerWrite
    <3> QED BY <2>1, <2>2, <2>3, <3>1, HomesWrite DEF InBody
  <2>4. CASE UNCHANGED <<layer, owner>>
    BY <2>1, <2>2, <2>4, HomesStay DEF Live
  <2> QED BY <1>2, <2>3, <2>4 DEF Query, Refused, Fault, server
<1>3. ASSUME NEW b \in Blocks, QueryReadonly(b) \/ NestRefused(b)
      PROVE  \E home : HomeOf(home)'
  <2>1. UNCHANGED <<pc, parent, owner, poisoned, began, layer>>
    BY <1>3 DEF QueryReadonly, NestRefused, server
  <2>2. PICK home : HomeOf(home)
    BY <2>1, <1>l DEF Homes
  <2> QED BY <2>1, <2>2, HomesStay DEF Live
<1>4. ASSUME NEW b \in Blocks, NEW c \in Nested, Nest(b, c)
      PROVE  \E home : HomeOf(home)'
  <2>1. /\ c = counter + 1 /\ parent' = [parent EXCEPT ![c] = b] /\ ~poisoned
        /\ UNCHANGED <<owner, poisoned>>
    BY <1>4 DEF Nest
  <2>2. pc[c] = "idle"
    BY <1>0, <2>1, BoundsAssumption DEF Numbered, TypeOK
  <2>3. began /\ layer' = layer
    BY <1>4 DEF Nest, ServerSavepoint, Refused, Fault, server
  <2>4. PICK home : HomeOf(home)
    BY <2>1, <2>3, <1>l DEF Homes
  <2>5. CASE Goto(c, "body")
    BY <2>1, <2>2, <2>3, <2>4, <2>5, HomesNest
  <2>6. CASE Goto(c, "rejected")
    <3>1. pc'[c] = "rejected" /\ \A e \in Blocks : e # c => pc'[e] = pc[e]
      BY <1>0, <2>6 DEF Goto
    <3>2. \A d \in Nested : d # c => parent'[d] = parent[d]
      BY <1>0, <2>1
    <3> QED BY <1>0, <2>1, <2>2, <2>3, <2>4, <3>1, <3>2, HomesStay DEF Live, Lost
  <2> QED BY <1>4, <2>5, <2>6 DEF Nest
<1>5. ASSUME NEW c \in Nested, ReturnNested(c)
      PROVE  \E home : HomeOf(home)'
  <2>1. /\ pc[c] = "body" /\ pc[c] \in Running /\ ~HasRunning(c)
        /\ UNCHANGED <<poisoned, owner, parent>>
    BY <1>5 DEF ReturnNested, Returns, InBody, Running
  <2>2. began
    BY <1>5, FaultStack DEF ReturnNested, ServerRelease, Refused, NoSuchSavepoint, server
  <2>3. PICK home : HomeOf(home)
    BY <2>1, <2>2, <1>l DEF Homes
  <2>4. CASE ServerRelease(c) /\ Goto(c, "resolved")
    <3>1. Above(Depth(c)) = {c} /\ (IF Depth(c) = 1 THEN 0 ELSE stack[Depth(c) - 1]) = parent[c]
      BY <2>1, <2>2, InnermostOnTop, AboveInnermost
    <3>2. pc[parent[c]] = "body" /\ parent[c] # c /\ parent[c] \in Blocks
      BY <1>0, <2>1, BlockNumbers DEF Chain
    <3>3. UNION {layer[b] : b \in {c}} = layer[c]
      OBVIOUS
    <3>4. layer' = [b \in Blocks |-> CASE b = c -> {}
                                      [] b = parent[c] /\ b # c -> layer[b] \cup layer[c]
                                      [] OTHER -> layer[b]]
      <4>1. layer' = [b \in Blocks |->
                        CASE b \in {c} -> {}
                          [] b = parent[c] /\ ~(Depth(c) = 1 /\ ~began) -> layer[b] \cup layer[c]
                          [] OTHER -> layer[b]]
        BY <2>4, <3>1, <3>3 DEF ServerRelease
      <4> QED BY <2>2, <3>2, <4>1
    <3> QED BY <2>1, <2>3, <2>4, <3>2, <3>4, HomesMove DEF Live
  <2>5. CASE Goto(c, "threw") /\ (Refused \/ NoSuchSavepoint(c) \/ Fault({"stmt", "dead"}))
    <3>1. layer' = layer
      BY <2>5 DEF Refused, NoSuchSavepoint, Fault, server
    <3> QED BY <1>0, <1>m, <2>1, <2>3, <2>5, <3>1 DEF Live
  <2> QED BY <1>5, <2>4, <2>5 DEF ReturnNested
<1>6. ASSUME NEW b \in Blocks, Throw(b)
      PROVE  \E home : HomeOf(home)'
  <2>1. /\ pc[b] = "body" /\ Goto(b, "threw")
        /\ UNCHANGED <<poisoned, owner, parent, began, layer>>
    BY <1>6 DEF Throw, server
  <2>2. PICK home : HomeOf(home)
    BY <2>1, <1>l DEF Homes
  <2> QED BY <1>m, <2>1, <2>2 DEF Live
<1>7. ASSUME NEW c \in Nested, RollbackTo(c)
      PROVE  \E home : HomeOf(home)'
  <2>1. /\ ServerRollbackTo(c) /\ Goto(c, "undone") /\ pc[c] = "threw"
        /\ UNCHANGED <<poisoned, owner, parent>>
    BY <1>7 DEF RollbackTo
  <2>2. began /\ pc[c] \in Running /\ ~HasRunning(c)
    BY <2>1, <1>0, ThrownIsInnermost DEF ServerRollbackTo, Running
  <2>3. PICK home : HomeOf(home)
    BY <2>1, <2>2, <1>l DEF Homes
  <2>4. Above(Depth(c)) = {c}
    BY <2>1, <2>2, InnermostOnTop, AboveInnermost
  <2>5. layer' = [b \in Blocks |-> CASE b = c -> {}
                                    [] b = Nobody /\ b # c -> layer[b] \cup layer[c]
                                    [] OTHER -> layer[b]]
    <3>1. layer' = [b \in Blocks |-> IF b \in {c} THEN {} ELSE layer[b]]
      BY <2>1, <2>4 DEF ServerRollbackTo
    <3> QED BY <1>0, <3>1
  <2>6. Live(c) /\ Nobody \in Blocks \cup {Nobody} /\ Nobody # c
    BY <1>0, <2>1 DEF Live
  <2>7. HomeOf([x \in Blocks |-> IF home[x] = c THEN Nobody ELSE home[x]])'
    BY <2>1, <2>3, <2>5, <2>6, HomesMove
  <2> QED BY <2>7
<1>8. ASSUME NEW c \in Nested, ReleaseUndone(c)
      PROVE  \E home : HomeOf(home)'
  <2>1. /\ ServerRelease(c) /\ Goto(c, "rejected") /\ pc[c] = "undone"
        /\ UNCHANGED <<poisoned, owner, parent>>
    BY <1>8 DEF ReleaseUndone
  <2>2. began /\ pc[c] \in Running /\ ~HasRunning(c)
    BY <2>1, <1>0, ThrownIsInnermost DEF ServerRelease, Running
  <2>3. PICK home : HomeOf(home)
    BY <2>1, <2>2, <1>l DEF Homes
  <2>4. Above(Depth(c)) = {c} /\ UNION {layer[b] : b \in {c}} = layer[c]
    BY <2>1, <2>2, InnermostOnTop, AboveInnermost
  <2>5. layer[c] = {}
    <3>1. \A b \in Blocks : home[b] # c
      BY <1>0, <2>1, <2>3 DEF HomeOf, Live
    <3> QED BY <1>0, <2>3, <3>1 DEF HomeOf
  <2>6. layer' = layer
    <3> DEFINE below == IF Depth(c) = 1 THEN 0 ELSE stack[Depth(c) - 1]
    <3>1. layer' = [b \in Blocks |->
                        CASE b \in {c} -> {}
                          [] b = below /\ ~(Depth(c) = 1 /\ ~began) -> layer[b] \cup layer[c]
                          [] OTHER -> layer[b]]
      BY <2>1, <2>4 DEF ServerRelease
    <3> HIDE DEF below
    <3>2. layer \in [Blocks -> SUBSET Writes]
      BY DEF TypeOK
    <3> QED BY <2>2, <2>5, <3>1, <3>2
  <2> QED BY <1>0, <1>m, <2>1, <2>3, <2>6
<1>9. CASE ReturnPoisoned \/ RollbackOuter
  <2>1. ~Leaks
    BY BlockNumbers DEF Leaks, Goto, TypeOK
  <2> QED BY <1>9, <2>1 DEF ReturnPoisoned, RollbackOuter, RolledBack, ServerEnd
<1>10. CASE Commit
  <2>1. /\ pc[0] = "body" /\ began /\ layer' = layer /\ Goto(0, "threw")
        /\ UNCHANGED <<poisoned, owner, parent>>
    BY <1>10 DEF Commit, CommitPostgres, CommitMysql, CommitSqlite, CommitAccepted,
         CommitLost, CommitFailed, ServerEnd, Refused, Fault, Returns, InBody, server
  <2>2. PICK home : HomeOf(home)
    BY <2>1, <1>l DEF Homes
  <2> QED BY <1>0, <1>m, <2>1, <2>2 DEF Live
<1>11. CASE UNCHANGED vars
  <2>1. PICK home : HomeOf(home)
    BY <1>11, <1>l DEF Homes, vars
  <2> QED BY <1>11, <2>1, HomesStay DEF vars, Live
<1> QED BY <1>1, <1>2, <1>3, <1>4, <1>5, <1>6, <1>7, <1>8, <1>9, <1>10, <1>11
        DEF Next, Driver, Leave, Use, Finished

---------------------------------------------------------------------------
(* The abstract specification's view. *)

\* What the program was told of each block, as Promised maps it.
Told(place) ==
  CASE place = "idle" -> "idle"
    [] place \in Running -> "open"
    [] place = "resolved" -> "kept"
    [] place \in {"rejected", "leaked"} -> "dropped"

StatusOf(p) == [b \in Blocks |-> Told(p[b])]

\* The blocks whose whole chain of parents was kept, by the recursion of
\* NestedTransaction.
ReachesOf(status, par) ==
  LET r[b \in Blocks] == b = 0 \/ (status[b] = "kept" /\ r[par[b]])
  IN r

SurvivingOf(status, par, own) ==
  {w \in Writes : own[w] \in Blocks /\ ReachesOf(status, par)[own[w]]}

\* The abstract survivors are these, in this state and in the next.
LEMMA PromisedSurviving ==
  /\ Promised!Surviving = SurvivingOf(StatusOf(pc), parent, owner)
  /\ Promised!Surviving' = SurvivingOf(StatusOf(pc'), parent', owner')
<1>1. Promised!Reaches = ReachesOf(StatusOf(pc), parent)
  BY DEF Promised!Reaches, ReachesOf, StatusOf, Told, Promised!Blocks, Blocks
<1>2. Promised!Reaches' = ReachesOf(StatusOf(pc'), parent')
  BY DEF Promised!Reaches, ReachesOf, StatusOf, Told, Promised!Blocks, Blocks
<1> QED BY <1>1, <1>2 DEF Promised!Surviving, SurvivingOf, Promised!Blocks, Blocks

\* A set of numbers has a least member.
LEMMA LeastBlock ==
  ASSUME NEW S \in SUBSET Nat, S # {}
  PROVE  \E n \in S : \A m \in S : ~(m < n)
<1>1. IsWellFoundedOn({p \in Nat \X Nat : p[1] < p[2]}, Nat)
  BY NatLessThanWellFounded DEF OpToRel
<1>2. PICK n \in S : \A m \in S : <<m, n>> \notin {p \in Nat \X Nat : p[1] < p[2]}
  BY <1>1, WFMin
<1> QED BY <1>2

\* The recursion has the solution "at home in block 0", and no other.
LEMMA ReachesIsHome ==
  ASSUME NEW status, NEW par \in [Nested -> Blocks], \A c \in Nested : par[c] < c,
         NEW home, home[0] = 0,
         \A c \in Nested : status[c] = "kept" => home[c] = home[par[c]],
         \A c \in Nested : status[c] # "kept" => home[c] # 0
  PROVE  \A b \in Blocks : ReachesOf(status, par)[b] = (home[b] = 0)
<1> DEFINE g == [b \in Blocks |-> home[b] = 0]
           R == ReachesOf(status, par)
<1>0. /\ \A b \in Blocks : b \in Nat /\ (b = 0 \/ b \in Nested)
      /\ \A d \in Nested : d \in Nat /\ d # 0 /\ d \in Blocks
  BY BlockNumbers
<1>1. g = [b \in Blocks |-> b = 0 \/ (status[b] = "kept" /\ g[par[b]])]
  <2>1. ASSUME NEW b \in Blocks
        PROVE  g[b] = (b = 0 \/ (status[b] = "kept" /\ g[par[b]]))
    <3>1. CASE b = 0
      BY <3>1
    <3>2. CASE b # 0
      <4>1. b \in Nested /\ par[b] \in Blocks
        BY <1>0, <3>2
      <4>2. g[b] = (home[b] = 0) /\ g[par[b]] = (home[par[b]] = 0)
        BY <4>1
      <4> HIDE DEF g
      <4> QED BY <3>2, <4>1, <4>2
    <3> QED BY <3>1, <3>2
  <2>2. g = [b \in Blocks |-> g[b]]
    OBVIOUS
  <2> HIDE DEF g
  <2> QED BY <2>1, <2>2
<1>2. R = [b \in Blocks |-> b = 0 \/ (status[b] = "kept" /\ R[par[b]])]
  <2> HIDE DEF g
  <2> QED BY <1>1 DEF ReachesOf
<1>3. \A b \in Blocks : g[b] = (home[b] = 0)
  OBVIOUS
<1> HIDE DEF g, R
<1>4. \A b \in Blocks : g[b] = (b = 0 \/ (status[b] = "kept" /\ g[par[b]]))
  BY <1>1
<1>5. \A b \in Blocks : R[b] = (b = 0 \/ (status[b] = "kept" /\ R[par[b]]))
  BY <1>2
<1>6. \A b \in Blocks : R[b] = g[b]
  <2> SUFFICES ASSUME {b \in Blocks : R[b] # g[b]} # {} PROVE FALSE
    OBVIOUS
  <2>1. PICK n \in {b \in Blocks : R[b] # g[b]} :
           \A m \in {b \in Blocks : R[b] # g[b]} : ~(m < n)
    <3>1. {b \in Blocks : R[b] # g[b]} \in SUBSET Nat
      BY <1>0
    <3> QED BY <3>1, LeastBlock
  <2>2. n # 0
    BY <1>0, <1>4, <1>5, <2>1
  <2>3. par[n] \in Blocks /\ par[n] < n
    BY <1>0, <2>1, <2>2
  <2>4. R[par[n]] = g[par[n]]
    BY <2>1, <2>3
  <2> QED BY <1>4, <1>5, <2>1, <2>4
<1> QED BY <1>3, <1>6 DEF R

\* COMMIT in an open transaction keeps the survivors: the writes at home in
\* block 0, the only block still live.
LEMMA UncommittedSurvive ==
  ASSUME Sequential, TypeOK, Chain, Numbered, Homes,
         began, ~poisoned, Returns(0), NEW place \in Places, Goto(0, place)
  PROVE  /\ Uncommitted = SurvivingOf(StatusOf(pc), parent, owner)
         /\ Uncommitted = SurvivingOf(StatusOf(pc'), parent, owner)
<1>0. /\ \A b \in Blocks : b = 0 \/ b \in Nested
      /\ \A d \in Nested : d \in Blocks /\ d # 0
      /\ Nobody \notin Blocks /\ 0 \in Blocks /\ pc \in [Blocks -> Places]
      /\ parent \in [Nested -> Blocks]
  BY BlockNumbers DEF TypeOK, Places
<1>1. PICK home : HomeOf(home)
  BY DEF Homes, Returns, InBody
<1>2. pc[0] = "body" /\ \A c \in Nested : pc[c] \notin Running
  BY OnlyInnermost, BlockNumbers DEF Returns, InBody
<1>3. \A b \in Blocks : Live(b) <=> b = 0
  BY <1>0, <1>2 DEF Live, Running
<1>4. home[0] = 0 /\ \A b \in Blocks : home[b] = 0 \/ home[b] = Nobody
  BY <1>0, <1>1, <1>3 DEF HomeOf
<1>5. Uncommitted = {w \in Writes : owner[w] \in Blocks /\ home[owner[w]] = 0}
  <2>1. \A b \in Blocks : layer[b] = {w \in Writes : owner[w] \in Blocks /\ home[owner[w]] = b}
    BY <1>1 DEF HomeOf
  <2>2. \A b \in Blocks : b # 0 => layer[b] = {}
    BY <1>0, <1>4, <2>1
  <2> QED BY <1>0, <2>1, <2>2 DEF Uncommitted
<1>6. ASSUME NEW status,
             \A c \in Nested : status[c] = "kept" <=> pc[c] = "resolved"
      PROVE  Uncommitted = SurvivingOf(status, parent, owner)
  <2>1. \A c \in Nested : status[c] = "kept" => home[c] = home[parent[c]]
    BY <1>1, <1>6 DEF HomeOf
  <2>2. \A c \in Nested : status[c] # "kept" => home[c] # 0
    <3>1. ASSUME NEW c \in Nested, status[c] # "kept"
          PROVE  pc[c] \in Lost
      BY <1>0, <1>2, <1>6, <3>1 DEF Running, Places, Lost
    <3> QED BY <1>0, <1>1, <3>1 DEF HomeOf
  <2>3. \A b \in Blocks : ReachesOf(status, parent)[b] = (home[b] = 0)
    <3>1. \A c \in Nested : parent[c] < c
      BY DEF Numbered
    <3> QED BY <1>0, <1>4, <2>1, <2>2, <3>1, ReachesIsHome
  <2> QED BY <1>5, <2>3 DEF SurvivingOf
<1>7. \A c \in Nested : StatusOf(pc)[c] = "kept" <=> pc[c] = "resolved"
  BY <1>0 DEF StatusOf, Told, Running, Places
<1>8. \A c \in Nested : StatusOf(pc')[c] = "kept" <=> pc[c] = "resolved"
  <2>1. \A c \in Nested : pc'[c] = pc[c]
    BY <1>0 DEF Goto
  <2> QED BY <1>0, <2>1 DEF StatusOf, Told, Running, Places
<1> QED BY <1>6, <1>7, <1>8

\* What COMMIT leaves behind, by what the driver learns of it.
LEMMA CommitKeeps ==
  ASSUME Careful, TypeOK, Chain, InTransaction, NothingYet, Numbered, NotAborted, Homes,
         Commit
  PROVE  /\ UNCHANGED <<parent, owner>> /\ Returns(0)
         /\ \/ /\ Goto(0, "resolved") \/ (Goto(0, "threw") /\ inDoubt')
               /\ durable' = SurvivingOf(StatusOf(pc), parent, owner)
               /\ durable' = SurvivingOf(StatusOf(pc'), parent, owner)
            \/ Goto(0, "threw") /\ ~inDoubt' /\ durable' = {}
<1> USE DEF Careful
<1>1. UNCHANGED <<parent, owner>> /\ Returns(0) /\ InBody(0) /\ ~poisoned /\ pc[0] = "body"
  BY DEF Commit, CommitPostgres, CommitMysql, CommitSqlite, Returns, InBody
<1>2. durable = {} /\ ~inDoubt /\ ~aborted /\ (began \/ dead)
  BY <1>1, BlockNumbers DEF NothingYet, NotAborted, InTransaction
<1>3. CASE CommitAccepted /\ began
  <2>1. Goto(0, "resolved") /\ durable' = Uncommitted
    BY <1>2, <1>3 DEF CommitAccepted, ServerEnd
  <2> QED BY <1>1, <1>3, <2>1, UncommittedSurvive DEF Places
<1>4. CASE CommitLost /\ began
  <2>1. Goto(0, "threw")
    BY <1>4 DEF CommitLost
  <2>2. PICK done \in BOOLEAN : inDoubt' = done
                              /\ ServerEnd(IF done THEN Uncommitted ELSE {}, readonly)
    BY <1>4 DEF CommitLost
  <2>3. CASE done = TRUE
    <3>1. durable' = Uncommitted /\ inDoubt'
      BY <1>2, <2>2, <2>3 DEF ServerEnd
    <3> QED BY <1>1, <1>4, <2>1, <3>1, UncommittedSurvive DEF Places
  <2>4. CASE done = FALSE
    BY <1>1, <1>2, <2>1, <2>2, <2>4 DEF ServerEnd
  <2> QED BY <2>3, <2>4
<1>5. CASE /\ Goto(0, "threw") /\ UNCHANGED inDoubt
           /\ UNCHANGED durable \/ ServerEnd({}, FALSE)
  BY <1>1, <1>2, <1>5 DEF ServerEnd
<1>6. \/ CommitAccepted /\ began
      \/ CommitLost /\ began
      \/ /\ Goto(0, "threw") /\ UNCHANGED inDoubt
         /\ UNCHANGED durable \/ ServerEnd({}, FALSE)
  BY <1>2 DEF Commit, CommitPostgres, CommitMysql, CommitSqlite, CommitFailed, CommitLost,
              Refused, Fault, server
<1> QED BY <1>3, <1>4, <1>5, <1>6

\* Once COMMIT took effect, the durable writes are the survivors.
Kept ==
  pc[0] = "resolved" \/ (pc[0] = "threw" /\ inDoubt) =>
    durable = SurvivingOf(StatusOf(pc), parent, owner)

LEMMA KeptStep ==
  ASSUME Careful, TypeOK, Chain, InTransaction, NothingYet, SettledClean, Numbered,
         NotAborted, Homes, Kept, [Next]_vars
  PROVE  Kept'
<1>1. CASE UNCHANGED vars
  BY <1>1 DEF vars, Kept
<1>2. CASE Commit
  <2>1. Goto(0, "threw") => pc'[0] = "threw"
    BY BlockNumbers DEF Goto, TypeOK
  <2>2. UNCHANGED <<parent, owner>>
    BY <1>2, CommitKeeps
  <2>3. \/ durable' = SurvivingOf(StatusOf(pc'), parent, owner)
        \/ pc'[0] = "threw" /\ ~inDoubt'
    BY <1>2, <2>1, CommitKeeps
  <2> QED BY <2>2, <2>3 DEF Kept
<1>3. CASE Next /\ ~Commit /\ pc'[0] = pc[0] /\ pc[0] # "body"
  BY <1>1, <1>3, OutsideNothingMoves
<1>4. CASE Next /\ ~Commit /\ pc'[0] = pc[0] /\ pc[0] = "body"
  BY <1>4 DEF Kept
<1>5. CASE Next /\ ~Commit /\ pc'[0] # pc[0]
  <2>1. UNCHANGED inDoubt
    BY <1>5, DurableStep DEF Careful
  <2>2. pc'[0] \in {"threw", "resolved"} => ~inDoubt
    <3>1. pc'[0] \in {"threw", "resolved"} => pc[0] \notin {"threw", "rejected", "leaked"}
      BY <1>5, OuterMoves
    <3> QED BY <3>1 DEF NothingYet
  <2>3. pc'[0] # "resolved"
    <3>1. Begin => \E place \in {"body", "rejected", "threw"} : Goto(0, place)
      BY DEF Begin, BeginPooled, BeginSqlite, BeginSucceeds, NoConnection
    <3>2. Begin => pc'[0] # "resolved"
      BY <3>1, BlockNumbers DEF Goto, TypeOK
    <3> QED BY <1>5, <3>2, OuterMoves
  <2> QED BY <2>1, <2>2, <2>3 DEF Kept
<1> QED BY <1>1, <1>2, <1>3, <1>4, <1>5

---------------------------------------------------------------------------
(* The inductive invariant and the theorems. *)

StackInv == IInv /\ StackIsTheRunningChain

\* The strengthened invariant with the stack.
LEMMA StackInductive == ASSUME Sequential PROVE Spec => []StackInv
<1>1. Init => StackIsTheRunningChain
  BY DEF Init, StackIsTheRunningChain
<1>2. IInv /\ StackIsTheRunningChain /\ [Next]_vars => StackIsTheRunningChain'
  BY StackStep DEF IInv
<1> QED BY <1>1, <1>2, Inductive, PTL DEF Spec, StackInv

\* Until a savepoint cannot be popped, the server's savepoints are the running
\* nested blocks, in the order they were opened.
THEOREM StackIsChain == ASSUME Sequential PROVE Spec => []StackIsTheRunningChain
BY StackInductive, PTL DEF StackInv

KeptInv ==
  /\ IInv /\ StackIsTheRunningChain
  /\ Numbered /\ Fresh /\ NotAborted /\ Homes /\ Kept

\* The invariant the promise rests on holds in every state.
LEMMA KeptInductive == ASSUME Careful PROVE Spec => []KeptInv
<1>1. Init => Numbered /\ Fresh /\ NotAborted /\ Homes /\ Kept
  <2> SUFFICES ASSUME Init PROVE Numbered /\ Fresh /\ NotAborted /\ Homes /\ Kept
    OBVIOUS
  <2>1. \A b \in Blocks : pc[b] = "idle"
    BY DEF Init
  <2>2. Numbered
    BY <2>1, BlockNumbers DEF Init, Numbered
  <2>3. Fresh /\ NotAborted /\ Homes /\ Kept
    BY <2>1, BlockNumbers DEF Init, Fresh, NotAborted, InBody, Homes, Kept
  <2> QED BY <2>2, <2>3
<1>2. KeptInv /\ IInv' /\ [Next]_vars => KeptInv'
  BY StackStep, NumberedStep, FreshStep, NotAbortedStep, HomesStep, KeptStep
     DEF KeptInv, IInv, Careful
<1>3. Init => StackIsTheRunningChain
  BY DEF Init, StackIsTheRunningChain
<1>4. Careful => Sequential
  BY DEF Careful
<1> QED BY <1>1, <1>2, <1>3, <1>4, Inductive, PTL DEF Spec, KeptInv

\* A $transaction that resolves has made durable exactly the writes of the
\* blocks that resolved inside blocks that resolved.
THEOREM SurvivorsAreKept == ASSUME Careful PROVE Spec => []ResolvedKeepsSurvivors
<1>1. KeptInv => ResolvedKeepsSurvivors
  BY PromisedSurviving DEF KeptInv, Kept, ResolvedKeepsSurvivors
<1> QED BY <1>1, KeptInductive, PTL

---------------------------------------------------------------------------
(* The refinement. *)

\* What the database shows to others: nothing while COMMIT is in doubt.
Shown == IF pc[0] = "threw" /\ inDoubt THEN {} ELSE durable

\* A block's move changes what the program was told of that block.
LEMMA StatusMoves ==
  ASSUME TypeOK, NEW b \in Blocks, NEW place \in Places, Goto(b, place)
  PROVE  /\ StatusOf(pc') = [StatusOf(pc) EXCEPT ![b] = Told(place)]
         /\ StatusOf(pc)[b] = Told(pc[b])
BY DEF StatusOf, Goto, TypeOK

\* The words for the places.
LEMMA ToldWords ==
  /\ Told("idle") = "idle" /\ Told("body") = "open" /\ Told("threw") = "open"
  /\ Told("undone") = "open" /\ Told("resolved") = "kept" /\ Told("rejected") = "dropped"
  /\ Told("leaked") = "dropped"
BY DEF Told, Running

\* A step within the open places is invisible.
LEMMA StatusStays ==
  ASSUME TypeOK, NEW b \in Blocks, NEW place \in Running, pc[b] \in Running,
         Goto(b, place)
  PROVE  StatusOf(pc') = StatusOf(pc)
<1>1. place \in Places /\ Told(place) = "open" /\ Told(pc[b]) = "open"
  BY DEF Running, Places, Told
<1>2. StatusOf(pc') = [StatusOf(pc) EXCEPT ![b] = "open"] /\ StatusOf(pc)[b] = "open"
  BY <1>1, StatusMoves
<1>3. StatusOf(pc) = [e \in Blocks |-> StatusOf(pc)[e]]
  BY DEF StatusOf
<1> QED BY <1>2, <1>3

\* Nothing is shown by any step but COMMIT and the final ROLLBACK.
LEMMA ShownStays ==
  ASSUME Sequential, TypeOK, Chain, InTransaction, NothingYet, SettledClean,
         Next, ~Commit, ~RollbackOuter
  PROVE  Shown' = Shown
<1>1. UNCHANGED <<durable, inDoubt>>
  BY DurableStep
<1>2. pc'[0] = "threw" /\ inDoubt <=> pc[0] = "threw" /\ inDoubt
  <2>1. CASE pc'[0] = pc[0]
    BY <2>1
  <2>2. CASE pc'[0] # pc[0]
    <3>1. pc[0] \in {"idle", "body"}
      BY <2>2, OuterMoves
    <3> QED BY <3>1 DEF NothingYet
  <2> QED BY <2>1, <2>2
<1> QED BY <1>1, <1>2 DEF Shown

\* No child of a block is open when the block has no running child.
LEMMA ChildrenSettled ==
  ASSUME TypeOK, NEW b \in Blocks, ~HasRunning(b)
  PROVE  \A c \in Nested : parent[c] = b => StatusOf(pc)[c] \in {"idle", "kept", "dropped"}
<1> SUFFICES ASSUME NEW c \in Nested, parent[c] = b
             PROVE  StatusOf(pc)[c] \in {"idle", "kept", "dropped"}
  OBVIOUS
<1>1. pc[c] \in Places /\ pc[c] \notin Running /\ c \in Blocks
  BY BlockNumbers DEF HasRunning, TypeOK, Places
<1>2. StatusOf(pc)[c] = Told(pc[c])
  BY <1>1 DEF StatusOf
<1> QED BY <1>1, <1>2, ToldWords DEF Places, Running

\* The abstract actions, of the mapped state.
LEMMA AbstractActions ==
  ASSUME NEW st, st = StatusOf(pc)
  PROVE  /\ (/\ st[0] = "idle" /\ UNCHANGED <<parent, owner>> /\ Shown' = Shown
             /\ \/ StatusOf(pc') = [st EXCEPT ![0] = "open"]
                \/ StatusOf(pc') = [st EXCEPT ![0] = "dropped"])
            => Promised!Start \/ Promised!Refuse
         /\ \A b \in Blocks, w \in Writes :
              (/\ st[b] = "open" /\ owner[w] = Nobody /\ owner' = [owner EXCEPT ![w] = b]
               /\ StatusOf(pc') = st /\ UNCHANGED parent /\ Shown' = Shown)
              => Promised!Write(b, w)
         /\ \A b \in Blocks, c \in Nested :
              (/\ st[b] = "open" /\ st[c] = "idle" /\ b < c
               /\ parent' = [parent EXCEPT ![c] = b] /\ UNCHANGED owner /\ Shown' = Shown
               /\ \E s \in {"open", "dropped"} : StatusOf(pc') = [st EXCEPT ![c] = s])
              => Promised!Nest(b, c)
         /\ \A c \in Nested :
              (/\ st[c] = "open"
               /\ \A d \in Nested : parent[d] = c => st[d] \in {"idle", "kept", "dropped"}
               /\ \E s \in {"kept", "dropped"} : StatusOf(pc') = [st EXCEPT ![c] = s]
               /\ UNCHANGED <<parent, owner>> /\ Shown' = Shown)
              => Promised!Close(c)
         /\ (/\ st[0] = "open"
             /\ \A d \in Nested : parent[d] = 0 => st[d] \in {"idle", "kept", "dropped"}
             /\ UNCHANGED <<parent, owner>>
             /\ \/ /\ StatusOf(pc') = [st EXCEPT ![0] = "kept"]
                   /\ Shown' = SurvivingOf(st, parent, owner)
                \/ /\ StatusOf(pc') = [st EXCEPT ![0] = "dropped"]
                   /\ Shown' \in {{}, SurvivingOf(st, parent, owner)})
            => Promised!Commit \/ Promised!Abort
<1> USE PromisedSurviving
<1> QED
  BY DEF StatusOf, Told, Shown, Promised!Start, Promised!Refuse, Promised!Write, Promised!Nest,
         Promised!Close, Promised!Commit, Promised!Abort, Promised!Settled, Promised!Child,
         Promised!Nested, Nested, Promised!Blocks, Blocks, Promised!Nobody, Nobody

\* The initial states map to initial states.
LEMMA RefinesInit == Init => Promised!Init
<1> SUFFICES ASSUME Init PROVE Promised!Init
  OBVIOUS
<1>1. StatusOf(pc) = [b \in Blocks |-> "idle"]
  BY ToldWords DEF Init, StatusOf
<1>2. Shown = {}
  BY BlockNumbers DEF Init, Shown
<1> QED BY <1>1, <1>2 DEF Init, StatusOf, Told, Shown, Promised!Init, Promised!Blocks, Blocks,
                         Promised!Nested, Nested, Promised!Nobody, Nobody

\* Every step is a step of the promise, or changes nothing the program sees.
LEMMA RefinesStep ==
  ASSUME Careful, KeptInv, [Next]_vars
  PROVE  [Promised!Next]_(Promised!vars)
<1> USE DEF Careful
<1> DEFINE st == StatusOf(pc)
           Stutter == StatusOf(pc') = st /\ UNCHANGED <<parent, owner>> /\ Shown' = Shown
<1>i. /\ TypeOK /\ Chain /\ InTransaction /\ NothingYet /\ SettledClean
      /\ Numbered /\ NotAborted /\ Homes /\ Kept
  BY DEF KeptInv, IInv
<1>0. /\ \A b \in Blocks : b \in Nat /\ (b = 0 \/ b \in Nested)
      /\ \A d \in Nested : d \in Nat /\ d \in Blocks /\ d # 0
      /\ 0 \in Blocks /\ Places = {"idle", "body", "threw", "undone", "resolved", "rejected", "leaked"}
  BY BlockNumbers DEF Places
<1>1. Stutter => UNCHANGED Promised!vars
  BY DEF StatusOf, Told, Shown, Promised!vars, Promised!Blocks
<1>2. ASSUME Next, ~Commit, ~RollbackOuter
      PROVE  Shown' = Shown
  BY <1>2, <1>i, ShownStays
<1>n. Promised!Next <=>
        \/ Promised!Start \/ Promised!Refuse \/ Promised!Commit \/ Promised!Abort
        \/ \E b \in Blocks : \/ \E w \in Writes : Promised!Write(b, w)
                            \/ \E c \in Nested : Promised!Nest(b, c)
        \/ \E c \in Nested : Promised!Close(c)
  BY DEF Promised!Next, Promised!Blocks, Blocks, Promised!Nested, Nested
<1> DEFINE Step == Promised!Next \/ Stutter
<1>3. ASSUME UNCHANGED vars
      PROVE  Step
  BY <1>3 DEF vars, Shown, StatusOf
<1>4. ASSUME Begin
      PROVE  Step
  <2>1. pc[0] = "idle" /\ UNCHANGED <<parent, owner>> /\ ~RollbackOuter /\ ~Commit /\ Next
    BY <1>4 DEF Begin, BeginPooled, BeginSqlite, RollbackOuter, Commit, CommitPostgres,
                CommitMysql, CommitSqlite, Returns, InBody, Next
  <2>2. \E place \in {"body", "threw", "rejected"} : Goto(0, place)
    BY <1>4 DEF Begin, BeginPooled, BeginSqlite, BeginSucceeds, NoConnection
  <2>3. st[0] = "idle" /\ \E s \in {"open", "dropped"} : StatusOf(pc') = [st EXCEPT ![0] = s]
    BY <1>0, <1>i, <2>1, <2>2, StatusMoves, ToldWords
  <2> QED BY <1>2, <1>n, <2>1, <2>3, AbstractActions
<1>5. ASSUME NEW b \in Blocks, NEW w \in Writes, Query(b, w), Next
      PROVE  Step
  <2>1. /\ UNCHANGED <<pc, parent>> /\ pc[b] = "body" /\ owner[w] = Nobody
        /\ (owner' = owner \/ owner' = [owner EXCEPT ![w] = b])
    BY <1>5 DEF Query, InBody
  <2>2. ~Commit /\ ~RollbackOuter
    BY <1>0, <1>i, <2>1, CommitMoves, RollbackOuterMoves DEF Goto, TypeOK
  <2>3. st[b] = "open" /\ StatusOf(pc') = st
    BY <2>1, ToldWords DEF StatusOf
  <2> QED BY <1>2, <1>5, <1>n, <2>1, <2>2, <2>3, AbstractActions
<1>6. ASSUME NEW b \in Blocks, QueryReadonly(b) \/ NestRefused(b), Next
      PROVE  Step
  <2>1. UNCHANGED <<pc, parent, owner>>
    BY <1>6 DEF QueryReadonly, NestRefused
  <2>2. ~Commit /\ ~RollbackOuter
    BY <1>0, <1>i, <2>1, CommitMoves, RollbackOuterMoves DEF Goto, TypeOK
  <2> QED BY <1>2, <1>6, <2>1, <2>2
<1>7. ASSUME NEW b \in Blocks, NEW c \in Nested, Nest(b, c), Next
      PROVE  Step
  <2>1. /\ parent' = [parent EXCEPT ![c] = b] /\ UNCHANGED owner /\ pc[b] = "body"
        /\ c = counter + 1 /\ (Goto(c, "body") \/ Goto(c, "rejected"))
    BY <1>7 DEF Nest, InBody
  <2>2. pc[c] = "idle" /\ b < c
    <3>1. counter \in Nat
      BY <1>i, BlockNumbers DEF TypeOK
    <3>2. b \in Nested => ~(b > counter)
      BY <1>i, <2>1 DEF Numbered
    <3> QED BY <1>0, <1>i, <2>1, <3>1, <3>2 DEF Numbered
  <2>3. ~Commit /\ ~RollbackOuter
    <3>1. pc'[0] = pc[0]
      BY <1>0, <1>i, <2>1 DEF Goto, TypeOK
    <3> QED BY <1>0, <1>i, <3>1, CommitMoves, RollbackOuterMoves DEF Goto, TypeOK
  <2>4. /\ st[b] = "open" /\ st[c] = "idle"
        /\ \E s \in {"open", "dropped"} : StatusOf(pc') = [st EXCEPT ![c] = s]
    <3>1. st[b] = "open" /\ st[c] = "idle"
      BY <1>0, <2>1, <2>2, ToldWords DEF StatusOf
    <3> QED BY <1>0, <1>i, <2>1, <3>1, StatusMoves, ToldWords
  <2> QED BY <1>2, <1>7, <1>n, <2>1, <2>2, <2>3, <2>4, AbstractActions
<1>c. ASSUME NEW c \in Nested, NEW place \in {"resolved", "rejected"}, Goto(c, place),
             pc[c] \in Running, ~HasRunning(c), UNCHANGED <<parent, owner>>, Next
      PROVE  Step
  <2>1. st[c] = "open"
    BY <1>0, <1>c, ToldWords DEF StatusOf, Running
  <2>2. \E s \in {"kept", "dropped"} : StatusOf(pc') = [st EXCEPT ![c] = s]
    BY <1>0, <1>i, <1>c, StatusMoves, ToldWords
  <2>3. \A d \in Nested : parent[d] = c => st[d] \in {"idle", "kept", "dropped"}
    BY <1>0, <1>i, <1>c, ChildrenSettled
  <2>4. ~Commit /\ ~RollbackOuter
    <3>1. pc'[0] = pc[0]
      BY <1>0, <1>i, <1>c DEF Goto, TypeOK
    <3> QED BY <1>0, <1>i, <3>1, CommitMoves, RollbackOuterMoves DEF Goto, TypeOK
  <2> QED BY <1>2, <1>c, <1>n, <2>1, <2>2, <2>3, <2>4, AbstractActions
<1>o. ASSUME NEW x \in Blocks, NEW place \in Running, pc[x] \in Running, Goto(x, place),
             UNCHANGED <<parent, owner>>, Next, ~Commit, ~RollbackOuter
      PROVE  Step
  BY <1>2, <1>i, <1>o, StatusStays
<1>8. ASSUME NEW c \in Nested, ReturnNested(c) \/ RollbackTo(c) \/ ReleaseUndone(c), Next
      PROVE  Step
  <2>1. pc[c] \in Running /\ ~HasRunning(c) /\ UNCHANGED <<parent, owner>>
    <3>1. CASE ReturnNested(c)
      BY <3>1 DEF ReturnNested, Returns, InBody, Running
    <3>2. CASE RollbackTo(c) \/ ReleaseUndone(c)
      BY <1>0, <1>i, <3>2, ThrownIsInnermost DEF RollbackTo, ReleaseUndone, Running
    <3> QED BY <1>8, <3>1, <3>2
  <2>2. \E place \in {"resolved", "rejected", "threw", "undone"} : Goto(c, place)
    BY <1>8 DEF ReturnNested, RollbackTo, ReleaseUndone
  <2>3. ~Commit /\ ~RollbackOuter
    <3>1. pc'[0] = pc[0]
      BY <1>0, <1>i, <2>2 DEF Goto, TypeOK
    <3> QED BY <1>0, <1>i, <3>1, CommitMoves, RollbackOuterMoves DEF Goto, TypeOK
  <2> HIDE DEF Step
  <2> QED BY <1>0, <1>c, <1>o, <1>8, <2>1, <2>2, <2>3 DEF Running
<1>9. ASSUME NEW b \in Blocks, Throw(b) \/ (b = 0 /\ ReturnPoisoned), Next, ~Commit
      PROVE  Step
  <2>1. /\ pc[b] = "body" /\ Goto(b, "threw") /\ UNCHANGED <<parent, owner>>
    BY <1>9 DEF Throw, ReturnPoisoned, Returns, InBody
  <2>2. ~RollbackOuter
    <3>1. CASE b = 0
      BY <2>1, <3>1 DEF RollbackOuter
    <3>2. CASE b # 0
      BY <1>0, <1>i, <2>1, <3>2, RollbackOuterMoves DEF Goto, TypeOK
    <3> QED BY <3>1, <3>2
  <2> HIDE DEF Step
  <2> QED BY <1>o, <1>9, <2>1, <2>2 DEF Running
<1>10. ASSUME Commit
       PROVE  Step
  <2>1. /\ UNCHANGED <<parent, owner>> /\ Returns(0)
        /\ \/ /\ Goto(0, "resolved") \/ (Goto(0, "threw") /\ inDoubt')
              /\ durable' = SurvivingOf(st, parent, owner)
           \/ Goto(0, "threw") /\ ~inDoubt' /\ durable' = {}
    BY <1>i, <1>10, CommitKeeps
  <2>2. /\ pc[0] = "body" /\ st[0] = "open"
        /\ \A d \in Nested : parent[d] = 0 => st[d] \in {"idle", "kept", "dropped"}
    BY <1>0, <1>i, <2>1, ChildrenSettled, ToldWords DEF Returns, InBody, StatusOf
  <2>3. CASE Goto(0, "resolved") /\ durable' = SurvivingOf(st, parent, owner)
    <3>1. pc'[0] = "resolved" /\ Shown' = durable'
      BY <1>0, <1>i, <2>3 DEF Goto, TypeOK, Shown
    <3>2. StatusOf(pc') = [st EXCEPT ![0] = "kept"]
      BY <1>0, <1>i, <2>3, StatusMoves, ToldWords
    <3> QED BY <1>n, <2>1, <2>2, <2>3, <3>1, <3>2, AbstractActions
  <2>4. CASE Goto(0, "threw") /\ (inDoubt' \/ durable' = {})
    <3>1. pc'[0] = "threw" /\ StatusOf(pc') = st
      BY <1>0, <1>i, <2>2, <2>4, StatusStays DEF Goto, TypeOK, Running
    <3>2. Shown' = {} /\ Shown = {}
      BY <1>i, <2>2, <2>4, <3>1 DEF Shown, NothingYet
    <3> QED BY <2>1, <3>1, <3>2
  <2> QED BY <2>1, <2>3, <2>4
<1>11. ASSUME RollbackOuter
       PROVE  Step
  <2>1. /\ pc[0] = "threw" /\ (Goto(0, "rejected") \/ Goto(0, "leaked"))
        /\ UNCHANGED <<parent, owner, inDoubt>> /\ durable' = durable
    BY <1>11, RollbackOuterMoves
  <2>2. /\ st[0] = "open"
        /\ \A d \in Nested : parent[d] = 0 => st[d] \in {"idle", "kept", "dropped"}
    BY <1>0, <1>i, <2>1, ChildrenSettled, ThrownIsInnermost, ToldWords DEF StatusOf
  <2>3. StatusOf(pc') = [st EXCEPT ![0] = "dropped"] /\ Shown' = durable
    <3>1. pc'[0] \in {"rejected", "leaked"}
      BY <1>0, <1>i, <2>1 DEF Goto, TypeOK
    <3> QED BY <1>0, <1>i, <2>1, <3>1, StatusMoves, ToldWords DEF Shown
  <2>4. durable \in {{}, SurvivingOf(st, parent, owner)}
    BY <1>i, <2>1 DEF NothingYet, Kept
  <2> QED BY <1>n, <2>1, <2>2, <2>3, <2>4, AbstractActions
<1> HIDE DEF Step
<1>12. Next => Step
  <2> SUFFICES ASSUME Next PROVE Step
    OBVIOUS
  <2>1. CASE Commit \/ RollbackOuter \/ Begin \/ UNCHANGED vars
    BY <1>3, <1>4, <1>10, <1>11, <2>1
  <2> QED BY <1>0, <1>5, <1>6, <1>7, <1>8, <1>9, <2>1 DEF Next, Driver, Leave, Use, Finished
<1> QED BY <1>1, <1>3, <1>12 DEF Step

\* db.$transaction does what docs/transactions.md promises: its behaviours are
\* behaviours of NestedTransaction, whatever fails.
THEOREM PromiseIsKept == ASSUME Careful PROVE Spec => ImplementsNestedTransaction
<1>1. KeptInv /\ [Next]_vars => [Promised!Next]_(Promised!vars)
  BY RefinesStep
<1> QED BY <1>1, RefinesInit, KeptInductive, PTL DEF Spec, Promised!Spec, ImplementsNestedTransaction
=============================================================================
