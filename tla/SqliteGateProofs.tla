--------------------------- MODULE SqliteGateProofs ---------------------------
(***************************************************************************)
(* Proofs about SqliteGate, for any number of tasks, faults and rewraps.    *)
(* The argument: a task's place says whether it is in the queue or holds    *)
(* the gate, the gate is held exactly while a transaction is open, and so   *)
(* only its holder has writes that a ROLLBACK can undo.                     *)
(***************************************************************************)
EXTENDS SqliteGate, SequenceTheorems, TLAPS

\* The turn in which a task writes.
WriteTurn(t) == IF t \in Migrators THEN 1 ELSE 0
Wrotes == checked \cup unchecked

\* A task's place agrees with its turn, with the queue and with the gate.
PlacesAgree ==
  /\ \A t \in Tasks : place[t] = "ended" <=> turn[t] = Len(Turns(t))
  /\ \A t \in Tasks : place[t] \in {"running", "stuck"} => running = t /\ turn[t] = WriteTurn(t)
  /\ running # Nobody => place[running] \in {"running", "stuck"}
  /\ \A i \in DOMAIN queue : place[queue[i]] \in {"queued", "stuck"}
  /\ \A i, j \in DOMAIN queue : queue[i] = queue[j] => i = j

\* What an open transaction holds is lost or made durable with it.
HandleAgrees == GateHoldsTransaction /\ NoForeignWrite /\ (~began => pending = {})

\* Before its write a task was told nothing; while it holds the gate its
\* writes are in the open transaction; afterwards what it was told is true.
ToldTrue(t) ==
  /\ turn[t] < WriteTurn(t) => t \notin durable \cup failed \cup Wrotes
  /\ turn[t] = WriteTurn(t) => /\ t \notin durable \cup failed
                               /\ t \in Wrotes => running = t /\ (t \in pending \/ closed)
  /\ turn[t] > WriteTurn(t) => /\ t \in Wrotes \ failed => t \in durable
                               /\ t \in durable => t \notin failed \/ (t \in Migrators /\ closed)

\* Foreign keys are off only for a migration that has yet to turn them on.
OffForMigration ==
  foreignKeys \/ closed \/ \E t \in Migrators : turn[t] \in 1..2

GateInv == TypeOK /\ PlacesAgree /\ HandleAgrees /\ OffForMigration
           /\ \A t \in Tasks : ToldTrue(t)

\* The turns of a task, and where it writes.
LEMMA TurnFacts ==
  ASSUME NEW t \in Tasks
  PROVE  /\ Len(Turns(t)) = (IF t \in Migrators THEN 3 ELSE 1)
         /\ \A k \in 0..Len(Turns(t)) - 1 :
              /\ Turns(t)[k + 1] \in {"write", "tx"} <=> k = WriteTurn(t)
              /\ Turns(t)[k + 1] \in {"off", "on"} => t \in Migrators /\ k \in {0, 2}
              /\ Turns(t)[k + 1] = "on" => k = 2
              /\ Turns(t)[k + 1] = "off" => k = 0
  BY TasksAssumption DEF Turns, WriteTurn, Tasks

\* A task at the gate is queued for a turn it has left, and leaves the queue.
LEMMA AtGateFacts ==
  ASSUME TypeOK, PlacesAgree, NEW t \in Tasks, AtGate(t), queue' = Tail(queue)
  PROVE  /\ place[t] = "queued" /\ turn[t] \in 0..Len(Turns(t)) - 1
         /\ \A u \in Tasks : place[u] \notin {"running", "stuck"}
         /\ queue' \in Seq(Tasks)
         /\ \A i \in DOMAIN queue' : queue'[i] # t /\ place[queue'[i]] \in {"queued", "stuck"}
         /\ \A i, j \in DOMAIN queue' : queue'[i] = queue'[j] => i = j
<1> USE DEF TypeOK, PlacesAgree, AtGate
<1>1. queue \in Seq(Tasks) /\ queue # <<>> /\ queue[1] = t /\ 1 \in DOMAIN queue
  BY HeadTailProperties
<1>2. /\ queue' \in Seq(Tasks) /\ Len(queue') = Len(queue) - 1
      /\ \A i \in DOMAIN queue' : queue'[i] = queue[i + 1] /\ i + 1 \in DOMAIN queue
  BY <1>1, HeadTailProperties
<1>3. \A u \in Tasks : place[u] \notin {"running", "stuck"}
  BY TasksAssumption
<1>4. place[t] = "queued"
  BY <1>1, <1>3
<1>5. turn[t] \in 0..Len(Turns(t)) - 1
  BY <1>4, TurnFacts
<1>6. \A i \in DOMAIN queue' : queue'[i] # t
  <2> SUFFICES ASSUME NEW i \in DOMAIN queue', queue'[i] = t PROVE FALSE
    OBVIOUS
  <2>1. i \in Nat /\ i > 0
    BY <1>2
  <2>2. i + 1 \in DOMAIN queue /\ queue[i + 1] = queue[1]
    BY <1>1, <1>2
  <2>3. i + 1 = 1
    BY <1>1, <2>2
  <2> QED BY <2>1, <2>3
<1>7. \A i, j \in DOMAIN queue' : queue'[i] = queue'[j] => i = j
  <2>1. TAKE i, j \in DOMAIN queue'
  <2>2. i \in Nat /\ j \in Nat
    BY <1>2
  <2> QED BY <1>2, <2>1, <2>2
<1> QED BY <1>1, <1>2, <1>3, <1>4, <1>5, <1>6, <1>7

\* A task that waits for nothing yet is put at the end of the queue.
LEMMA AppendFacts ==
  ASSUME TypeOK, PlacesAgree, NEW t \in Tasks, place[t] \in {"ready", "running"},
         queue' = Append(queue, t)
  PROVE  /\ queue' \in Seq(Tasks)
         /\ \A i \in DOMAIN queue' : queue'[i] = t \/ place[queue'[i]] \in {"queued", "stuck"}
         /\ \A i, j \in DOMAIN queue' : queue'[i] = queue'[j] => i = j
<1> USE DEF TypeOK, PlacesAgree
<1>1. /\ queue' \in Seq(Tasks) /\ Len(queue') = Len(queue) + 1
      /\ queue'[Len(queue) + 1] = t /\ \A i \in DOMAIN queue : queue'[i] = queue[i]
  BY AppendProperties
<1>2. \A i \in DOMAIN queue' : i \in DOMAIN queue \/ i = Len(queue) + 1
  BY <1>1
<1>3. \A i \in DOMAIN queue : queue[i] # t
  OBVIOUS
<1> QED BY <1>1, <1>2, <1>3

\* The initial state satisfies the invariant.
LEMMA InvInit == Init => GateInv
<1> SUFFICES ASSUME Init PROVE GateInv
  OBVIOUS
<1> USE DEF Init
<1>1. TypeOK
  <2>1. \A t \in Tasks : turn[t] = 0 /\ 0 <= Len(Turns(t))
    BY TurnFacts
  <2>2. 0 \in 0..MaxFaults /\ 0 \in 0..MaxRewraps
    BY ModesAssumption
  <2>3. turn \in [Tasks -> 0..3] /\ place \in [Tasks -> {"ready", "queued", "running", "stuck", "ended"}]
    OBVIOUS
  <2>4. queue \in Seq(Tasks)
    OBVIOUS
  <2> QED BY <2>1, <2>2, <2>3, <2>4 DEF TypeOK
<1>2. PlacesAgree
  BY TurnFacts DEF PlacesAgree
<1>3. HandleAgrees /\ OffForMigration
  BY DEF HandleAgrees, GateHoldsTransaction, NoForeignWrite, OffForMigration
<1>4. \A t \in Tasks : ToldTrue(t)
  BY DEF ToldTrue, WriteTurn, Wrotes
<1> QED BY <1>1, <1>2, <1>3, <1>4 DEF GateInv

\* A task at the gate that takes a whole turn leaves every place in order.
LEMMA TurnTaken ==
  ASSUME TypeOK, PlacesAgree, NEW t \in Tasks, AtGate(t), queue' = Tail(queue),
         TurnOver(t) \/ Ends(t)
  PROVE  /\ PlacesAgree' /\ running' = Nobody
         /\ place' \in [Tasks -> {"ready", "queued", "running", "stuck", "ended"}]
         /\ turn' \in [Tasks -> 0..3] /\ \A u \in Tasks : turn'[u] <= Len(Turns(u))
         /\ queue' \in Seq(Tasks)
         /\ \A u \in Tasks \ {t} : turn'[u] = turn[u]
         /\ turn'[t] > turn[t] /\ turn[t] \in 0..Len(Turns(t)) - 1
<1>1. /\ place[t] = "queued" /\ turn[t] \in 0..Len(Turns(t)) - 1
      /\ \A u \in Tasks : place[u] \notin {"running", "stuck"}
      /\ queue' \in Seq(Tasks)
      /\ \A i \in DOMAIN queue' : queue'[i] # t /\ place[queue'[i]] \in {"queued", "stuck"}
      /\ \A i, j \in DOMAIN queue' : queue'[i] = queue'[j] => i = j
  BY AtGateFacts
<1>2. /\ running' = Nobody /\ \A u \in Tasks \ {t} : turn'[u] = turn[u] /\ place'[u] = place[u]
      /\ place'[t] \in {"ready", "ended"} /\ turn'[t] \in 0..3
      /\ place'[t] = "ended" <=> turn'[t] = Len(Turns(t))
      /\ turn'[t] > turn[t] /\ turn'[t] <= Len(Turns(t))
      /\ place' \in [Tasks -> {"ready", "queued", "running", "stuck", "ended"}]
      /\ turn' \in [Tasks -> 0..3]
  <2>1. Len(Turns(t)) \in 1..3
    BY TurnFacts
  <2>2. /\ turn[t] \in Nat /\ turn[t] < Len(Turns(t)) /\ turn \in [Tasks -> 0..3]
        /\ place \in [Tasks -> {"ready", "queued", "running", "stuck", "ended"}]
    BY <1>1, <2>1 DEF TypeOK
  <2>3. CASE TurnOver(t)
    <3> DEFINE k == turn[t]  n == Len(Turns(t))
    <3>0. k \in Nat /\ n \in 1..3 /\ k < n
      BY <2>1, <2>2
    <3> HIDE DEF k, n
    <3>a. k + 1 \in 0..3 /\ k + 1 <= n
      BY <3>0
    <3>1. turn[t] + 1 \in 0..3 /\ turn[t] + 1 <= Len(Turns(t))
      BY <3>a DEF k, n
    <3>2. turn'[t] = turn[t] + 1 /\ turn' \in [Tasks -> 0..3]
      BY <2>2, <2>3, <3>1 DEF TurnOver
    <3> QED BY <2>2, <2>3, <3>1, <3>2 DEF TurnOver
  <2>4. CASE Ends(t)
    <3>1. turn'[t] = Len(Turns(t)) /\ turn' \in [Tasks -> 0..3]
      BY <2>1, <2>2, <2>4 DEF Ends
    <3> QED BY <2>1, <2>2, <2>4, <3>1 DEF Ends
  <2> QED BY <2>3, <2>4
<1>3. \A i \in DOMAIN queue' : place'[queue'[i]] \in {"queued", "stuck"}
  BY <1>1, <1>2
<1>4. PlacesAgree'
  <2>1. \A u \in Tasks : place'[u] = "ended" <=> turn'[u] = Len(Turns(u))
    BY <1>2 DEF PlacesAgree
  <2>2. \A u \in Tasks : place'[u] \notin {"running", "stuck"}
    BY <1>1, <1>2
  <2> QED BY <1>1, <1>2, <1>3, <2>1, <2>2 DEF PlacesAgree
<1>5. \A u \in Tasks : turn'[u] <= Len(Turns(u))
  BY <1>2 DEF TypeOK
<1> QED BY <1>1, <1>2, <1>4, <1>5

\* What is known of every other task when only the one that steps is told anything.
LEMMA OthersTold ==
  ASSUME NEW t, NEW u \in Tasks, u # t, ToldTrue(u),
         turn'[u] = turn[u], running' = running \/ running # u,
         u \in pending' <=> u \in pending, u \in durable' <=> u \in durable,
         u \in failed' <=> u \in failed, u \in Wrotes' <=> u \in Wrotes, closed => closed'
  PROVE  ToldTrue(u)'
  BY DEF ToldTrue, WriteTurn

\* A whole turn at the gate preserves the invariant.
LEMMA TurnStep ==
  ASSUME GateInv, NEW t \in Tasks,
         Write(t) \/ Pragma(t) \/ (Begin(t) /\ TurnOver(t) /\ Fails(t) /\ UNCHANGED began)
  PROVE  GateInv'
<1>1. AtGate(t) /\ queue' = Tail(queue) /\ (TurnOver(t) \/ Ends(t))
  BY DEF Write, Pragma, Begin
<1>2. TypeOK /\ PlacesAgree /\ HandleAgrees /\ OffForMigration /\ \A u \in Tasks : ToldTrue(u)
  BY DEF GateInv
<1>3. /\ PlacesAgree' /\ running' = Nobody
      /\ place' \in [Tasks -> {"ready", "queued", "running", "stuck", "ended"}]
      /\ turn' \in [Tasks -> 0..3] /\ \A u \in Tasks : turn'[u] <= Len(Turns(u))
      /\ queue' \in Seq(Tasks)
      /\ \A u \in Tasks \ {t} : turn'[u] = turn[u]
      /\ turn'[t] > turn[t] /\ turn[t] \in 0..Len(Turns(t)) - 1
  BY <1>1, <1>2, TurnTaken
<1>4. running = Nobody /\ began = FALSE /\ pending = {}
  BY <1>1, <1>2 DEF AtGate, HandleAgrees, GateHoldsTransaction, TypeOK
<1>5. /\ began' = FALSE /\ pending' = {} /\ closed' = closed /\ rewraps' = rewraps
      /\ durable' = durable \/ (durable' = durable \cup {t} /\ ~closed)
      /\ failed' = failed \/ failed' = failed \cup {t}
      /\ (unchecked' = unchecked /\ checked' = checked) \/ Wrote(t)
      /\ overlapped' = overlapped \/ overlapped' = overlapped \cup UnderWay \cup {t}
      /\ foreignKeys' \in BOOLEAN /\ (faults' = faults \/ (faults < MaxFaults /\ faults' = faults + 1))
  <2>1. Fails(t) => /\ failed' = failed \cup {t}
                    /\ faults' = faults \/ (faults < MaxFaults /\ faults' = faults + 1)
    BY DEF Fails
  <2>2. foreignKeys \in BOOLEAN /\ (Kind(t) = "on") \in BOOLEAN
    BY <1>2 DEF TypeOK
  <2>3. CASE Write(t)
    BY <1>4, <2>1, <2>2, <2>3 DEF Write, Wrote
  <2>4. CASE Pragma(t)
    BY <1>4, <2>1, <2>2, <2>4 DEF Pragma
  <2>5. CASE Begin(t) /\ TurnOver(t) /\ Fails(t) /\ UNCHANGED began
    BY <1>4, <2>1, <2>2, <2>5 DEF Begin
  <2> QED BY <2>3, <2>4, <2>5
<1>6. TypeOK'
  <2>1. /\ durable' \subseteq Tasks /\ failed' \subseteq Tasks
        /\ unchecked' \subseteq Tasks /\ checked' \subseteq Tasks /\ overlapped' \subseteq Tasks
    BY <1>2, <1>5 DEF TypeOK, Wrote, UnderWay, Tasks
  <2>2. faults' \in 0..MaxFaults
    BY <1>2, <1>5, ModesAssumption DEF TypeOK
  <2>3. /\ began' \in BOOLEAN /\ closed' \in BOOLEAN /\ foreignKeys' \in BOOLEAN
        /\ rewraps' \in 0..MaxRewraps /\ pending' \subseteq Tasks
    BY <1>2, <1>5 DEF TypeOK
  <2> QED BY <1>3, <2>1, <2>2, <2>3 DEF TypeOK
<1>7. HandleAgrees'
  BY <1>3, <1>5 DEF HandleAgrees, GateHoldsTransaction, NoForeignWrite
<1>8. \A u \in Tasks \ {t} : ToldTrue(u)'
  <2> SUFFICES ASSUME NEW u \in Tasks, u # t PROVE ToldTrue(u)'
    OBVIOUS
  <2>1. u \in Wrotes' <=> u \in Wrotes
    BY <1>5 DEF Wrote, Wrotes
  <2>2. /\ turn'[u] = turn[u] /\ running' = running /\ (u \in pending' <=> u \in pending)
        /\ (u \in durable' <=> u \in durable) /\ (u \in failed' <=> u \in failed)
    BY <1>3, <1>4, <1>5
  <2> QED BY <1>2, <1>5, <2>1, <2>2, OthersTold
<1>9. Kind(t) = Turns(t)[turn[t] + 1]
  BY DEF Kind
<1>10. OffForMigration'
  <2>1. CASE Pragma(t)
    <3>1. CASE Kind(t) = "off"
      <4>1. t \in Migrators /\ turn[t] = 0 /\ turn \in [Tasks -> 0..3]
        BY <1>2, <1>3, <1>9, <3>1, TurnFacts DEF TypeOK
      <4>2. closed \/ turn'[t] = 1
        BY <2>1, <4>1 DEF Pragma, TurnOver
      <4> QED BY <1>5, <4>1, <4>2 DEF OffForMigration
    <3>2. CASE Kind(t) = "on"
      BY <1>4, <1>5, <2>1, <3>2 DEF OffForMigration, Pragma
    <3> QED BY <2>1, <3>1, <3>2 DEF Pragma
  <2>2. CASE Write(t) \/ Begin(t)
    <3>1. foreignKeys' = foreignKeys /\ TurnOver(t) /\ turn[t] = WriteTurn(t)
      BY <1>3, <1>9, <2>2, TurnFacts DEF Write, Begin
    <3>2. \A m \in Migrators : turn[m] \in 1..2 => turn'[m] \in 1..2
      BY <1>2, <1>3, <3>1 DEF TurnOver, WriteTurn, TypeOK, Tasks
    <3> QED BY <1>2, <1>5, <3>1, <3>2 DEF OffForMigration
  <2> QED BY <2>1, <2>2
<1>11. ToldTrue(t)'
  <2>1. CASE Pragma(t)
    <3>1. /\ t \in Migrators /\ turn \in [Tasks -> 0..3] /\ ToldTrue(t)
          /\ turn[t] \in {0, 2}
      BY <1>2, <1>3, <1>9, <2>1, TurnFacts DEF TypeOK, Pragma
    <3>2. /\ durable' = durable /\ Wrotes' = Wrotes /\ running' = Nobody
          /\ \/ failed' = failed /\ TurnOver(t)
             \/ failed' = failed \cup {t} /\ Ends(t) /\ closed
      BY <1>3, <2>1 DEF Pragma, Wrotes, Fails
    <3>3. /\ t # Nobody /\ Len(Turns(t)) = 3
          /\ \/ failed' = failed /\ turn'[t] = turn[t] + 1
             \/ failed' = failed \cup {t} /\ turn'[t] = 3 /\ closed
      BY <3>1, <3>2, TasksAssumption, TurnFacts DEF TurnOver, Ends
    <3>4. CASE turn[t] = 0
      BY <1>4, <1>5, <3>1, <3>2, <3>3, <3>4 DEF ToldTrue, WriteTurn
    <3>5. CASE turn[t] = 2
      BY <1>3, <1>5, <3>1, <3>2, <3>3, <3>5 DEF ToldTrue, WriteTurn
    <3> QED BY <3>1, <3>4, <3>5
  <2>2. CASE Write(t) \/ Begin(t)
    <3>1. turn[t] = WriteTurn(t) /\ turn'[t] > WriteTurn(t)
      BY <1>3, <1>9, <2>2, TurnFacts DEF Write, Begin
    <3>2. t \notin durable \cup failed \cup Wrotes
      BY <1>2, <1>4, <3>1, TasksAssumption DEF ToldTrue
    <3>3. t # Nobody /\ running' = Nobody
      BY <1>3, TasksAssumption
    <3>4. \/ t \in durable' /\ t \notin failed'
          \/ t \in failed' /\ t \notin durable'
      <4>1. CASE Write(t)
        BY <1>4, <3>2, <4>1 DEF Write, Fails
      <4>2. CASE Begin(t)
        BY <3>2, <3>3, <4>2 DEF Begin, Fails
      <4> QED BY <2>2, <4>1, <4>2
    <3> QED BY <1>3, <3>1, <3>4 DEF ToldTrue, WriteTurn, Wrotes
  <2> QED BY <2>1, <2>2
<1> QED BY <1>3, <1>6, <1>7, <1>8, <1>10, <1>11 DEF GateInv

\* A BEGIN that succeeds preserves the invariant: its task takes the gate.
LEMMA BeginStep ==
  ASSUME GateInv, NEW t \in Tasks, Begin(t), began' = TRUE, running' = t, ~closed,
         place' = [place EXCEPT ![t] = "running"], UNCHANGED <<turn, failed, faults>>
  PROVE  GateInv'
<1>1. TypeOK /\ PlacesAgree /\ HandleAgrees /\ OffForMigration /\ \A u \in Tasks : ToldTrue(u)
  BY DEF GateInv
<1>2. /\ AtGate(t) /\ queue' = Tail(queue) /\ Kind(t) = "tx"
      /\ UNCHANGED <<pending, durable, foreignKeys, unchecked, checked, overlapped, rewraps, closed>>
  BY DEF Begin
<1>3. /\ place[t] = "queued" /\ turn[t] \in 0..Len(Turns(t)) - 1
      /\ \A u \in Tasks : place[u] \notin {"running", "stuck"}
      /\ queue' \in Seq(Tasks)
      /\ \A i \in DOMAIN queue' : queue'[i] # t /\ place[queue'[i]] \in {"queued", "stuck"}
      /\ \A i, j \in DOMAIN queue' : queue'[i] = queue'[j] => i = j
  BY <1>1, <1>2, AtGateFacts
<1>4. running = Nobody /\ began = FALSE /\ pending = {} /\ turn[t] = WriteTurn(t)
  BY <1>1, <1>2, <1>3, TurnFacts DEF AtGate, HandleAgrees, GateHoldsTransaction, TypeOK, Kind
<1>5. /\ \A u \in Tasks \ {t} : place'[u] = place[u]
      /\ place'[t] = "running" /\ t # Nobody
      /\ place' \in [Tasks -> {"ready", "queued", "running", "stuck", "ended"}]
  BY <1>1, TasksAssumption DEF TypeOK
<1>6. TypeOK'
  BY <1>1, <1>2, <1>3, <1>5 DEF TypeOK
<1>7. PlacesAgree'
  <2>1. turn[t] # Len(Turns(t))
    BY <1>3, TurnFacts
  <2>2. \A u \in Tasks : place'[u] = "ended" <=> turn'[u] = Len(Turns(u))
    BY <1>1, <1>5, <2>1 DEF PlacesAgree
  <2>3. \A i \in DOMAIN queue' : place'[queue'[i]] \in {"queued", "stuck"}
    BY <1>3, <1>5
  <2> QED BY <1>3, <1>4, <1>5, <2>2, <2>3 DEF PlacesAgree
<1>8. HandleAgrees'
  BY <1>2, <1>4, <1>5 DEF HandleAgrees, GateHoldsTransaction, NoForeignWrite
<1>9. OffForMigration'
  BY <1>1, <1>2 DEF OffForMigration
<1>10. ASSUME NEW u \in Tasks PROVE ToldTrue(u)'
  BY <1>1, <1>2, <1>4, TasksAssumption DEF ToldTrue, WriteTurn, Wrotes
<1> QED BY <1>6, <1>7, <1>8, <1>9, <1>10 DEF GateInv

\* A write of a transaction, and a callback that awaits the outer client.
LEMMA CallbackStep ==
  ASSUME GateInv, NEW t \in Tasks, TxWrite(t) \/ Reenter(t)
  PROVE  GateInv'
<1>1. TypeOK /\ PlacesAgree /\ HandleAgrees /\ OffForMigration /\ \A u \in Tasks : ToldTrue(u)
  BY DEF GateInv
<1>2. place[t] = "running" /\ running = t /\ turn[t] = WriteTurn(t) /\ t # Nobody
  BY <1>1, TasksAssumption DEF TxWrite, Reenter, PlacesAgree
<1>3. CASE TxWrite(t)
  <2>1. /\ UNCHANGED <<place, turn, queue, running, began, durable, failed, foreignKeys, faults, rewraps, closed>>
        /\ pending' = pending \cup {t} /\ Wrote(t) /\ ~closed
    BY <1>3 DEF TxWrite, gate
  <2>2. began = TRUE
    BY <1>1, <1>2, <2>1 DEF HandleAgrees, GateHoldsTransaction, TypeOK
  <2>3. TypeOK'
    BY <1>1, <2>1 DEF TypeOK, Wrote
  <2>4. PlacesAgree' /\ HandleAgrees' /\ OffForMigration'
    BY <1>1, <1>2, <2>1, <2>2
       DEF PlacesAgree, HandleAgrees, GateHoldsTransaction, NoForeignWrite, OffForMigration
  <2>5. ASSUME NEW u \in Tasks, u # t PROVE ToldTrue(u)'
    <3>1. u \in Wrotes' <=> u \in Wrotes
      BY <2>1, <2>5 DEF Wrote, Wrotes
    <3> QED BY <1>1, <2>1, <2>5, <3>1, OthersTold
  <2>6. ToldTrue(t)'
    BY <1>1, <1>2, <2>1 DEF ToldTrue, WriteTurn
  <2> QED BY <2>3, <2>4, <2>5, <2>6 DEF GateInv
<1>4. CASE Reenter(t)
  <2>1. /\ queue' = Append(queue, t) /\ place' = [place EXCEPT ![t] = "stuck"]
        /\ UNCHANGED <<turn, running, began, pending, durable, failed,
                       foreignKeys, unchecked, checked, overlapped, faults, rewraps, closed>>
    BY <1>4 DEF Reenter
  <2>2. /\ queue' \in Seq(Tasks)
        /\ \A i \in DOMAIN queue' : queue'[i] = t \/ place[queue'[i]] \in {"queued", "stuck"}
        /\ \A i, j \in DOMAIN queue' : queue'[i] = queue'[j] => i = j
    BY <1>1, <1>2, <2>1, AppendFacts
  <2>3. /\ \A u \in Tasks \ {t} : place'[u] = place[u]
        /\ place'[t] = "stuck"
        /\ place' \in [Tasks -> {"ready", "queued", "running", "stuck", "ended"}]
    BY <1>1, <2>1 DEF TypeOK
  <2>4. TypeOK'
    BY <1>1, <2>1, <2>2, <2>3 DEF TypeOK
  <2>5. PlacesAgree'
    <3>1. \A u \in Tasks : place'[u] = "ended" <=> turn'[u] = Len(Turns(u))
      BY <1>1, <1>2, <2>1, <2>3 DEF PlacesAgree
    <3>2. \A i \in DOMAIN queue' : place'[queue'[i]] \in {"queued", "stuck"}
      BY <2>2, <2>3 DEF TypeOK
    <3> QED BY <1>1, <1>2, <2>1, <2>2, <2>3, <3>1, <3>2 DEF PlacesAgree
  <2>6. HandleAgrees' /\ OffForMigration' /\ \A u \in Tasks : ToldTrue(u)'
    BY <1>1, <2>1 DEF HandleAgrees, GateHoldsTransaction, NoForeignWrite, OffForMigration, ToldTrue, WriteTurn, Wrotes
  <2> QED BY <2>4, <2>5, <2>6 DEF GateInv
<1> QED BY <1>3, <1>4

\* The end of a callback preserves the invariant: its task leaves the gate and
\* what it was told is what COMMIT or ROLLBACK did to its writes.
LEMMA SettleStep ==
  ASSUME GateInv, NEW t \in Tasks, Commit(t) \/ Rollback(t)
  PROVE  GateInv'
<1>1. TypeOK /\ PlacesAgree /\ HandleAgrees /\ OffForMigration /\ \A u \in Tasks : ToldTrue(u)
  BY DEF GateInv
<1>2. /\ place[t] = "running" /\ running = t /\ turn[t] = WriteTurn(t) /\ t # Nobody
      /\ TurnOver(t) /\ began' = FALSE /\ pending' = {}
      /\ UNCHANGED <<queue, foreignKeys, unchecked, checked, overlapped, rewraps, closed>>
  BY <1>1, TasksAssumption DEF Commit, Rollback, PlacesAgree
<1>3. /\ turn \in [Tasks -> 0..3] /\ Len(Turns(t)) \in 1..3 /\ turn[t] < Len(Turns(t))
      /\ place \in [Tasks -> {"ready", "queued", "running", "stuck", "ended"}]
  <2>1. turn[t] # Len(Turns(t)) /\ turn[t] <= Len(Turns(t)) /\ turn[t] \in 0..3
    BY <1>1, <1>2 DEF PlacesAgree, TypeOK
  <2>2. Len(Turns(t)) \in 1..3
    BY TurnFacts
  <2> QED BY <1>1, <2>1, <2>2 DEF TypeOK
<1>4. /\ running' = Nobody /\ turn'[t] = turn[t] + 1 /\ turn'[t] <= Len(Turns(t))
      /\ \A u \in Tasks \ {t} : turn'[u] = turn[u] /\ place'[u] = place[u]
      /\ place'[t] \in {"ready", "ended"} /\ (place'[t] = "ended" <=> turn'[t] = Len(Turns(t)))
      /\ turn' \in [Tasks -> 0..3]
      /\ place' \in [Tasks -> {"ready", "queued", "running", "stuck", "ended"}]
  <2> DEFINE k == turn[t]  n == Len(Turns(t))
  <2>1. k \in 0..3 /\ n \in 1..3 /\ k < n
    BY <1>3
  <2> HIDE DEF k, n
  <2>2. k + 1 \in 0..3 /\ k + 1 <= n
    BY <2>1
  <2>3. turn[t] + 1 \in 0..3 /\ turn[t] + 1 <= Len(Turns(t))
    BY <2>2 DEF k, n
  <2> QED BY <1>2, <1>3, <2>3 DEF TurnOver
<1>5. /\ \/ durable' = durable \cup pending /\ failed' = failed /\ ~closed
         \/ durable' = durable /\ failed' = failed \cup {t}
      /\ faults' = faults \/ (faults < MaxFaults /\ faults' = faults + 1)
  BY DEF Commit, Rollback, Fails
<1>6. TypeOK'
  <2>1. faults' \in 0..MaxFaults
    BY <1>1, <1>5, ModesAssumption DEF TypeOK
  <2> QED BY <1>1, <1>2, <1>4, <1>5, <2>1 DEF TypeOK
<1>7. PlacesAgree'
  <2>1. \A u \in Tasks : place'[u] = "ended" <=> turn'[u] = Len(Turns(u))
    BY <1>1, <1>4 DEF PlacesAgree
  <2>2. \A u \in Tasks : place'[u] \notin {"running", "stuck"}
    BY <1>1, <1>2, <1>4 DEF PlacesAgree
  <2>3. \A i \in DOMAIN queue : queue[i] # t
    BY <1>1, <1>2 DEF PlacesAgree
  <2>4. \A i \in DOMAIN queue : queue[i] \in Tasks
    BY <1>1 DEF TypeOK
  <2>5. \A i \in DOMAIN queue' : place'[queue'[i]] \in {"queued", "stuck"}
    BY <1>1, <1>2, <1>4, <2>3, <2>4 DEF PlacesAgree
  <2> QED BY <1>1, <1>2, <1>4, <2>1, <2>2, <2>5 DEF PlacesAgree
<1>8. HandleAgrees'
  BY <1>2, <1>4 DEF HandleAgrees, GateHoldsTransaction, NoForeignWrite
<1>9. OffForMigration'
  <2>1. \A m \in Migrators : turn[m] \in 1..2 => turn'[m] \in 1..2
    BY <1>2, <1>4 DEF WriteTurn, Tasks
  <2> QED BY <1>1, <1>2, <2>1 DEF OffForMigration
<1>10. pending \subseteq {t}
  BY <1>1, <1>2 DEF HandleAgrees, NoForeignWrite
<1>11. ASSUME NEW u \in Tasks, u # t PROVE ToldTrue(u)'
  <2>1. u \notin pending
    BY <1>10, <1>11
  <2> QED BY <1>1, <1>2, <1>4, <1>5, <1>11, <2>1, OthersTold DEF Wrotes
<1>12. ToldTrue(t)'
  BY <1>1, <1>2, <1>3, <1>4, <1>5, <1>10 DEF ToldTrue, WriteTurn, Wrotes
<1> QED BY <1>6, <1>7, <1>8, <1>9, <1>11, <1>12 DEF GateInv

\* A call that is queued, a handle wrapped again and a close() preserve the invariant.
LEMMA OutsideStep ==
  ASSUME GateInv, (\E t \in Tasks : Enqueue(t)) \/ Rewrap \/ Close \/ UNCHANGED vars
  PROVE  GateInv'
<1>1. TypeOK /\ PlacesAgree /\ HandleAgrees /\ OffForMigration /\ \A u \in Tasks : ToldTrue(u)
  BY DEF GateInv
<1> USE DEF HandleAgrees, GateHoldsTransaction, NoForeignWrite, OffForMigration, ToldTrue, WriteTurn, Wrotes
<1>2. ASSUME NEW t \in Tasks, Enqueue(t) PROVE GateInv'
  <2>1. /\ place[t] = "ready" /\ queue' = Append(queue, t) /\ place' = [place EXCEPT ![t] = "queued"]
        /\ UNCHANGED <<turn, running, began, pending, durable, failed,
                       foreignKeys, unchecked, checked, overlapped, faults, rewraps, closed>>
    BY <1>2 DEF Enqueue
  <2>2. /\ queue' \in Seq(Tasks)
        /\ \A i \in DOMAIN queue' : queue'[i] = t \/ place[queue'[i]] \in {"queued", "stuck"}
        /\ \A i, j \in DOMAIN queue' : queue'[i] = queue'[j] => i = j
    BY <1>1, <2>1, AppendFacts
  <2>3. /\ \A u \in Tasks \ {t} : place'[u] = place[u]
        /\ place'[t] = "queued"
        /\ place' \in [Tasks -> {"ready", "queued", "running", "stuck", "ended"}]
    BY <1>1, <2>1 DEF TypeOK
  <2>4. TypeOK'
    BY <1>1, <2>1, <2>2, <2>3 DEF TypeOK
  <2>5. PlacesAgree'
    <3>1. \A u \in Tasks : place'[u] = "ended" <=> turn'[u] = Len(Turns(u))
      BY <1>1, <2>1, <2>3 DEF PlacesAgree
    <3>2. \A i \in DOMAIN queue' : place'[queue'[i]] \in {"queued", "stuck"}
      BY <2>2, <2>3 DEF TypeOK
    <3>3. running # t
      BY <1>1, <2>1, TasksAssumption DEF PlacesAgree
    <3> QED BY <1>1, <2>1, <2>2, <2>3, <3>1, <3>2, <3>3 DEF PlacesAgree, TypeOK
  <2>6. HandleAgrees' /\ OffForMigration' /\ \A u \in Tasks : ToldTrue(u)'
    BY <1>1, <2>1
  <2> QED BY <2>4, <2>5, <2>6 DEF GateInv
<1>3. CASE Rewrap
  <2>1. rewraps' \in 0..MaxRewraps /\ foreignKeys' \in BOOLEAN
    <3>1. rewraps \in 0..MaxRewraps /\ rewraps < MaxRewraps /\ rewraps' = rewraps + 1
      BY <1>1, <1>3 DEF Rewrap, TypeOK
    <3>2. rewraps' \in 0..MaxRewraps
      BY <3>1, ModesAssumption
    <3>3. foreignKeys' = foreignKeys \/ foreignKeys' = TRUE
      BY <1>3 DEF Rewrap
    <3> QED BY <1>1, <3>2, <3>3 DEF TypeOK
  <2>2. UNCHANGED <<place, turn, queue, running, began, pending, durable, failed,
                    unchecked, checked, faults, closed>>
    BY <1>3 DEF Rewrap, gate
  <2>5. overlapped' \subseteq Tasks
    BY <1>1, <1>3 DEF Rewrap, TypeOK, UnderWay, Tasks
  <2>3. TypeOK' /\ PlacesAgree' /\ HandleAgrees' /\ \A u \in Tasks : ToldTrue(u)'
    BY <1>1, <2>1, <2>2, <2>5 DEF TypeOK, PlacesAgree
  <2>4. OffForMigration'
    BY <1>1, <1>3, <2>2 DEF Rewrap
  <2> QED BY <2>3, <2>4 DEF GateInv
<1>4. CASE Close
  <2>1. /\ UNCHANGED <<place, turn, queue, running, durable, failed, foreignKeys,
                       unchecked, checked, overlapped, faults, rewraps>>
        /\ closed' = TRUE /\ began' = FALSE /\ pending' = {}
    BY <1>4 DEF Close, gate
  <2>2. TypeOK' /\ PlacesAgree'
    BY <1>1, <2>1 DEF TypeOK, PlacesAgree
  <2>3. HandleAgrees' /\ OffForMigration' /\ \A u \in Tasks : ToldTrue(u)'
    BY <1>1, <2>1
  <2> QED BY <2>2, <2>3 DEF GateInv
<1>5. CASE UNCHANGED vars
  BY <1>1, <1>5 DEF vars, GateInv, TypeOK, PlacesAgree
<1> QED BY <1>2, <1>3, <1>4, <1>5

---------------------------------------------------------------------------
\* Every step preserves the invariant.
LEMMA InvStep == GateInv /\ [Next]_vars => GateInv'
<1> SUFFICES ASSUME GateInv, [Next]_vars PROVE GateInv'
  OBVIOUS
<1>1. ASSUME NEW t \in Tasks, Turn(t) PROVE GateInv'
  <2>1. CASE Write(t) \/ Pragma(t)
    BY <2>1, TurnStep
  <2>2. CASE Begin(t)
    <3>1. CASE TurnOver(t) /\ Fails(t) /\ UNCHANGED began
      BY <2>2, <3>1, TurnStep
    <3>2. CASE /\ ~closed /\ began' = TRUE /\ running' = t
               /\ place' = [place EXCEPT ![t] = "running"] /\ UNCHANGED <<turn, failed, faults>>
      BY <2>2, <3>2, BeginStep
    <3> QED BY <2>2, <3>1, <3>2 DEF Begin
  <2> QED BY <1>1, <2>1, <2>2 DEF Turn
<1>2. ASSUME NEW t \in Tasks, TxWrite(t) \/ Reenter(t) PROVE GateInv'
  BY <1>2, CallbackStep
<1>3. ASSUME NEW t \in Tasks, Commit(t) \/ Rollback(t) PROVE GateInv'
  BY <1>3, SettleStep
<1>4. CASE (\E t \in Tasks : Enqueue(t)) \/ Rewrap \/ Close \/ Stopped \/ UNCHANGED vars
  BY <1>4, OutsideStep DEF Stopped
<1> QED BY <1>1, <1>2, <1>3, <1>4 DEF Next

LEMMA InvHolds == Spec => []GateInv
<1> QED BY InvInit, InvStep, PTL DEF Spec

\* Every variable keeps its type.
THEOREM TypeCorrect == Spec => []TypeOK
<1>1. GateInv => TypeOK
  BY DEF GateInv
<1> QED BY <1>1, InvHolds, PTL

\* The gate is held exactly while a transaction is open on the handle.
THEOREM GateIsTheTransaction == Spec => []GateHoldsTransaction
<1>1. GateInv => GateHoldsTransaction
  BY DEF GateInv, HandleAgrees
<1> QED BY <1>1, InvHolds, PTL

\* No write joins another task's open transaction.
THEOREM NothingJoins == Spec => []NoForeignWrite
<1>1. GateInv => NoForeignWrite
  BY DEF GateInv, HandleAgrees
<1> QED BY <1>1, InvHolds, PTL

\* What a task was told is true when it has ended.
THEOREM EveryAnswerIsTrue == Spec => []AnswersAreTrue
<1>1. GateInv => AnswersAreTrue
  <2> SUFFICES ASSUME GateInv, NEW t \in Tasks, place[t] = "ended"
               PROVE  /\ t \notin failed /\ t \in checked \cup unchecked => t \in durable
                      /\ t \in durable => t \notin failed \/ (t \in Migrators /\ closed)
    BY DEF AnswersAreTrue
  <2>1. turn[t] = Len(Turns(t)) /\ ToldTrue(t)
    BY DEF GateInv, PlacesAgree
  <2>2. turn[t] > WriteTurn(t)
    <3>1. Len(Turns(t)) = IF t \in Migrators THEN 3 ELSE 1
      BY TurnFacts
    <3>2. WriteTurn(t) = IF t \in Migrators THEN 1 ELSE 0
      BY DEF WriteTurn
    <3> QED BY <2>1, <3>1, <3>2
  <2> QED BY <2>1, <2>2 DEF ToldTrue, Wrotes
<1> QED BY <1>1, InvHolds, PTL

\* When all tasks have ended, foreign keys are enforced on an open handle.
THEOREM ForeignKeysComeBack == Spec => []ForeignKeysRestored
<1>1. GateInv => ForeignKeysRestored
  <2> SUFFICES ASSUME GateInv, \A t \in Tasks : place[t] = "ended" PROVE foreignKeys \/ closed
    BY DEF ForeignKeysRestored
  <2>1. \A t \in Migrators : turn[t] = 3
    BY TurnFacts DEF GateInv, PlacesAgree, Tasks
  <2> QED BY <2>1 DEF GateInv, OffForMigration
<1> QED BY <1>1, InvHolds, PTL

---------------------------------------------------------------------------
\* A migration that met neither another one nor a rewrap is alone between its
\* OFF and its ON, and finds foreign keys off all that time.
MigrationInv ==
  \A m \in Migrators \ overlapped :
    /\ m \notin checked
    /\ turn[m] \in 1..2 => /\ ~foreignKeys
                           /\ \A n \in Migrators \ {m} : turn[n] \notin 1..2

\* Every step preserves it.
LEMMA MigrationStep ==
  ASSUME GateInv, MigrationInv, [Next]_vars
  PROVE  MigrationInv'
<1> DEFINE Alone(m) == turn'[m] \in 1..2 =>
                         ~foreignKeys' /\ \A n \in Migrators \ {m} : turn'[n] \notin 1..2
<1> SUFFICES ASSUME NEW m \in Migrators, m \notin overlapped'
             PROVE  m \notin checked' /\ Alone(m)
  BY DEF MigrationInv
<1>1. /\ TypeOK /\ PlacesAgree /\ HandleAgrees /\ m \in Tasks
      /\ WriteTurn(m) = 1 /\ turn \in [Tasks -> 0..3]
  BY DEF GateInv, Tasks, WriteTurn, TypeOK
<1>2. overlapped \subseteq overlapped'
  BY DEF Next, Stopped, Enqueue, Turn, Write, Pragma, Begin, TxWrite, Reenter, Commit, Rollback,
         Rewrap, Close, vars, Wrote
<1>4. /\ m \notin checked
      /\ turn[m] \in 1..2 => ~foreignKeys /\ \A n \in Migrators \ {m} : turn[n] \notin 1..2
  BY <1>2 DEF MigrationInv
<1>5. ASSUME NEW t \in Tasks, Write(t) \/ Begin(t) \/ TxWrite(t) \/ Commit(t) \/ Rollback(t)
      PROVE  m \notin checked' /\ Alone(m)
  <2>1. turn[t] = WriteTurn(t)
    <3>1. CASE Write(t) \/ Begin(t)
      <4>1. AtGate(t) /\ Kind(t) \in {"write", "tx"} /\ queue' = Tail(queue)
        BY <3>1 DEF Write, Begin
      <4>2. turn[t] \in 0..Len(Turns(t)) - 1
        BY <1>1, <4>1, AtGateFacts
      <4> QED BY <4>1, <4>2, TurnFacts DEF Kind
    <3>2. CASE TxWrite(t) \/ Commit(t) \/ Rollback(t)
      BY <1>1, <3>2 DEF TxWrite, Commit, Rollback, PlacesAgree
    <3> QED BY <1>5, <3>1, <3>2
  <2>2. foreignKeys' = foreignKeys
    BY <1>5 DEF Write, Begin, TxWrite, Commit, Rollback
  <2>3. checked' = checked \/ (foreignKeys /\ checked' = checked \cup {t})
    BY <1>5 DEF Write, Begin, TxWrite, Commit, Rollback, Wrote
  <2>4. turn' = turn \/ turn' = [turn EXCEPT ![t] = @ + 1]
    BY <1>5 DEF Write, Begin, TxWrite, Commit, Rollback, TurnOver, gate
  <2>5. \A n \in Migrators : turn'[n] \in 1..2 => turn[n] \in 1..2
    BY <1>1, <2>1, <2>4 DEF WriteTurn, Tasks
  <2>6. t = m => ~foreignKeys
    BY <1>1, <1>4, <2>1
  <2> QED BY <1>4, <2>2, <2>3, <2>5, <2>6
<1>6. ASSUME NEW t \in Tasks, Pragma(t)
      PROVE  m \notin checked' /\ Alone(m)
  <2>1. AtGate(t) /\ Kind(t) \in {"off", "on"} /\ queue' = Tail(queue) /\ checked' = checked
    BY <1>6 DEF Pragma
  <2>2. turn[t] \in 0..Len(Turns(t)) - 1
    BY <1>1, <2>1, AtGateFacts
  <2>3. /\ t \in Migrators /\ Len(Turns(t)) = 3
        /\ Kind(t) = "on" => turn[t] = 2
        /\ Kind(t) = "off" => turn[t] = 0
    BY <2>1, <2>2, TurnFacts DEF Kind
  <2>6. \A n \in Tasks \ {t} : turn'[n] = turn[n]
    BY <1>1, <1>6 DEF Pragma, TurnOver, Ends
  <2>4. CASE closed
    <3>1. turn'[t] = 3 /\ foreignKeys' = foreignKeys
      BY <1>1, <1>6, <2>3, <2>4 DEF Pragma, Ends
    <3>2. \A n \in Migrators : turn'[n] \in 1..2 => turn[n] \in 1..2
      BY <2>6, <3>1 DEF Tasks
    <3> QED BY <1>4, <2>1, <3>1, <3>2
  <2>5. CASE ~closed
    <3>1. /\ turn'[t] = turn[t] + 1 /\ running = Nobody /\ ~began
          /\ foreignKeys' = (Kind(t) = "on")
          /\ Kind(t) = "off" /\ UnderWay # {} => overlapped' = overlapped \cup UnderWay \cup {t}
      BY <1>1, <1>6, <2>1, <2>3, <2>5
         DEF Pragma, TurnOver, AtGate, HandleAgrees, GateHoldsTransaction
    <3>2. CASE Kind(t) = "off"
      <4>1. CASE m = t
        <5>1. \A n \in Migrators : turn[n] \notin 1..2
          BY <3>1, <3>2, <4>1 DEF UnderWay
        <5> QED BY <1>4, <2>1, <2>6, <3>1, <3>2, <4>1, <5>1 DEF Tasks
      <4>2. CASE m # t
        <5>1. turn[m] \notin 1..2
          BY <3>1, <3>2 DEF UnderWay
        <5> QED BY <1>1, <1>4, <2>1, <2>6, <4>2, <5>1
      <4> QED BY <4>1, <4>2
    <3>3. CASE Kind(t) = "on"
      <4>1. turn[t] = 2 /\ turn'[t] = 3
        BY <2>3, <3>1, <3>3
      <4>2. m # t => turn[m] \notin 1..2
        BY <1>4, <2>3, <4>1
      <4>3. turn'[m] \notin 1..2
        BY <1>1, <2>6, <4>1, <4>2
      <4> QED BY <1>4, <2>1, <4>3
    <3> QED BY <2>1, <3>2, <3>3
  <2> QED BY <2>4, <2>5
<1>7. CASE Rewrap
  <2>1. turn' = turn /\ checked' = checked
    BY <1>7 DEF Rewrap, gate
  <2>2. CASE began
    BY <1>4, <1>7, <2>1, <2>2 DEF Rewrap
  <2>3. CASE ~began
    <3>1. turn[m] \notin 1..2
      BY <1>7, <2>3 DEF Rewrap, UnderWay
    <3> QED BY <1>4, <2>1, <3>1
  <2> QED BY <2>2, <2>3
<1>8. CASE (\E t \in Tasks : Enqueue(t) \/ Reenter(t)) \/ Close \/ Stopped \/ UNCHANGED vars
  BY <1>4, <1>8 DEF Enqueue, Reenter, Close, Stopped, vars, gate
<1> QED BY <1>5, <1>6, <1>7, <1>8 DEF Next, Turn

\* A migration's statements run with foreign keys off (withSqliteForeignKeysOff),
\* whoever else uses the handle, unless another migration or a rewrap outside a
\* transaction came between its OFF and its ON.
THEOREM RebuildsDoNotCascade == Spec => []MigrationUnchecked
<1>1. Init => MigrationInv
  BY DEF Init, MigrationInv, Tasks
<1>2. GateInv /\ MigrationInv /\ [Next]_vars => MigrationInv'
  BY MigrationStep
<1>3. MigrationInv => MigrationUnchecked
  BY DEF MigrationInv, MigrationUnchecked
<1> QED BY <1>1, <1>2, <1>3, InvHolds, PTL DEF Spec
=============================================================================
