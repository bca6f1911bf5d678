----------------------------- MODULE DeployProofs -----------------------------
(***************************************************************************)
(* Proofs about Deploy, for any runners, folders and setups.  BaseInv says   *)
(* what every step keeps whatever the setup: the types, which command is at  *)
(* which place, which names are still to do, and what an open transaction    *)
(* did and must have done by its place.  StepOf and OthersFit reduce a step  *)
(* to what it changes of its own runner.  On BaseInv rests the deploy lock.  *)
(*                                                                           *)
(* The second part is what the ledger tells.  Seen from the database a step  *)
(* is one of four (Effects): it does nothing there, a statement goes         *)
(* through, a transaction commits, or one is rolled back; CommittedFacts     *)
(* says what a COMMIT brings, by the place it comes from.  Checksums and     *)
(* order rest on the lock (Holds), what is recorded and has run on the       *)
(* exclusion of open transactions, and hold where each theorem says.         *)
(***************************************************************************)
EXTENDS Deploy, FiniteSetTheorems, WellFoundedInduction, TLAPS

\* Numbers: a least one, and a greatest one below a bound.
LEMMA LeastNumber ==
  ASSUME NEW S \in SUBSET Nat, S # {}
  PROVE  \E n \in S : \A m \in S : n <= m
<1>1. IsWellFoundedOn({p \in Nat \X Nat : p[1] < p[2]}, Nat)
  BY NatLessThanWellFounded DEF OpToRel
<1>2. PICK n \in S : \A m \in S : <<m, n>> \notin {p \in Nat \X Nat : p[1] < p[2]}
  BY <1>1, WFMin
<1>3. \A m \in S : ~(m < n)
  BY <1>2
<1> QED BY <1>3

LEMMA GreatestNumber ==
  ASSUME NEW S \in SUBSET Nat, S # {}, NEW b \in Nat, \A n \in S : n <= b
  PROVE  \E n \in S : \A m \in S : m <= n
<1>1. {b - n : n \in S} \in SUBSET Nat /\ {b - n : n \in S} # {}
  <2>1. \A n \in S : n \in Nat /\ n <= b
    OBVIOUS
  <2>2. \A n \in S : b - n \in Nat
    BY <2>1
  <2> QED BY <2>2
<1>2. PICK k \in {b - n : n \in S} : \A m \in {b - n : n \in S} : k <= m
  BY <1>1, LeastNumber
<1>3. PICK n \in S : k = b - n
  BY <1>2
<1>4. \A m \in S : b - n <= b - m
  BY <1>2, <1>3
<1> QED BY <1>3, <1>4
---------------------------------------------------------------------------
(* What every step keeps, whatever the setup. *)

\* A command is at one of its own places, and was one the setup starts.
PlaceFits(r) ==
  /\ pc[r] \in {"locking", "applying"} => cmd[r] = "deploy"
  /\ pc[r] \in {"introspecting", "catching", "recording"} => cmd[r] = "dev"
  /\ pc[r] \in {"choosing", "checking", "undoing", "forgetting", "reverted"} => cmd[r] = "down"
  /\ pc[r] \in {"planning", "colliding"} => cmd[r] # "down"
  /\ pc[r] # "idle" /\ cmd[r] # "deploy" => cmd[r] \in setup.commands

\* The names a command still has to do are there, in the ledger it read or on disk.
TodoFits(r) ==
  /\ pc[r] \in {"idle", "locking", "reading", "planning", "choosing"} => todo[r] = {}
  /\ cmd[r] # "down" => \A n \in todo[r] : up[n] # 0
  /\ pc[r] \in {"checking", "undoing", "forgetting", "reverted"} =>
       todo[r] # {} /\ todo[r] \subseteq Recorded(records[r])
  /\ pc[r] \in {"colliding", "introspecting", "catching"} => todo[r] = batch[r]
  /\ next[r] # 1 => pc[r] = "applying" /\ todo[r] # {} /\ hash[r] # 0

\* What an open transaction did, read off the place of its command.
Did(r, op) ==
  /\ Dialect # "mysql" \/ pc[r] = "recording"
  /\ op.kind = "record" =>
       /\ op.row.name = op.name /\ pc[r] \in {"applying", "recording"}
       /\ op.name \in batch[r] \ todo[r]
  /\ op.kind = "run" =>
       \/ pc[r] = "catching" /\ op.slot = 1 /\ op.name \in Creates
       \/ pc[r] = "applying" /\ op.name \in batch[r] \ todo[r]
       \/ pc[r] = "applying" /\ todo[r] # {} /\ op.name = First(r) /\ op.slot < next[r]
  /\ op.kind = "undo" => pc[r] \in {"forgetting", "reverted"} /\ op.name = First(r)
  /\ op.kind = "forget" => pc[r] = "reverted" /\ op.name = First(r)

\* And what it must have done by then.
HasDone(r) ==
  /\ pc[r] \in {"applying", "recording"} => batch[r] \ todo[r] \subseteq Recorded(RecordedBy(ops[r]))
  /\ pc[r] = "applying" => \A s \in Slots : \A n \in batch[r] \ todo[r] : Run(n, s) \in ops[r]
  /\ pc[r] = "applying" => \A s \in Slots : s < next[r] => Run(First(r), s) \in ops[r]
  /\ pc[r] \in {"forgetting", "reverted"} => Undo(First(r)) \in ops[r]
  /\ pc[r] = "reverted" => Forget(First(r)) \in ops[r]

OpsFit(r) ==
  /\ \A op \in ops[r] : Did(r, op)
  /\ Dialect # "mysql" \/ pc[r] = "recording" => HasDone(r)

FoldersWhole == \A n \in Names : up[n] = 0 <=> down[n] = 0

IdsBounded ==
  \E b \in Nat : \A row \in AllRows \cup UNION {records[r] : r \in Runners} : row.id <= b

BaseInv ==
  /\ TypeOK /\ FoldersWhole /\ IdsBounded
  /\ \A r \in Runners : PlaceFits(r) /\ TodoFits(r) /\ OpsFit(r)

---------------------------------------------------------------------------
(* Facts about the operators. *)

LEMMA NamesAreNumbers == Names \subseteq Nat /\ Creates \subseteq Names
BY NamesAssumption DEF Names

LEMMA RowFacts ==
  ASSUME NEW rows, NEW n \in Recorded(rows)
  PROVE  Row(rows, n) \in rows /\ Row(rows, n).name = n
BY DEF Recorded, Row

\* The kinds of statement, and what tells them apart.
LEMMA OpFacts ==
  /\ \A op \in Ops : /\ op.kind \in {"run", "undo", "forget", "record"} /\ op.name \in Names
                     /\ op.kind = "run" => op.slot \in Slots /\ op = Run(op.name, op.slot)
                     /\ op.kind = "undo" => op = Undo(op.name)
                     /\ op.kind = "forget" => op = Forget(op.name)
                     /\ op.kind = "record" => op.row \in Rows
  /\ \A n \in Names, s \in Slots : Run(n, s) \in Ops
  /\ \A n, s : Run(n, s).kind = "run" /\ Run(n, s).name = n /\ Run(n, s).slot = s
  /\ \A n \in Names : Undo(n) \in Ops /\ Forget(n) \in Ops
  /\ \A n : Undo(n).kind = "undo" /\ Undo(n).name = n
  /\ \A n : Forget(n).kind = "forget" /\ Forget(n).name = n
BY DEF Ops, Run, Undo, Forget

LEMMA RowsFacts ==
  /\ RecordedBy({}) = {}
  /\ \A did, more : RecordedBy(did \cup more) = RecordedBy(did) \cup RecordedBy(more)
  /\ \A did : did \subseteq Ops => RecordedBy(did) \subseteq Rows
  /\ \A op : op.kind = "record" => RecordedBy({op}) = {op.row}
  /\ \A op : op.kind # "record" => RecordedBy({op}) = {}
  /\ Recorded({}) = {}
  /\ \A a, b : Recorded(a \cup b) = Recorded(a) \cup Recorded(b)
  /\ \A a : a \subseteq Rows => Recorded(a) \subseteq Names
BY OpFacts DEF RecordedBy, Recorded, Rows

\* Statements keep the types.
LEMMA AfterFacts ==
  ASSUME TypeOK, NEW did \in SUBSET Ops
  PROVE  /\ After(did).ran \in [Names -> [Slots -> Nat]]
         /\ After(did).ledger \subseteq Rows
<1>1. \A n \in Names, s \in Slots : ran[n][s] \in Nat
  BY DEF TypeOK
<1>2. After(did).ran \in [Names -> [Slots -> Nat]]
  BY <1>1 DEF After
<1>3. RecordedBy(did) \subseteq Rows
  BY RowsFacts
<1> QED BY <1>2, <1>3 DEF After, TypeOK

\* What a set of statements did to one statement of a file.
LEMMA AfterRan ==
  ASSUME NEW did, NEW n \in Names, NEW s \in Slots
  PROVE  After(did).ran[n][s] =
           IF Undo(n) \in did THEN 0 ELSE ran[n][s] + (IF Run(n, s) \in did THEN 1 ELSE 0)
BY DEF After

LEMMA NewIdFacts ==
  ASSUME BaseInv
  PROVE  NewId \in Nat /\ \A row \in AllRows : row.id \in Nat /\ row.id < NewId
<1>1. AllRows \subseteq Rows
  <2>1. UNION {ops[r] : r \in Runners} \subseteq Ops
    BY DEF BaseInv, TypeOK
  <2> QED BY <2>1, RowsFacts DEF AllRows, BaseInv, TypeOK
<1>2. PICK b \in Nat : \A row \in AllRows : row.id <= b
  BY DEF BaseInv, IdsBounded
<1> DEFINE S == {0} \cup {row.id : row \in AllRows}
<1>3. S \in SUBSET Nat /\ S # {} /\ \A n \in S : n <= b
  BY <1>1, <1>2 DEF Rows
<1> HIDE DEF S
<1>4. \E n \in S : \A m \in S : m <= n
  BY <1>3, GreatestNumber
<1>5. Max(S) \in S /\ \A m \in S : m <= Max(S)
  <2>1. \E n \in S : \A m \in S : n >= m
    BY <1>3, <1>4
  <2>2. Max(S) \in S /\ \A m \in S : Max(S) >= m
    BY <2>1 DEF Max
  <2> QED BY <1>3, <2>2
<1>6. NewId = 1 + Max(S)
  BY DEF NewId, S
<1>7. \A row \in AllRows : row.id \in S
  BY DEF S
<1>8. PICK top \in Nat : top = Max(S)
  BY <1>3, <1>5
<1>9. NewId = 1 + top /\ \A row \in AllRows : row.id \in Nat /\ row.id <= top
  BY <1>3, <1>5, <1>6, <1>7, <1>8
<1> QED BY <1>9

\* The name a command does next is one it still has to do.
LEMMA FirstFacts ==
  ASSUME BaseInv, NEW r \in Runners, todo[r] # {},
         cmd[r] = "down" => todo[r] \subseteq Recorded(records[r])
  PROVE  /\ First(r) \in todo[r] /\ First(r) \in Names
         /\ cmd[r] # "down" => \A m \in todo[r] : First(r) <= m
<1>1. todo[r] \subseteq Names /\ todo[r] \in SUBSET Nat /\ records[r] \subseteq Rows
  BY NamesAreNumbers DEF BaseInv, TypeOK
<1>2. \E n \in todo[r] : \A m \in todo[r] : Before(cmd[r], records[r], n, m)
  <2>1. CASE cmd[r] # "down"
    BY <1>1, <2>1, LeastNumber DEF Before
  <2>2. CASE cmd[r] = "down"
    <3> DEFINE S == {Row(records[r], n).id : n \in todo[r]}
    <3>1. \A n \in todo[r] : Row(records[r], n) \in records[r]
      BY <2>2, RowFacts
    <3>2. PICK b \in Nat : \A row \in records[r] : row.id <= b
      BY DEF BaseInv, IdsBounded
    <3>3. \A n \in todo[r] : Row(records[r], n).id \in Nat /\ Row(records[r], n).id <= b
      BY <1>1, <3>1, <3>2 DEF Rows
    <3>4. S \in SUBSET Nat /\ S # {} /\ \A i \in S : i <= b
      BY <3>3
    <3> HIDE DEF S
    <3>5. PICK i \in S : \A j \in S : j <= i
      BY <3>4, GreatestNumber
    <3>6. PICK n \in todo[r] : i = Row(records[r], n).id
      BY <3>5 DEF S
    <3>7. \A m \in todo[r] : Row(records[r], m).id \in S
      BY DEF S
    <3>8. \A m \in todo[r] : Row(records[r], n).id >= Row(records[r], m).id
      BY <3>4, <3>5, <3>6, <3>7
    <3> QED BY <2>2, <3>8 DEF Before
  <2> QED BY <2>1, <2>2
<1>3. First(r) \in todo[r] /\ \A m \in todo[r] : Before(cmd[r], records[r], First(r), m)
  BY <1>2 DEF First, FirstOf
<1> QED BY <1>1, <1>3 DEF Before
---------------------------------------------------------------------------
(* The steps. *)

\* No step of r changes what another runner keeps.
OthersSame(r) ==
  \A q \in Runners \ {r} :
    /\ pc'[q] = pc[q] /\ cmd'[q] = cmd[q] /\ records'[q] = records[q] /\ batch'[q] = batch[q]
    /\ todo'[q] = todo[q] /\ fix'[q] = fix[q] /\ next'[q] = next[q] /\ hash'[q] = hash[q]
    /\ ops'[q] = ops[q]

\* At most one row is new, with the next id.
RowsGrow == \A row \in AllRows' : row \in AllRows \/ row.id = NewId

LEMMA OthersFit ==
  ASSUME NEW r, NEW q \in Runners \ {r}, OthersSame(r), PlaceFits(q), TodoFits(q), OpsFit(q),
         setup' = setup, up' = up
  PROVE  PlaceFits(q)' /\ TodoFits(q)' /\ OpsFit(q)'
<1>1. First(q)' = First(q)
  BY DEF First, OthersSame
<1> QED BY <1>1 DEF OthersSame, PlaceFits, TodoFits, OpsFit, Did, HasDone, Dialect

\* So a step of r needs to be looked at only where it is r's own.
LEMMA StepOf ==
  ASSUME BaseInv, NEW r \in Runners, setup' = setup, up' = up, down' = down,
         TypeOK', OthersSame(r), RowsGrow, records'[r] \subseteq records[r] \cup ledger,
         PlaceFits(r)', TodoFits(r)', OpsFit(r)'
  PROVE  BaseInv'
<1>1. FoldersWhole'
  BY DEF BaseInv, FoldersWhole
<1>2. \A q \in Runners : PlaceFits(q)' /\ TodoFits(q)' /\ OpsFit(q)'
  BY OthersFit DEF BaseInv
<1>3. IdsBounded'
  <2>1. PICK b \in Nat : \A row \in AllRows \cup UNION {records[q] : q \in Runners} : row.id <= b
    BY DEF BaseInv, IdsBounded
  <2>2. PICK c \in Nat : c = NewId
    BY NewIdFacts
  <2>3. AllRows \subseteq Rows
    <3>1. UNION {ops[q] : q \in Runners} \subseteq Ops
      BY DEF BaseInv, TypeOK
    <3> QED BY <3>1, RowsFacts DEF AllRows, BaseInv, TypeOK
  <2>4. UNION {records[q] : q \in Runners} \subseteq Rows
    BY DEF BaseInv, TypeOK
  <2>5. \A row \in AllRows \cup UNION {records[q] : q \in Runners} : row.id \in Nat /\ row.id <= b + c
    BY <2>1, <2>2, <2>3, <2>4 DEF Rows
  <2>6. \A row \in AllRows' : row.id <= b + c
    BY <2>2, <2>5 DEF RowsGrow
  <2>7. \A q \in Runners : records'[q] \subseteq records[q] \cup ledger
    BY DEF OthersSame
  <2>8. \A row \in UNION {records'[q] : q \in Runners} : row.id <= b + c
    BY <2>5, <2>7 DEF AllRows
  <2>9. b + c \in Nat
    BY <2>2
  <2> QED BY <2>6, <2>8, <2>9 DEF IdsBounded
<1> QED BY <1>1, <1>2, <1>3 DEF BaseInv

\* A transaction at one of these places has done nothing.
LEMMA NothingDone ==
  ASSUME BaseInv, NEW r \in Runners,
         pc[r] \notin {"catching", "applying", "recording", "forgetting", "reverted"}
  PROVE  ops[r] = {}
<1>1. \A op \in ops[r] : op \in Ops /\ Did(r, op)
  BY DEF BaseInv, TypeOK, OpsFit
<1> QED BY <1>1, OpFacts DEF Did

\* The rows there are after a statement, a COMMIT and a ROLLBACK.
LEMMA RowsAfter ==
  ASSUME BaseInv, NEW r \in Runners
  PROVE  /\ \A op \in Ops : Does(r, op) /\ (op.kind = "record" => op.row.id = NewId) => RowsGrow
         /\ Publish(r) => RowsGrow
         /\ ops' = [ops EXCEPT ![r] = {}] /\ ledger' = ledger => RowsGrow
         /\ UNCHANGED <<ops, ledger>> => RowsGrow
<1> DEFINE all == UNION {ops[q] : q \in Runners}
<1>0. ops \in [Runners -> SUBSET Ops]
  BY DEF BaseInv, TypeOK
<1>1. ASSUME NEW op \in Ops, Does(r, op), op.kind = "record" => op.row.id = NewId
      PROVE RowsGrow
  <2>1. RecordedBy({op}) \subseteq {op.row} /\ (op.kind # "record" => RecordedBy({op}) = {})
    BY RowsFacts
  <2>2. CASE Autocommits(r)
    <3>1. ops' = ops /\ ledger' \subseteq ledger \cup RecordedBy({op})
      BY <1>1, <2>2 DEF Does, After
    <3> QED BY <1>1, <2>1, <3>1 DEF RowsGrow, AllRows
  <2>3. CASE ~Autocommits(r)
    <3>1. ops' = [ops EXCEPT ![r] = @ \cup {op}] /\ ledger' = ledger
      BY <1>1, <2>3 DEF Does, db
    <3>2. UNION {ops'[q] : q \in Runners} = all \cup {op}
      BY <1>0, <3>1
    <3>3. RecordedBy(UNION {ops'[q] : q \in Runners}) = RecordedBy(all) \cup RecordedBy({op})
      BY <3>2, RowsFacts
    <3> QED BY <1>1, <2>1, <3>1, <3>3 DEF RowsGrow, AllRows
  <2> QED BY <2>2, <2>3
<1>2. ASSUME ops' = [ops EXCEPT ![r] = {}], ledger' \subseteq ledger \cup RecordedBy(ops[r])
      PROVE RowsGrow
  <2>1. UNION {ops'[q] : q \in Runners} \subseteq all /\ ops[r] \subseteq all
    BY <1>0, <1>2
  <2>2. RecordedBy(UNION {ops'[q] : q \in Runners}) \subseteq RecordedBy(all)
        /\ RecordedBy(ops[r]) \subseteq RecordedBy(all)
    BY <2>1 DEF RecordedBy
  <2> QED BY <1>2, <2>2 DEF RowsGrow, AllRows
<1>3. Publish(r) => RowsGrow
  BY <1>2 DEF Publish, Visible, After
<1>4. UNCHANGED <<ops, ledger>> => RowsGrow
  BY DEF RowsGrow, AllRows
<1> QED BY <1>1, <1>2, <1>3, <1>4

\* The statement a command sends next.
LEMMA StatementFacts ==
  ASSUME BaseInv, NEW r \in Runners, Sends(r)
  PROVE  /\ Statement(r) \in Ops
         /\ Statement(r).kind = "record" =>
              /\ Statement(r).row.id = NewId /\ Statement(r).row.name = Statement(r).name
              /\ pc[r] \in {"recording", "applying"} /\ Statement(r).name = First(r)
         /\ pc[r] = "catching" => /\ Statement(r) = Run(Min(fix[r]), 1)
                                  /\ Min(fix[r]) \in fix[r] /\ Min(fix[r]) \in Creates
         /\ pc[r] # "catching" => First(r) \in todo[r] /\ First(r) \in Names
         /\ pc[r] = "recording" => Statement(r).kind = "record"
         /\ pc[r] = "applying" /\ next[r] \in Slots => Statement(r) = Run(First(r), next[r])
         /\ pc[r] = "applying" /\ next[r] \notin Slots => Statement(r).kind = "record"
         /\ pc[r] = "undoing" => Statement(r) = Undo(First(r))
         /\ pc[r] = "forgetting" => Statement(r) = Forget(First(r))
<1>1. TypeOK /\ PlaceFits(r) /\ TodoFits(r) /\ FoldersWhole
  BY DEF BaseInv
<1>2. CASE pc[r] = "catching"
  <2>1. fix[r] # {} /\ fix[r] \subseteq Creates /\ fix[r] \in SUBSET Nat
    BY <1>1, <1>2, NamesAreNumbers DEF Sends, TypeOK
  <2>2. \E n \in fix[r] : \A m \in fix[r] : n <= m
    BY <2>1, LeastNumber
  <2>3. Min(fix[r]) \in fix[r]
    BY <2>2 DEF Min
  <2>4. Statement(r) = Run(Min(fix[r]), 1) /\ Statement(r).kind = "run"
    BY <1>2, OpFacts DEF Statement
  <2>5. Statement(r) \in Ops
    BY <2>1, <2>3, <2>4, NamesAreNumbers, OpFacts DEF Slots
  <2> QED BY <1>2, <2>1, <2>3, <2>4, <2>5
<1>3. CASE pc[r] # "catching"
  <2>1. pc[r] \in {"applying", "recording", "undoing", "forgetting"} /\ todo[r] # {}
    BY <1>1, <1>3 DEF Sends, TodoFits
  <2>2. cmd[r] = "down" => todo[r] \subseteq Recorded(records[r])
    BY <1>1, <2>1 DEF PlaceFits, TodoFits
  <2>3. First(r) \in todo[r] /\ First(r) \in Names
    BY <2>1, <2>2, FirstFacts
  <2>4. CASE pc[r] = "undoing" \/ pc[r] = "forgetting"
    BY <2>3, <2>4, OpFacts DEF Statement
  <2>5. pc[r] \in {"applying", "recording"} =>
          up[First(r)] \in 1..2 /\ down[First(r)] \in 1..2
    <3> SUFFICES ASSUME pc[r] \in {"applying", "recording"}
                 PROVE  up[First(r)] \in 1..2 /\ down[First(r)] \in 1..2
      OBVIOUS
    <3>1. up[First(r)] # 0
      BY <1>1, <2>3 DEF PlaceFits, TodoFits
    <3>2. down[First(r)] # 0 /\ up[First(r)] \in 0..2 /\ down[First(r)] \in 0..2
      BY <1>1, <2>3, <3>1 DEF FoldersWhole, TypeOK
    <3> QED BY <3>1, <3>2
  <2>6. \A u, d \in 1..2 : LET op == Record(First(r), u, d)
                          IN /\ op \in Ops /\ op.kind = "record" /\ op.name = First(r)
                             /\ op.row.id = NewId /\ op.row.name = First(r)
    BY <2>3, NewIdFacts DEF Record, Ops, Rows
  <2>7. CASE pc[r] = "recording"
    BY <2>3, <2>5, <2>6, <2>7 DEF Statement
  <2>8. CASE pc[r] = "applying"
    <3>1. CASE next[r] \in Slots
      BY <2>3, <2>8, <3>1, OpFacts DEF Statement
    <3>2. CASE next[r] \notin Slots
      <4>1. hash[r] \in 1..2
        BY <1>1, <3>2 DEF TodoFits, TypeOK, Slots
      <4> QED BY <2>3, <2>5, <2>6, <2>8, <3>2, <4>1 DEF Statement
    <3> QED BY <3>1, <3>2
  <2> QED BY <2>1, <2>4, <2>7, <2>8
<1> QED BY <1>2, <1>3

\* A statement that goes through, a COMMIT and the end of a command keep the types.
LEMMA DoesFacts ==
  ASSUME BaseInv, NEW r \in Runners, NEW op \in Ops, Does(r, op)
  PROVE  /\ ran' \in [Names -> [Slots -> Nat]] /\ ledger' \subseteq Rows
         /\ ops' \in [Runners -> SUBSET Ops] /\ \A q \in Runners \ {r} : ops'[q] = ops[q]
         /\ ops'[r] = IF Autocommits(r) THEN ops[r] ELSE ops[r] \cup {op}
         /\ lock' \in Runners \cup {NoRunner}
<1>1. TypeOK
  BY DEF BaseInv
<1>2. After({op}).ran \in [Names -> [Slots -> Nat]] /\ After({op}).ledger \subseteq Rows
  BY <1>1, AfterFacts
<1>3. CASE Autocommits(r)
  BY <1>1, <1>2, <1>3 DEF Does, TypeOK
<1>4. CASE ~Autocommits(r)
  BY <1>1, <1>4 DEF Does, TypeOK, db
<1> QED BY <1>3, <1>4

LEMMA PublishFacts ==
  ASSUME BaseInv, NEW r \in Runners, Publish(r)
  PROVE  /\ ran' \in [Names -> [Slots -> Nat]] /\ ledger' \subseteq Rows
         /\ ops' \in [Runners -> SUBSET Ops] /\ \A q \in Runners \ {r} : ops'[q] = ops[q]
         /\ ops'[r] = {}
<1>1. TypeOK /\ ops[r] \in SUBSET Ops
  BY DEF BaseInv, TypeOK
<1>2. After(ops[r]).ran \in [Names -> [Slots -> Nat]] /\ After(ops[r]).ledger \subseteq Rows
  BY <1>1, AfterFacts
<1> QED BY <1>1, <1>2 DEF Publish, Visible, TypeOK

\* What a command that is over leaves in order.
LEMMA EndsFacts ==
  ASSUME BaseInv, NEW r \in Runners, Ends(r), setup' = setup, up' = up, down' = down, RowsGrow,
         ops' \in [Runners -> SUBSET Ops], ops'[r] = {}, \A q \in Runners \ {r} : ops'[q] = ops[q],
         ran' \in [Names -> [Slots -> Nat]], ledger' \subseteq Rows,
         lock' \in Runners \cup {NoRunner}, content' \in [Names -> 0..2], caughtUp' \subseteq Names,
         runs' \in 0..setup.maxRuns, faults' \in 0..setup.maxFaults, edits' \in 0..setup.maxEdits
  PROVE  BaseInv' /\ pc'[r] = "idle" /\ todo'[r] = {} /\ batch'[r] = {}
<1>1. TypeOK
  BY DEF BaseInv
<1>t. /\ pc \in [Runners -> Places] /\ cmd \in [Runners -> {"deploy", "dev", "down"}]
      /\ records \in [Runners -> SUBSET Rows] /\ batch \in [Runners -> SUBSET Names]
      /\ todo \in [Runners -> SUBSET Names] /\ \A q \in Runners : todo[q] \subseteq batch[q]
      /\ fix \in [Runners -> SUBSET Creates]
      /\ next \in [Runners -> 1..3] /\ hash \in [Runners -> 0..2]
      /\ devLock \in Runners \cup {NoRunner}
  BY <1>1 DEF TypeOK
<1>2. /\ pc' = [pc EXCEPT ![r] = "idle"] /\ cmd' = cmd
      /\ records' = [records EXCEPT ![r] = {}] /\ batch' = [batch EXCEPT ![r] = {}]
      /\ todo' = [todo EXCEPT ![r] = {}] /\ fix' = [fix EXCEPT ![r] = {}]
      /\ next' = [next EXCEPT ![r] = 1] /\ hash' = [hash EXCEPT ![r] = 0]
      /\ devLock' \in {devLock, NoRunner}
  BY DEF Ends, Goto
<1>3. /\ pc' \in [Runners -> Places] /\ cmd' \in [Runners -> {"deploy", "dev", "down"}]
      /\ records' \in [Runners -> SUBSET Rows] /\ batch' \in [Runners -> SUBSET Names]
      /\ todo' \in [Runners -> SUBSET Names] /\ \A q \in Runners : todo'[q] \subseteq batch'[q]
      /\ fix' \in [Runners -> SUBSET Creates]
      /\ next' \in [Runners -> 1..3] /\ hash' \in [Runners -> 0..2]
      /\ devLock' \in Runners \cup {NoRunner}
  BY <1>t, <1>2 DEF Places
<1>4. TypeOK'
  BY <1>1, <1>3 DEF TypeOK
<1>5. OthersSame(r)
  BY <1>2 DEF OthersSame
<1>6. /\ pc'[r] = "idle" /\ todo'[r] = {} /\ batch'[r] = {} /\ next'[r] = 1 /\ records'[r] = {}
  BY <1>t, <1>2
<1>7. PlaceFits(r)' /\ TodoFits(r)' /\ OpsFit(r)'
  BY <1>6 DEF PlaceFits, TodoFits, OpsFit, HasDone
<1> QED BY <1>4, <1>5, <1>6, <1>7, StepOf

\* A command starts, and asks for the lock, gets it or no longer waits for it.
LEMMA StartStep ==
  ASSUME BaseInv, NEW r \in Runners, Start(r)
  PROVE  BaseInv'
<1>1. TypeOK /\ PlaceFits(r) /\ TodoFits(r) /\ ops[r] = {}
  <2>1. pc[r] = "idle"
    BY DEF Start
  <2> QED BY <2>1, NothingDone DEF BaseInv
<1>2. PICK c \in setup.commands :
        /\ devLock' \in {devLock, r} /\ cmd' = [cmd EXCEPT ![r] = c]
        /\ pc' = [pc EXCEPT ![r] = IF c = "deploy" THEN "locking" ELSE "reading"]
  BY DEF Start, Goto
<1>3. /\ pc[r] = "idle" /\ runs < setup.maxRuns /\ runs' = runs + 1
      /\ setup' = setup /\ up' = up /\ down' = down /\ ran' = ran /\ ledger' = ledger /\ lock' = lock
      /\ records' = records /\ batch' = batch /\ todo' = todo /\ fix' = fix /\ next' = next
      /\ hash' = hash /\ ops' = ops /\ content' = content /\ caughtUp' = caughtUp
      /\ faults' = faults /\ edits' = edits
  BY DEF Start, disk, db, own
<1>4. c \in {"deploy", "dev", "down"} /\ setup.maxRuns \in Nat
  BY <1>1, SetupsAssumption DEF TypeOK
<1>5. TypeOK'
  <2>1. /\ pc' \in [Runners -> Places] /\ cmd' \in [Runners -> {"deploy", "dev", "down"}]
        /\ devLock' \in Runners \cup {NoRunner} /\ runs' \in 0..setup.maxRuns
    BY <1>1, <1>2, <1>3, <1>4 DEF TypeOK, Places
  <2> QED BY <1>1, <1>3, <2>1 DEF TypeOK
<1>6. OthersSame(r) /\ RowsGrow
  BY <1>1, <1>2, <1>3, RowsAfter DEF OthersSame, TypeOK
<1>7. pc'[r] \in {"locking", "reading"} /\ cmd'[r] = c /\ (pc'[r] = "locking" => c = "deploy")
  BY <1>1, <1>2 DEF TypeOK
<1>8. todo'[r] = {} /\ next'[r] = 1 /\ ops'[r] = {}
  BY <1>1, <1>3 DEF TodoFits
<1>9. PlaceFits(r)' /\ TodoFits(r)' /\ OpsFit(r)'
  BY <1>2, <1>3, <1>7, <1>8 DEF PlaceFits, TodoFits, OpsFit, HasDone
<1> QED BY <1>3, <1>5, <1>6, <1>9, StepOf

LEMMA LockStep ==
  ASSUME BaseInv, NEW r \in Runners, setup' = setup, Lock(r) \/ GetLockTimesOut(r)
  PROVE  BaseInv'
<1>1. /\ pc[r] = "locking" /\ pc' = [pc EXCEPT ![r] = "reading"] /\ lock' \in {lock, r}
      /\ devLock' = devLock /\ up' = up /\ down' = down /\ ran' = ran /\ ledger' = ledger /\ cmd' = cmd
      /\ records' = records /\ batch' = batch /\ todo' = todo /\ fix' = fix /\ next' = next
      /\ hash' = hash /\ ops' = ops /\ content' = content /\ caughtUp' = caughtUp
      /\ runs' = runs /\ faults' = faults /\ edits' = edits
  BY DEF Lock, GetLockTimesOut, Goto, disk, db, own, counts
<1>2. TypeOK /\ PlaceFits(r) /\ TodoFits(r) /\ ops[r] = {}
  BY <1>1, NothingDone DEF BaseInv
<1>3. TypeOK'
  <2>1. pc' \in [Runners -> Places]
    BY <1>1, <1>2 DEF TypeOK, Places
  <2> QED BY <1>1, <1>2, <2>1 DEF TypeOK
<1>4. OthersSame(r) /\ RowsGrow /\ pc'[r] = "reading"
  BY <1>1, <1>2, RowsAfter DEF OthersSame, TypeOK
<1>5. PlaceFits(r)' /\ TodoFits(r)' /\ OpsFit(r)'
  BY <1>1, <1>2, <1>4 DEF PlaceFits, TodoFits, OpsFit, HasDone
<1> QED BY <1>1, <1>3, <1>4, <1>5, StepOf

\* The ledger is read.
LEMMA ReadStep ==
  ASSUME BaseInv, NEW r \in Runners, setup' = setup, Read(r)
  PROVE  BaseInv'
<1>1. /\ pc[r] = "reading" /\ records' = [records EXCEPT ![r] = ledger]
      /\ pc' = [pc EXCEPT ![r] = IF cmd[r] = "down" THEN "choosing" ELSE "planning"]
      /\ devLock' = devLock /\ up' = up /\ down' = down /\ ran' = ran /\ ledger' = ledger /\ cmd' = cmd
      /\ batch' = batch /\ todo' = todo /\ fix' = fix /\ next' = next /\ lock' = lock
      /\ hash' = hash /\ ops' = ops /\ content' = content /\ caughtUp' = caughtUp
      /\ runs' = runs /\ faults' = faults /\ edits' = edits
  BY DEF Read, Goto, disk, db, counts
<1>2. TypeOK /\ PlaceFits(r) /\ TodoFits(r) /\ ops[r] = {}
  BY <1>1, NothingDone DEF BaseInv
<1>3. TypeOK'
  <2>1. pc' \in [Runners -> Places] /\ records' \in [Runners -> SUBSET Rows]
    BY <1>1, <1>2 DEF TypeOK, Places
  <2> QED BY <1>1, <1>2, <2>1 DEF TypeOK
<1>4. /\ OthersSame(r) /\ RowsGrow /\ records'[r] = ledger
      /\ pc'[r] = IF cmd[r] = "down" THEN "choosing" ELSE "planning"
  BY <1>1, <1>2, RowsAfter DEF OthersSame, TypeOK
<1>5. PlaceFits(r)' /\ TodoFits(r)' /\ OpsFit(r)'
  BY <1>1, <1>2, <1>4 DEF PlaceFits, TodoFits, OpsFit, HasDone
<1> QED BY <1>1, <1>3, <1>4, <1>5, StepOf

\* The plan: the command ends, or decides on the pending files.
LEMMA PlanStep ==
  ASSUME BaseInv, NEW r \in Runners, setup' = setup, Plan(r)
  PROVE  BaseInv'
<1>1. /\ pc[r] = "planning" /\ up' = up /\ down' = down /\ ran' = ran /\ ledger' = ledger
      /\ ops' = ops /\ content' = content /\ caughtUp' = caughtUp
      /\ runs' = runs /\ faults' = faults /\ edits' = edits
  BY DEF Plan, disk, db, counts
<1>2. /\ TypeOK /\ PlaceFits(r) /\ TodoFits(r) /\ ops[r] = {} /\ RowsGrow
      /\ cmd[r] # "down" /\ todo[r] = {} /\ next[r] = 1
  BY <1>1, NothingDone, RowsAfter DEF BaseInv, PlaceFits, TodoFits
<1>3. CASE Ends(r) /\ lock' = Unlocked(r)
  BY <1>1, <1>2, <1>3, EndsFacts DEF Unlocked, TypeOK
<1>4. CASE /\ batch' = [batch EXCEPT ![r] = Pending(r)] /\ todo' = [todo EXCEPT ![r] = Pending(r)]
           /\ pc' = [pc EXCEPT ![r] = "colliding"]
           /\ UNCHANGED <<lock, devLock, cmd, records, fix, next, hash>>
  <2>1. Pending(r) \subseteq Names /\ \A n \in Pending(r) : up[n] # 0
    BY DEF Pending
  <2>2. TypeOK'
    <3>1. /\ pc' \in [Runners -> Places] /\ batch' \in [Runners -> SUBSET Names]
          /\ todo' \in [Runners -> SUBSET Names] /\ \A q \in Runners : todo'[q] \subseteq batch'[q]
      BY <1>2, <1>4, <2>1 DEF TypeOK, Places
    <3> QED BY <1>1, <1>2, <1>4, <3>1 DEF TypeOK
  <2>3. /\ OthersSame(r) /\ batch'[r] = Pending(r) /\ todo'[r] = Pending(r) /\ pc'[r] = "colliding"
    BY <1>1, <1>2, <1>4, <2>1 DEF OthersSame, TypeOK
  <2>4. PlaceFits(r)' /\ TodoFits(r)' /\ OpsFit(r)'
    BY <1>1, <1>2, <1>4, <2>1, <2>3 DEF PlaceFits, TodoFits, OpsFit, HasDone
  <2> QED BY <1>1, <1>2, <1>4, <2>2, <2>3, <2>4, StepOf
<1> QED BY <1>3, <1>4 DEF Plan, Decides, Goto

\* The look at the live tables: the command ends, goes on to the files or to the
\* catch-up, or to its deploy.
LEMMA CollideStep ==
  ASSUME BaseInv, NEW r \in Runners, setup' = setup, Collide(r)
  PROVE  BaseInv'
<1>1. /\ pc[r] = "colliding" /\ up' = up /\ down' = down /\ ran' = ran /\ ledger' = ledger
      /\ ops' = ops /\ content' = content /\ caughtUp' = caughtUp
      /\ runs' = runs /\ faults' = faults /\ edits' = edits
  BY DEF Collide, disk, db, counts
<1>2. /\ TypeOK /\ PlaceFits(r) /\ TodoFits(r) /\ ops[r] = {} /\ RowsGrow
      /\ cmd[r] # "down" /\ todo[r] = batch[r] /\ next[r] = 1
  BY <1>1, NothingDone, RowsAfter DEF BaseInv, PlaceFits, TodoFits
<1>3. CASE Ends(r) /\ lock' = Unlocked(r)
  BY <1>1, <1>2, <1>3, EndsFacts DEF Unlocked, TypeOK
<1>4. CASE /\ pc' = [pc EXCEPT ![r] = IF cmd[r] = "deploy" THEN "applying" ELSE "introspecting"]
           /\ UNCHANGED <<lock, devLock, cmd, own>>
  <2>1. /\ records' = records /\ batch' = batch /\ todo' = todo /\ fix' = fix /\ next' = next /\ hash' = hash
        /\ lock' = lock /\ devLock' = devLock /\ cmd' = cmd
    BY <1>4 DEF own
  <2>2. TypeOK'
    <3>1. pc' \in [Runners -> Places]
      BY <1>2, <1>4 DEF TypeOK, Places
    <3> QED BY <1>1, <1>2, <2>1, <3>1 DEF TypeOK
  <2>3. OthersSame(r) /\ pc'[r] = IF cmd[r] = "deploy" THEN "applying" ELSE "introspecting"
    BY <1>1, <1>2, <1>4, <2>1 DEF OthersSame, TypeOK
  <2>4. cmd[r] \in {"deploy", "dev"}
    BY <1>2 DEF TypeOK
  <2>5. PlaceFits(r)' /\ TodoFits(r)'
    BY <1>1, <1>2, <2>1, <2>3, <2>4 DEF PlaceFits, TodoFits
  <2>6. OpsFit(r)'
    BY <1>1, <1>2, <2>1, <2>3 DEF OpsFit, HasDone, Slots
  <2> QED BY <1>1, <1>2, <2>1, <2>2, <2>3, <2>5, <2>6, StepOf
<1>5. CASE /\ cmd' = [cmd EXCEPT ![r] = "deploy"] /\ pc' = [pc EXCEPT ![r] = "locking"]
           /\ batch' = [batch EXCEPT ![r] = {}] /\ todo' = [todo EXCEPT ![r] = {}]
           /\ UNCHANGED <<lock, devLock, records, fix, next, hash>>
  <2>1. TypeOK'
    <3>1. /\ pc' \in [Runners -> Places] /\ cmd' \in [Runners -> {"deploy", "dev", "down"}]
          /\ batch' \in [Runners -> SUBSET Names] /\ todo' \in [Runners -> SUBSET Names]
          /\ \A q \in Runners : todo'[q] \subseteq batch'[q]
      BY <1>2, <1>5 DEF TypeOK, Places
    <3> QED BY <1>1, <1>2, <1>5, <3>1 DEF TypeOK
  <2>2. OthersSame(r) /\ pc'[r] = "locking" /\ cmd'[r] = "deploy" /\ todo'[r] = {}
    BY <1>1, <1>2, <1>5 DEF OthersSame, TypeOK
  <2>3. PlaceFits(r)' /\ TodoFits(r)' /\ OpsFit(r)'
    BY <1>1, <1>2, <1>5, <2>2 DEF PlaceFits, TodoFits, OpsFit, HasDone
  <2> QED BY <1>1, <1>2, <1>5, <2>1, <2>2, <2>3, StepOf
<1> QED BY <1>3, <1>4, <1>5 DEF Collide, Decides, Goto

\* The catch-up is decided on.
LEMMA IntrospectStep ==
  ASSUME BaseInv, NEW r \in Runners, setup' = setup, Introspect(r)
  PROVE  BaseInv'
<1>1. /\ pc[r] = "introspecting" /\ pc' = [pc EXCEPT ![r] = "catching"]
      /\ fix' = [fix EXCEPT ![r] = {n \in Creates : up[n] # 0 /\ ran[n][1] = 0}]
      /\ up' = up /\ down' = down /\ ran' = ran /\ ledger' = ledger /\ cmd' = cmd /\ devLock' = devLock
      /\ records' = records /\ batch' = batch /\ todo' = todo /\ next' = next /\ lock' = lock
      /\ hash' = hash /\ ops' = ops /\ content' = content /\ caughtUp' = caughtUp
      /\ runs' = runs /\ faults' = faults /\ edits' = edits
  BY DEF Introspect, Goto, disk, db, counts
<1>2. TypeOK /\ PlaceFits(r) /\ TodoFits(r) /\ ops[r] = {} /\ todo[r] = batch[r]
  BY <1>1, NothingDone DEF BaseInv, TodoFits
<1>3. TypeOK'
  <2>1. pc' \in [Runners -> Places] /\ fix' \in [Runners -> SUBSET Creates]
    BY <1>1, <1>2 DEF TypeOK, Places
  <2> QED BY <1>1, <1>2, <2>1 DEF TypeOK
<1>4. OthersSame(r) /\ RowsGrow /\ pc'[r] = "catching"
  BY <1>1, <1>2, RowsAfter DEF OthersSame, TypeOK
<1>5. PlaceFits(r)' /\ TodoFits(r)' /\ OpsFit(r)'
  BY <1>1, <1>2, <1>4 DEF PlaceFits, TodoFits, OpsFit, HasDone
<1> QED BY <1>1, <1>3, <1>4, <1>5, StepOf

\* A statement of the catch-up, and the end of it.
LEMMA CatchUpStep ==
  ASSUME BaseInv, NEW r \in Runners, setup' = setup, CatchUp(r)
  PROVE  BaseInv'
<1>1. /\ pc[r] = "catching" /\ up' = up /\ down' = down /\ cmd' = cmd /\ devLock' = devLock
      /\ records' = records /\ batch' = batch /\ todo' = todo /\ next' = next
      /\ hash' = hash /\ content' = content /\ caughtUp' = caughtUp
      /\ runs' = runs /\ faults' = faults /\ edits' = edits
  BY DEF CatchUp, disk, counts
<1>2. /\ TypeOK /\ PlaceFits(r) /\ TodoFits(r) /\ OpsFit(r) /\ todo[r] = batch[r]
      /\ cmd[r] = "dev" /\ next[r] = 1
  BY <1>1 DEF BaseInv, TodoFits, PlaceFits
<1>3. CASE fix[r] # {} /\ Does(r, Statement(r)) /\ fix' = [fix EXCEPT ![r] = @ \ {Min(fix[r])}] /\ pc' = pc
  <2>1. PICK op \in Ops : /\ op = Statement(r) /\ Min(fix[r]) \in Creates
                          /\ op.kind = "run" /\ op.name = Min(fix[r]) /\ op.slot = 1
    BY <1>1, <1>3, StatementFacts, OpFacts DEF Sends
  <2>2. /\ ran' \in [Names -> [Slots -> Nat]] /\ ledger' \subseteq Rows
        /\ ops' \in [Runners -> SUBSET Ops] /\ \A q \in Runners \ {r} : ops'[q] = ops[q]
        /\ ops'[r] = IF Autocommits(r) THEN ops[r] ELSE ops[r] \cup {op}
        /\ lock' \in Runners \cup {NoRunner} /\ RowsGrow
    BY <1>3, <2>1, DoesFacts, RowsAfter
  <2>3. TypeOK'
    <3>1. fix' \in [Runners -> SUBSET Creates]
      BY <1>2, <1>3 DEF TypeOK
    <3> QED BY <1>1, <1>2, <1>3, <2>2, <3>1 DEF TypeOK
  <2>4. OthersSame(r)
    BY <1>1, <1>2, <1>3, <2>2 DEF OthersSame, TypeOK
  <2>5. PlaceFits(r)' /\ TodoFits(r)'
    BY <1>1, <1>2, <1>3 DEF PlaceFits, TodoFits
  <2>6. OpsFit(r)'
    <3>1. \A o \in ops[r] : Did(r, o)'
      BY <1>1, <1>2, <1>3 DEF OpsFit, Did, Dialect, First
    <3>2. ~Autocommits(r) => Did(r, op)'
      BY <1>1, <1>3, <2>1 DEF Did, Autocommits, Dialect
    <3>3. HasDone(r)'
      BY <1>1, <1>3 DEF HasDone
    <3> QED BY <2>2, <3>1, <3>2, <3>3 DEF OpsFit
  <2> QED BY <1>1, <2>2, <2>3, <2>4, <2>5, <2>6, StepOf
<1>4. CASE fix[r] = {} /\ Publish(r) /\ lock' = Unlocked(r) /\ pc' = [pc EXCEPT ![r] = "recording"] /\ fix' = fix
  <2>1. /\ ran' \in [Names -> [Slots -> Nat]] /\ ledger' \subseteq Rows
        /\ ops' \in [Runners -> SUBSET Ops] /\ \A q \in Runners \ {r} : ops'[q] = ops[q]
        /\ ops'[r] = {} /\ RowsGrow /\ lock' \in Runners \cup {NoRunner}
    BY <1>2, <1>4, PublishFacts, RowsAfter DEF Unlocked, TypeOK
  <2>2. TypeOK'
    <3>1. pc' \in [Runners -> Places]
      BY <1>2, <1>4 DEF TypeOK, Places
    <3> QED BY <1>1, <1>2, <1>4, <2>1, <3>1 DEF TypeOK
  <2>3. OthersSame(r) /\ pc'[r] = "recording"
    BY <1>1, <1>2, <1>4, <2>1 DEF OthersSame, TypeOK
  <2>4. PlaceFits(r)' /\ TodoFits(r)' /\ OpsFit(r)'
    BY <1>1, <1>2, <2>1, <2>3 DEF PlaceFits, TodoFits, OpsFit, HasDone
  <2> QED BY <1>1, <2>1, <2>2, <2>3, <2>4, StepOf
<1> QED BY <1>3, <1>4 DEF CatchUp, Goto

\* A ledger row of a reconcile.
LEMMA RecordCaughtUpStep ==
  ASSUME BaseInv, NEW r \in Runners, setup' = setup, RecordCaughtUp(r)
  PROVE  BaseInv'
<1>1. /\ pc[r] = "recording" /\ todo[r] # {} /\ Does(r, Statement(r))
      /\ todo' = [todo EXCEPT ![r] = @ \ {First(r)}]
      /\ up' = up /\ down' = down /\ cmd' = cmd /\ devLock' = devLock /\ pc' = pc
      /\ records' = records /\ batch' = batch /\ fix' = fix /\ next' = next
      /\ hash' = hash /\ content' = content /\ caughtUp' = caughtUp
      /\ runs' = runs /\ faults' = faults /\ edits' = edits
  BY DEF RecordCaughtUp, disk, counts
<1>2. /\ TypeOK /\ PlaceFits(r) /\ TodoFits(r) /\ OpsFit(r) /\ next[r] = 1 /\ ~Autocommits(r)
      /\ cmd[r] = "dev"
  BY <1>1 DEF BaseInv, TodoFits, PlaceFits, Autocommits
<1>3. PICK op \in Ops : /\ op = Statement(r) /\ op.kind = "record" /\ op.name = First(r)
                        /\ op.row.id = NewId /\ op.row.name = First(r) /\ First(r) \in todo[r]
  BY <1>1, StatementFacts DEF Sends
<1>4. /\ ran' \in [Names -> [Slots -> Nat]] /\ ledger' \subseteq Rows
      /\ ops' \in [Runners -> SUBSET Ops] /\ \A q \in Runners \ {r} : ops'[q] = ops[q]
      /\ ops'[r] = ops[r] \cup {op}
      /\ lock' \in Runners \cup {NoRunner} /\ RowsGrow
  BY <1>1, <1>2, <1>3, DoesFacts, RowsAfter
<1>5. TypeOK'
  <2>1. /\ todo' \in [Runners -> SUBSET Names] /\ \A q \in Runners : todo'[q] \subseteq batch'[q]
    BY <1>1, <1>2 DEF TypeOK
  <2> QED BY <1>1, <1>2, <1>4, <2>1 DEF TypeOK
<1>6. OthersSame(r) /\ todo'[r] = todo[r] \ {First(r)} /\ todo[r] \subseteq batch[r]
  BY <1>1, <1>2, <1>4 DEF OthersSame, TypeOK
<1>7. PlaceFits(r)' /\ TodoFits(r)'
  BY <1>1, <1>2, <1>6 DEF PlaceFits, TodoFits
<1>8. OpsFit(r)'
  <2>1. \A o \in ops[r] : Did(r, o)'
    BY <1>1, <1>2, <1>6 DEF OpsFit, Did, Dialect
  <2>2. Did(r, op)'
    BY <1>1, <1>3, <1>6 DEF Did, Dialect
  <2>3. HasDone(r)'
    <3>1. batch[r] \ todo[r] \subseteq Recorded(RecordedBy(ops[r]))
      BY <1>1, <1>2 DEF OpsFit, HasDone
    <3>2. RecordedBy(ops'[r]) = RecordedBy(ops[r]) \cup {op.row}
      <4>1. RecordedBy({op}) = {op.row}
        BY <1>3, RowsFacts
      <4>2. RecordedBy(ops[r] \cup {op}) = RecordedBy(ops[r]) \cup RecordedBy({op})
        BY RowsFacts
      <4> QED BY <1>4, <4>1, <4>2
    <3>3. Recorded(RecordedBy(ops'[r])) = Recorded(RecordedBy(ops[r])) \cup {First(r)}
      BY <1>3, <3>2 DEF Recorded
    <3> QED BY <1>1, <1>6, <3>1, <3>3 DEF HasDone
  <2> QED BY <1>4, <2>1, <2>2, <2>3 DEF OpsFit
<1> QED BY <1>1, <1>4, <1>5, <1>6, <1>7, <1>8, StepOf

\* A reconcile is committed and its dev goes on to the deploy.
LEMMA ReconciledStep ==
  ASSUME BaseInv, NEW r \in Runners, setup' = setup, Reconciled(r)
  PROVE  BaseInv'
<1>1. /\ pc[r] = "recording" /\ todo[r] = {} /\ Publish(r) /\ lock' = Unlocked(r)
      /\ caughtUp' = caughtUp \cup batch[r]
      /\ cmd' = [cmd EXCEPT ![r] = "deploy"] /\ pc' = [pc EXCEPT ![r] = "locking"]
      /\ records' = [records EXCEPT ![r] = {}] /\ batch' = [batch EXCEPT ![r] = {}]
      /\ up' = up /\ down' = down /\ devLock' = devLock
      /\ todo' = todo /\ fix' = fix /\ next' = next
      /\ hash' = hash /\ content' = content
      /\ runs' = runs /\ faults' = faults /\ edits' = edits
  BY DEF Reconciled, disk, counts, Goto
<1>2. TypeOK /\ TodoFits(r) /\ next[r] = 1
  BY <1>1 DEF BaseInv, TodoFits
<1>3. /\ ran' \in [Names -> [Slots -> Nat]] /\ ledger' \subseteq Rows
      /\ ops' \in [Runners -> SUBSET Ops] /\ \A q \in Runners \ {r} : ops'[q] = ops[q]
      /\ ops'[r] = {} /\ RowsGrow /\ lock' \in Runners \cup {NoRunner}
  BY <1>1, <1>2, PublishFacts, RowsAfter DEF Unlocked, TypeOK
<1>4. TypeOK'
  <2>1. /\ pc' \in [Runners -> Places] /\ cmd' \in [Runners -> {"deploy", "dev", "down"}]
        /\ records' \in [Runners -> SUBSET Rows] /\ batch' \in [Runners -> SUBSET Names]
        /\ \A q \in Runners : todo'[q] \subseteq batch'[q]
        /\ caughtUp' \subseteq Names
    BY <1>1, <1>2 DEF TypeOK, Places
  <2> QED BY <1>1, <1>2, <1>3, <2>1 DEF TypeOK
<1>5. /\ OthersSame(r) /\ pc'[r] = "locking" /\ cmd'[r] = "deploy" /\ records'[r] = {}
  BY <1>1, <1>2, <1>3 DEF OthersSame, TypeOK
<1>6. PlaceFits(r)' /\ TodoFits(r)' /\ OpsFit(r)'
  BY <1>1, <1>2, <1>3, <1>5 DEF PlaceFits, TodoFits, OpsFit, HasDone
<1> QED BY <1>1, <1>3, <1>4, <1>5, <1>6, StepOf

\* A statement of a file.
LEMMA ApplyStep ==
  ASSUME BaseInv, NEW r \in Runners, setup' = setup, Apply(r)
  PROVE  BaseInv'
<1>1. /\ pc[r] = "applying" /\ todo[r] # {} /\ next[r] \in Slots /\ Does(r, Statement(r))
      /\ next' = [next EXCEPT ![r] = @ + 1]
      /\ hash' = IF next[r] = 1 THEN [hash EXCEPT ![r] = up[First(r)]] ELSE hash
      /\ content' = IF next[r] = 1 THEN [content EXCEPT ![First(r)] = up[First(r)]] ELSE content
      /\ up' = up /\ down' = down /\ cmd' = cmd /\ devLock' = devLock /\ pc' = pc
      /\ records' = records /\ batch' = batch /\ fix' = fix /\ todo' = todo
      /\ caughtUp' = caughtUp
      /\ runs' = runs /\ faults' = faults /\ edits' = edits
  BY DEF Apply, disk, counts
<1>2. /\ TypeOK /\ PlaceFits(r) /\ TodoFits(r) /\ OpsFit(r) /\ cmd[r] = "deploy"
  BY <1>1 DEF BaseInv, PlaceFits
<1>3. PICK op \in Ops : /\ op = Statement(r) /\ op = Run(First(r), next[r])
                        /\ op.kind = "run" /\ op.name = First(r) /\ op.slot = next[r]
                        /\ First(r) \in todo[r] /\ First(r) \in Names /\ First(r)' = First(r)
  BY <1>1, StatementFacts, OpFacts DEF Sends, First
<1>4. /\ ran' \in [Names -> [Slots -> Nat]] /\ ledger' \subseteq Rows
      /\ ops' \in [Runners -> SUBSET Ops] /\ \A q \in Runners \ {r} : ops'[q] = ops[q]
      /\ ops'[r] = IF Autocommits(r) THEN ops[r] ELSE ops[r] \cup {op}
      /\ lock' \in Runners \cup {NoRunner} /\ RowsGrow
  BY <1>1, <1>3, DoesFacts, RowsAfter
<1>5. up[First(r)] \in 1..2 /\ next[r] \in 1..2
  BY <1>1, <1>2, <1>3 DEF TypeOK, TodoFits, Slots
<1>6. TypeOK'
  <2>1. /\ next' \in [Runners -> 1..3] /\ hash' \in [Runners -> 0..2] /\ content' \in [Names -> 0..2]
    BY <1>1, <1>2, <1>3, <1>5 DEF TypeOK
  <2> QED BY <1>1, <1>2, <1>4, <2>1 DEF TypeOK
<1>7. /\ OthersSame(r) /\ next'[r] = next[r] + 1
      /\ hash'[r] = IF next[r] = 1 THEN up[First(r)] ELSE hash[r]
  BY <1>1, <1>2, <1>4 DEF OthersSame, TypeOK
<1>8. PlaceFits(r)' /\ TodoFits(r)'
  BY <1>1, <1>2, <1>5, <1>7 DEF PlaceFits, TodoFits
<1>9. OpsFit(r)'
  <2>1. \A o \in ops[r] : Did(r, o)'
    <3> SUFFICES ASSUME NEW o \in ops[r] PROVE Did(r, o)'
      OBVIOUS
    <3>1. Did(r, o) /\ o \in Ops
      BY <1>2 DEF OpsFit, TypeOK
    <3>2. o.kind = "run" => o.slot \in 1..2
      BY <3>1, OpFacts DEF Slots
    <3> QED BY <1>1, <1>3, <1>5, <1>7, <3>1, <3>2 DEF Did, Dialect
  <2>2. ~Autocommits(r) => Did(r, op)'
    BY <1>1, <1>3, <1>5, <1>7 DEF Did, Autocommits, Dialect
  <2>3. Dialect # "mysql" => HasDone(r)'
    <3> SUFFICES ASSUME Dialect # "mysql" PROVE HasDone(r)'
      OBVIOUS
    <3>1. HasDone(r) /\ ops'[r] = ops[r] \cup {Run(First(r), next[r])}
      BY <1>2, <1>3, <1>4 DEF OpsFit, Autocommits
    <3>2. RecordedBy(ops[r]) \subseteq RecordedBy(ops'[r])
      BY <3>1, RowsFacts
    <3>3. \A s \in Slots : s < next[r] + 1 => s < next[r] \/ s = next[r]
      BY <1>5 DEF Slots
    <3> QED BY <1>1, <1>3, <1>7, <3>1, <3>2, <3>3 DEF HasDone, Recorded
  <2> QED BY <1>1, <1>4, <2>1, <2>2, <2>3 DEF OpsFit, Dialect
<1> QED BY <1>1, <1>4, <1>6, <1>7, <1>8, <1>9, StepOf

\* The ledger row of a file.
LEMMA RecordAppliedStep ==
  ASSUME BaseInv, NEW r \in Runners, setup' = setup, RecordApplied(r)
  PROVE  BaseInv'
<1>1. /\ pc[r] = "applying" /\ todo[r] # {} /\ next[r] \notin Slots /\ Does(r, Statement(r))
      /\ todo' = [todo EXCEPT ![r] = @ \ {First(r)}] /\ next' = [next EXCEPT ![r] = 1]
      /\ up' = up /\ down' = down /\ cmd' = cmd /\ devLock' = devLock /\ pc' = pc
      /\ records' = records /\ batch' = batch /\ fix' = fix
      /\ hash' = hash /\ content' = content /\ caughtUp' = caughtUp
      /\ runs' = runs /\ faults' = faults /\ edits' = edits
  BY DEF RecordApplied, disk, counts
<1>2. /\ TypeOK /\ PlaceFits(r) /\ TodoFits(r) /\ OpsFit(r) /\ cmd[r] = "deploy" /\ next[r] = 3
  BY <1>1 DEF BaseInv, PlaceFits, TypeOK, Slots
<1>3. PICK op \in Ops : /\ op = Statement(r) /\ op.kind = "record" /\ op.name = First(r)
                        /\ op.row.id = NewId /\ op.row.name = First(r) /\ First(r) \in todo[r]
  BY <1>1, StatementFacts DEF Sends
<1>4. /\ ran' \in [Names -> [Slots -> Nat]] /\ ledger' \subseteq Rows
      /\ ops' \in [Runners -> SUBSET Ops] /\ \A q \in Runners \ {r} : ops'[q] = ops[q]
      /\ ops'[r] = IF Autocommits(r) THEN ops[r] ELSE ops[r] \cup {op}
      /\ lock' \in Runners \cup {NoRunner} /\ RowsGrow
  BY <1>1, <1>3, DoesFacts, RowsAfter
<1>5. TypeOK'
  <2>1. /\ todo' \in [Runners -> SUBSET Names] /\ \A q \in Runners : todo'[q] \subseteq batch'[q]
        /\ next' \in [Runners -> 1..3]
    BY <1>1, <1>2 DEF TypeOK
  <2> QED BY <1>1, <1>2, <1>4, <2>1 DEF TypeOK
<1>6. /\ OthersSame(r) /\ todo'[r] = todo[r] \ {First(r)} /\ next'[r] = 1
      /\ todo[r] \subseteq batch[r]
  BY <1>1, <1>2, <1>4 DEF OthersSame, TypeOK
<1>7. PlaceFits(r)' /\ TodoFits(r)'
  BY <1>1, <1>2, <1>6 DEF PlaceFits, TodoFits
<1>8. OpsFit(r)'
  <2>1. \A o \in ops[r] : Did(r, o)'
    BY <1>1, <1>2, <1>3, <1>6 DEF OpsFit, Did, Dialect
  <2>2. ~Autocommits(r) => Did(r, op)'
    BY <1>1, <1>3, <1>6 DEF Did, Dialect, Autocommits
  <2>3. Dialect # "mysql" => HasDone(r)'
    <3> SUFFICES ASSUME Dialect # "mysql" PROVE HasDone(r)'
      OBVIOUS
    <3>1. HasDone(r) /\ ops'[r] = ops[r] \cup {op}
      BY <1>2, <1>4 DEF OpsFit, Autocommits
    <3>2. RecordedBy(ops'[r]) = RecordedBy(ops[r]) \cup {op.row}
      <4>1. RecordedBy({op}) = {op.row}
        BY <1>3, RowsFacts
      <4>2. RecordedBy(ops[r] \cup {op}) = RecordedBy(ops[r]) \cup RecordedBy({op})
        BY RowsFacts
      <4> QED BY <3>1, <4>1, <4>2
    <3>3. Recorded(RecordedBy(ops'[r])) = Recorded(RecordedBy(ops[r])) \cup {First(r)}
      BY <1>3, <3>2 DEF Recorded
    <3>4. \A s \in Slots : s < next[r] /\ ~(s < 1)
      BY <1>2 DEF Slots
    <3>5. batch[r] \ todo'[r] = (batch[r] \ todo[r]) \cup {First(r)}
      BY <1>3, <1>6
    <3>6. \A s \in Slots : \A n \in batch[r] \ todo'[r] : Run(n, s) \in ops[r]
      BY <1>1, <3>1, <3>4, <3>5 DEF HasDone
    <3> QED BY <1>1, <1>6, <3>1, <3>3, <3>4, <3>5, <3>6 DEF HasDone
  <2> QED BY <1>1, <1>4, <2>1, <2>2, <2>3 DEF OpsFit, Dialect
<1> QED BY <1>1, <1>4, <1>5, <1>6, <1>7, <1>8, StepOf

\* All files are done.
LEMMA DeployedStep ==
  ASSUME BaseInv, NEW r \in Runners, setup' = setup, Deployed(r)
  PROVE  BaseInv'
<1>1. /\ Publish(r) /\ lock' = Unlocked(r) /\ Ends(r) /\ up' = up /\ down' = down
      /\ content' = content /\ caughtUp' = caughtUp /\ runs' = runs /\ faults' = faults /\ edits' = edits
  BY DEF Deployed, disk, counts
<1>2. TypeOK
  BY DEF BaseInv
<1>3. /\ ran' \in [Names -> [Slots -> Nat]] /\ ledger' \subseteq Rows
      /\ ops' \in [Runners -> SUBSET Ops] /\ \A q \in Runners \ {r} : ops'[q] = ops[q]
      /\ ops'[r] = {} /\ RowsGrow /\ lock' \in Runners \cup {NoRunner}
  BY <1>1, <1>2, PublishFacts, RowsAfter DEF Unlocked, TypeOK
<1> QED BY <1>1, <1>2, <1>3, EndsFacts DEF TypeOK

\* The rows to revert are chosen: a later one of them is always among them.
LEMMA ChooseStep ==
  ASSUME BaseInv, NEW r \in Runners, setup' = setup, Choose(r)
  PROVE  BaseInv'
<1> DEFINE last == {a \in records[r] : Cardinality({b \in records[r] : b.id > a.id}) < DownSteps}
           names == {row.name : row \in last}
<1>1. /\ pc[r] = "choosing" /\ up' = up /\ down' = down /\ ran' = ran /\ ledger' = ledger /\ lock' = lock
      /\ ops' = ops /\ content' = content /\ caughtUp' = caughtUp
      /\ runs' = runs /\ faults' = faults /\ edits' = edits
      /\ \/ Ends(r)
         \/ /\ ~(Cardinality(records[r]) < DownSteps)
            /\ batch' = [batch EXCEPT ![r] = names] /\ todo' = [todo EXCEPT ![r] = names]
            /\ pc' = [pc EXCEPT ![r] = "checking"] /\ devLock' = devLock /\ cmd' = cmd
            /\ records' = records /\ fix' = fix /\ next' = next /\ hash' = hash
  BY DEF Choose, disk, db, counts, Decides, Goto
<1>2. TypeOK /\ PlaceFits(r) /\ TodoFits(r) /\ ops[r] = {} /\ RowsGrow
  BY <1>1, NothingDone, RowsAfter DEF BaseInv
<1>3. CASE Ends(r)
  BY <1>1, <1>2, <1>3, EndsFacts DEF TypeOK
<1>4. CASE ~Ends(r)
  <2>1. names # {}
    <3>1. DownSteps \in Nat /\ DownSteps > 0
      BY NamesAssumption
    <3>2. records[r] # {}
      BY <1>1, <1>4, <3>1, FS_EmptySet
    <3>3. \E a \in records[r] : \A b \in records[r] : b.id <= a.id
      <4> DEFINE S == {a.id : a \in records[r]}
      <4>1. PICK b \in Nat : \A row \in records[r] : row.id <= b
        BY DEF BaseInv, IdsBounded
      <4>2. \A row \in records[r] : row.id \in Nat
        BY <1>2 DEF TypeOK, Rows
      <4>3. S \in SUBSET Nat /\ S # {} /\ \A i \in S : i <= b
        BY <3>2, <4>1, <4>2
      <4> HIDE DEF S
      <4>4. PICK i \in S : \A j \in S : j <= i
        BY <4>3, GreatestNumber
      <4> QED BY <4>4 DEF S
    <3>4. PICK a \in records[r] : \A b \in records[r] : b.id <= a.id
      BY <3>3
    <3>5. \A b \in records[r] : b.id \in Nat
      BY <1>2 DEF TypeOK, Rows
    <3>6. {b \in records[r] : b.id > a.id} = {}
      BY <3>4, <3>5
    <3>7. a \in last
      BY <3>1, <3>4, <3>6, FS_EmptySet
    <3> QED BY <3>7
  <2>2. names \subseteq Recorded(records[r]) /\ names \subseteq Names
    BY <1>2, RowsFacts DEF Recorded, TypeOK, Rows
  <2> HIDE DEF names
  <2>3. TypeOK'
    <3>1. /\ pc \in [Runners -> Places] /\ batch \in [Runners -> SUBSET Names]
          /\ todo \in [Runners -> SUBSET Names] /\ \A q \in Runners : todo[q] \subseteq batch[q]
      BY <1>2 DEF TypeOK
    <3>2. pc' \in [Runners -> Places]
      BY <1>1, <1>4, <3>1 DEF Places
    <3>3. batch' \in [Runners -> SUBSET Names] /\ todo' \in [Runners -> SUBSET Names]
      BY <1>1, <1>4, <2>2, <3>1
    <3>4. \A q \in Runners : todo'[q] \subseteq batch'[q]
      BY <1>1, <1>4, <3>1
    <3> QED BY <1>1, <1>2, <1>4, <3>2, <3>3, <3>4 DEF TypeOK
  <2>4. OthersSame(r) /\ todo'[r] = names /\ pc'[r] = "checking"
    BY <1>1, <1>2, <1>4, <2>2 DEF OthersSame, TypeOK
  <2>5. PlaceFits(r)' /\ TodoFits(r)' /\ OpsFit(r)'
    BY <1>1, <1>2, <1>4, <2>1, <2>2, <2>4 DEF PlaceFits, TodoFits, OpsFit, HasDone
  <2> QED BY <1>1, <1>2, <1>4, <2>3, <2>4, <2>5, StepOf
<1> QED BY <1>3, <1>4

\* A row is looked at again before it is reverted.
LEMMA CheckStep ==
  ASSUME BaseInv, NEW r \in Runners, setup' = setup, Check(r)
  PROVE  BaseInv'
<1>1. /\ pc[r] = "checking" /\ up' = up /\ down' = down /\ ran' = ran /\ ledger' = ledger /\ lock' = lock
      /\ ops' = ops /\ content' = content /\ caughtUp' = caughtUp
      /\ runs' = runs /\ faults' = faults /\ edits' = edits
      /\ \/ Ends(r)
         \/ /\ pc' = [pc EXCEPT ![r] = "undoing"] /\ devLock' = devLock /\ cmd' = cmd /\ batch' = batch
            /\ todo' = todo /\ records' = records /\ fix' = fix /\ next' = next /\ hash' = hash
  BY DEF Check, disk, db, counts, own, Goto
<1>2. TypeOK /\ PlaceFits(r) /\ TodoFits(r) /\ ops[r] = {} /\ RowsGrow
  BY <1>1, NothingDone, RowsAfter DEF BaseInv
<1>3. CASE Ends(r)
  BY <1>1, <1>2, <1>3, EndsFacts DEF TypeOK
<1>4. CASE ~Ends(r)
  <2>1. TypeOK'
    <3>1. pc' \in [Runners -> Places]
      BY <1>1, <1>2, <1>4 DEF TypeOK, Places
    <3> QED BY <1>1, <1>2, <1>4, <3>1 DEF TypeOK
  <2>2. OthersSame(r) /\ pc'[r] = "undoing"
    BY <1>1, <1>2, <1>4 DEF OthersSame, TypeOK
  <2>3. PlaceFits(r)' /\ TodoFits(r)' /\ OpsFit(r)'
    BY <1>1, <1>2, <1>4, <2>2 DEF PlaceFits, TodoFits, OpsFit, HasDone
  <2> QED BY <1>1, <1>2, <1>4, <2>1, <2>2, <2>3, StepOf
<1> QED BY <1>3, <1>4

\* down.sql, and the removal of its row.
LEMMA RevertStep ==
  ASSUME BaseInv, NEW r \in Runners, setup' = setup, Revert(r)
  PROVE  BaseInv'
<1>1. /\ pc[r] \in {"undoing", "forgetting"} /\ Does(r, Statement(r))
      /\ pc' = [pc EXCEPT ![r] = IF pc[r] = "undoing" THEN "forgetting" ELSE "reverted"]
      /\ caughtUp' \subseteq caughtUp
      /\ up' = up /\ down' = down /\ cmd' = cmd /\ devLock' = devLock
      /\ records' = records /\ batch' = batch /\ fix' = fix /\ next' = next /\ todo' = todo
      /\ hash' = hash /\ content' = content
      /\ runs' = runs /\ faults' = faults /\ edits' = edits
  BY DEF Revert, disk, counts, own, Goto
<1>2. TypeOK /\ PlaceFits(r) /\ TodoFits(r) /\ OpsFit(r) /\ cmd[r] = "down"
  BY <1>1 DEF BaseInv, PlaceFits
<1>3. PICK op \in Ops : /\ op = Statement(r) /\ op.name = First(r)
                        /\ op.kind = IF pc[r] = "undoing" THEN "undo" ELSE "forget"
                        /\ op = IF pc[r] = "undoing" THEN Undo(First(r)) ELSE Forget(First(r))
  BY <1>1, StatementFacts, OpFacts DEF Sends
<1>4. /\ ran' \in [Names -> [Slots -> Nat]] /\ ledger' \subseteq Rows
      /\ ops' \in [Runners -> SUBSET Ops] /\ \A q \in Runners \ {r} : ops'[q] = ops[q]
      /\ ops'[r] = IF Autocommits(r) THEN ops[r] ELSE ops[r] \cup {op}
      /\ lock' \in Runners \cup {NoRunner} /\ RowsGrow
  BY <1>1, <1>3, DoesFacts, RowsAfter
<1>5. TypeOK'
  <2>1. pc' \in [Runners -> Places] /\ caughtUp' \subseteq Names
    BY <1>1, <1>2 DEF TypeOK, Places
  <2> QED BY <1>1, <1>2, <1>4, <2>1 DEF TypeOK
<1>6. /\ OthersSame(r) /\ pc'[r] = IF pc[r] = "undoing" THEN "forgetting" ELSE "reverted"
      /\ First(r)' = First(r)
  BY <1>1, <1>2, <1>4 DEF OthersSame, TypeOK, First
<1>7. PlaceFits(r)' /\ TodoFits(r)'
  BY <1>1, <1>2, <1>6 DEF PlaceFits, TodoFits
<1>8. OpsFit(r)'
  <2>1. \A o \in ops[r] : Did(r, o)'
    BY <1>1, <1>2, <1>6 DEF OpsFit, Did, Dialect
  <2>2. ~Autocommits(r) => Did(r, op)'
    BY <1>1, <1>3, <1>6 DEF Did, Autocommits, Dialect
  <2>3. Dialect # "mysql" => HasDone(r)'
    BY <1>1, <1>2, <1>3, <1>4, <1>6 DEF OpsFit, HasDone, Autocommits
  <2> QED BY <1>1, <1>4, <1>6, <2>1, <2>2, <2>3 DEF OpsFit, Dialect
<1> QED BY <1>1, <1>4, <1>5, <1>6, <1>7, <1>8, StepOf

\* A revert is committed.
LEMMA RevertedStep ==
  ASSUME BaseInv, NEW r \in Runners, setup' = setup, Reverted(r)
  PROVE  BaseInv'
<1>1. /\ pc[r] = "reverted" /\ Publish(r) /\ lock' = Unlocked(r) /\ caughtUp' \subseteq caughtUp
      /\ up' = up /\ down' = down /\ content' = content
      /\ runs' = runs /\ faults' = faults /\ edits' = edits
      /\ \/ Ends(r)
         \/ /\ todo[r] # {First(r)} /\ todo' = [todo EXCEPT ![r] = @ \ {First(r)}]
            /\ pc' = [pc EXCEPT ![r] = "checking"] /\ devLock' = devLock /\ cmd' = cmd /\ batch' = batch
            /\ records' = records /\ fix' = fix /\ next' = next /\ hash' = hash
  BY DEF Reverted, disk, counts, Goto
<1>2. /\ TypeOK /\ PlaceFits(r) /\ TodoFits(r) /\ caughtUp' \subseteq Names
  BY <1>1 DEF BaseInv, TypeOK
<1>3. /\ ran' \in [Names -> [Slots -> Nat]] /\ ledger' \subseteq Rows
      /\ ops' \in [Runners -> SUBSET Ops] /\ \A q \in Runners \ {r} : ops'[q] = ops[q]
      /\ ops'[r] = {} /\ RowsGrow /\ lock' \in Runners \cup {NoRunner}
  BY <1>1, <1>2, PublishFacts, RowsAfter DEF Unlocked, TypeOK
<1>4. CASE Ends(r)
  BY <1>1, <1>2, <1>3, <1>4, EndsFacts DEF TypeOK
<1>5. CASE ~Ends(r)
  <2>1. TypeOK'
    <3>1. /\ pc \in [Runners -> Places] /\ todo \in [Runners -> SUBSET Names]
          /\ \A q \in Runners : todo[q] \subseteq batch[q]
      BY <1>2 DEF TypeOK
    <3>2. pc' \in [Runners -> Places]
      BY <1>1, <1>5, <3>1 DEF Places
    <3>3. todo' \in [Runners -> SUBSET Names] /\ \A q \in Runners : todo'[q] \subseteq batch'[q]
      BY <1>1, <1>5, <3>1
    <3> QED BY <1>1, <1>2, <1>3, <1>5, <3>2, <3>3 DEF TypeOK
  <2>2. OthersSame(r) /\ pc'[r] = "checking" /\ todo'[r] = todo[r] \ {First(r)}
    BY <1>1, <1>2, <1>3, <1>5 DEF OthersSame, TypeOK
  <2>3. todo'[r] # {}
    BY <1>1, <1>2, <1>5, <2>2 DEF TodoFits
  <2>4. PlaceFits(r)' /\ TodoFits(r)' /\ OpsFit(r)'
    BY <1>1, <1>2, <1>3, <1>5, <2>2, <2>3 DEF PlaceFits, TodoFits, OpsFit, HasDone
  <2> QED BY <1>1, <1>3, <1>5, <2>1, <2>2, <2>4, StepOf
<1> QED BY <1>4, <1>5

\* A command is refused, fails or is killed.
LEMMA RollsBackStep ==
  ASSUME BaseInv, NEW r \in Runners, Refused(r) \/ Fails(r)
  PROVE  BaseInv'
<1>1. /\ ops' = [ops EXCEPT ![r] = {}] /\ lock' = Unlocked(r) /\ Ends(r)
      /\ setup' = setup /\ up' = up /\ down' = down /\ ran' = ran /\ ledger' = ledger
      /\ content' = content /\ caughtUp' = caughtUp /\ runs' = runs /\ edits' = edits
      /\ faults' = faults \/ (faults < setup.maxFaults /\ faults' = faults + 1)
  BY DEF Refused, Fails, RollsBack, disk, db
<1>2. TypeOK /\ setup.maxFaults \in Nat
  BY SetupsAssumption DEF BaseInv, TypeOK
<1>3. /\ ops' \in [Runners -> SUBSET Ops] /\ \A q \in Runners \ {r} : ops'[q] = ops[q]
      /\ ops'[r] = {} /\ lock' \in Runners \cup {NoRunner} /\ faults' \in 0..setup.maxFaults
      /\ RowsGrow
  <2>1. ops \in [Runners -> SUBSET Ops] /\ lock \in Runners \cup {NoRunner} /\ faults \in 0..setup.maxFaults
    BY <1>2 DEF TypeOK
  <2>2. /\ ops' \in [Runners -> SUBSET Ops] /\ \A q \in Runners \ {r} : ops'[q] = ops[q]
        /\ ops'[r] = {}
    BY <1>1, <2>1
  <2>3. RowsGrow
    BY <1>1, <1>2, <2>2, RowsAfter
  <2>4. lock' \in Runners \cup {NoRunner}
    BY <1>1, <2>1 DEF Unlocked
  <2>5. faults' \in 0..setup.maxFaults
    BY <1>1, <1>2, <2>1
  <2> QED BY <2>2, <2>3, <2>4, <2>5
<1> QED BY <1>1, <1>2, <1>3, EndsFacts DEF TypeOK

\* A folder comes or is edited; none goes.
LEMMA EditStep ==
  ASSUME BaseInv, Edit
  PROVE  BaseInv'
<1>1. /\ edits < setup.maxEdits /\ edits' = edits + 1
      /\ setup' = setup /\ devLock' = devLock /\ ran' = ran /\ ledger' = ledger /\ lock' = lock /\ pc' = pc
      /\ cmd' = cmd /\ records' = records /\ batch' = batch /\ todo' = todo /\ fix' = fix /\ next' = next
      /\ hash' = hash /\ ops' = ops /\ content' = content /\ caughtUp' = caughtUp
      /\ runs' = runs /\ faults' = faults
  BY DEF Edit, db, own
<1>2. PICK n \in Names, v \in 1..2 :
       \/ up[n] = 0 /\ up' = [up EXCEPT ![n] = v] /\ down' = [down EXCEPT ![n] = v]
       \/ up[n] \notin {0, v} /\ up' = [up EXCEPT ![n] = v] /\ UNCHANGED down
       \/ down[n] \notin {0, v} /\ down' = [down EXCEPT ![n] = v] /\ UNCHANGED up
  BY DEF Edit
<1>3. TypeOK /\ FoldersWhole /\ setup.maxEdits \in Nat
  BY SetupsAssumption DEF BaseInv, TypeOK
<1>4. /\ up' \in [Names -> 0..2] /\ down' \in [Names -> 0..2] /\ edits' \in 0..setup.maxEdits
      /\ FoldersWhole' /\ \A m \in Names : up[m] # 0 => up'[m] # 0
  <2>1. /\ up \in [Names -> 0..2] /\ down \in [Names -> 0..2] /\ edits \in 0..setup.maxEdits
    BY <1>3 DEF TypeOK
  <2>2. edits' \in 0..setup.maxEdits
    BY <1>1, <1>3, <2>1
  <2>3. up' \in [Names -> 0..2] /\ down' \in [Names -> 0..2]
    BY <1>2, <2>1
  <2>4. \A m \in Names : up[m] # 0 => up'[m] # 0
    BY <1>2, <2>1
  <2>5. FoldersWhole'
    BY <1>2, <1>3, <2>1 DEF FoldersWhole
  <2> QED BY <2>2, <2>3, <2>4, <2>5
<1>5. TypeOK'
  BY <1>1, <1>3, <1>4 DEF TypeOK
<1>6. IdsBounded'
  BY <1>1 DEF BaseInv, IdsBounded, AllRows
<1>7. ASSUME NEW r \in Runners PROVE PlaceFits(r)' /\ TodoFits(r)' /\ OpsFit(r)'
  <2>1. PlaceFits(r) /\ TodoFits(r) /\ OpsFit(r) /\ todo[r] \subseteq Names
    BY <1>3 DEF BaseInv, TypeOK
  <2>2. First(r)' = First(r)
    BY <1>1 DEF First
  <2>3. PlaceFits(r)' /\ TodoFits(r)'
    BY <1>1, <1>4, <2>1 DEF PlaceFits, TodoFits
  <2>4. OpsFit(r)'
    BY <1>1, <2>1, <2>2 DEF OpsFit, Did, HasDone, Dialect
  <2> QED BY <2>3, <2>4
<1> QED BY <1>4, <1>5, <1>6, <1>7 DEF BaseInv
---------------------------------------------------------------------------
(* The invariant. *)

\* No migrations have run, no command has been started.
LEMMA BaseInit == Init => BaseInv
<1> SUFFICES ASSUME Init PROVE BaseInv
  OBVIOUS
<1>1. PICK present \in SUBSET Names :
        up = [n \in Names |-> IF n \in present THEN 1 ELSE 0] /\ down = up
  BY DEF Init
<1>2. PICK pushed \in SUBSET setup.pushed :
        ran = [n \in Names |-> [s \in Slots |-> IF n \in pushed /\ s = 1 THEN 1 ELSE 0]]
  BY DEF Init
<1>3. /\ setup \in Setups /\ ledger = {} /\ lock = NoRunner /\ devLock = NoRunner
      /\ pc = [r \in Runners |-> "idle"] /\ cmd = [r \in Runners |-> "deploy"]
      /\ records = [r \in Runners |-> {}] /\ batch = [r \in Runners |-> {}]
      /\ todo = [r \in Runners |-> {}] /\ fix = [r \in Runners |-> {}]
      /\ next = [r \in Runners |-> 1]
      /\ hash = [r \in Runners |-> 0] /\ ops = [r \in Runners |-> {}]
      /\ content = [n \in Names |-> 0] /\ caughtUp = {}
      /\ runs = 0 /\ faults = 0 /\ edits = 0
  BY DEF Init
<1>4. setup.maxRuns \in Nat /\ setup.maxFaults \in Nat /\ setup.maxEdits \in Nat
  BY <1>3, SetupsAssumption
<1>5. TypeOK
  <2>1. up \in [Names -> 0..2] /\ down \in [Names -> 0..2]
    BY <1>1
  <2>2. ran \in [Names -> [Slots -> Nat]]
    BY <1>2
  <2>3. /\ pc \in [Runners -> Places] /\ cmd \in [Runners -> {"deploy", "dev", "down"}]
        /\ content \in [Names -> 0..2]
    BY <1>3 DEF Places
  <2>4. /\ records \in [Runners -> SUBSET Rows] /\ batch \in [Runners -> SUBSET Names]
        /\ todo \in [Runners -> SUBSET Names] /\ \A r \in Runners : todo[r] \subseteq batch[r]
        /\ fix \in [Runners -> SUBSET Creates] /\ ops \in [Runners -> SUBSET Ops]
        /\ next \in [Runners -> 1..3] /\ hash \in [Runners -> 0..2]
    BY <1>3
  <2> QED BY <1>3, <1>4, <2>1, <2>2, <2>3, <2>4 DEF TypeOK
<1>6. FoldersWhole
  BY <1>1 DEF FoldersWhole
<1>7. IdsBounded
  <2>1. UNION {ops[r] : r \in Runners} = {} /\ UNION {records[r] : r \in Runners} = {}
    BY <1>3
  <2>2. AllRows = {}
    BY <1>3, <2>1, RowsFacts DEF AllRows
  <2> QED BY <2>1, <2>2 DEF IdsBounded
<1>8. ASSUME NEW r \in Runners PROVE PlaceFits(r) /\ TodoFits(r) /\ OpsFit(r)
  <2>1. pc[r] = "idle" /\ todo[r] = {} /\ next[r] = 1 /\ ops[r] = {}
    BY <1>3
  <2> QED BY <2>1 DEF PlaceFits, TodoFits, OpsFit, HasDone
<1> QED BY <1>5, <1>6, <1>7, <1>8 DEF BaseInv

LEMMA BaseStep ==
  ASSUME BaseInv, [Next]_vars
  PROVE  BaseInv'
<1>1. ASSUME NEW r \in Runners, Start(r) \/ Step(r) \/ Fails(r) PROVE BaseInv'
  <2>1. CASE Start(r)
    BY <2>1, StartStep
  <2>2. CASE Deploying(r)
    BY <2>2, LockStep, ReadStep, PlanStep, CollideStep, ApplyStep, RecordAppliedStep, DeployedStep DEF Deploying
  <2>3. CASE Reconciling(r)
    BY <2>3, IntrospectStep, CatchUpStep, RecordCaughtUpStep, ReconciledStep DEF Reconciling
  <2>4. CASE Reverting(r)
    BY <2>4, ChooseStep, CheckStep, RevertStep, RevertedStep DEF Reverting
  <2>5. CASE Refused(r) \/ Fails(r)
    BY <2>5, RollsBackStep
  <2> QED BY <1>1, <2>1, <2>2, <2>3, <2>4, <2>5 DEF Step
<1>2. CASE Edit
  BY <1>2, EditStep
<1>3. CASE UNCHANGED vars
  <2>1. /\ setup' = setup /\ up' = up /\ down' = down /\ ran' = ran /\ ledger' = ledger /\ lock' = lock
        /\ devLock' = devLock /\ pc' = pc /\ cmd' = cmd /\ records' = records /\ batch' = batch
        /\ todo' = todo /\ fix' = fix /\ next' = next /\ hash' = hash /\ ops' = ops
        /\ content' = content /\ caughtUp' = caughtUp /\ runs' = runs /\ faults' = faults
        /\ edits' = edits
    BY <1>3 DEF vars, disk, db, own, counts
  <2>2. TypeOK' /\ FoldersWhole' /\ IdsBounded'
    <3>1. TypeOK'
      BY <2>1 DEF BaseInv, TypeOK
    <3>2. FoldersWhole' /\ IdsBounded'
      BY <2>1 DEF BaseInv, FoldersWhole, IdsBounded, AllRows
    <3> QED BY <3>1, <3>2
  <2>3. ASSUME NEW r \in Runners PROVE PlaceFits(r)' /\ TodoFits(r)' /\ OpsFit(r)'
    <3>1. First(r)' = First(r)
      BY <2>1 DEF First
    <3> QED BY <2>1, <3>1 DEF BaseInv, PlaceFits, TodoFits, OpsFit, Did, HasDone, Dialect
  <2> QED BY <2>2, <2>3 DEF BaseInv
<1> QED BY <1>1, <1>2, <1>3 DEF Next, AllIdle

LEMMA Base == Spec => []BaseInv
BY BaseInit, BaseStep, PTL DEF Spec

\* Every variable keeps its type and no counter passes its bound.
THEOREM TypeCorrect == Spec => []TypeOK
<1>1. BaseInv => TypeOK
  BY DEF BaseInv
<1> QED BY <1>1, Base, PTL
---------------------------------------------------------------------------
(* One deploy at a time. *)

\* A deploy between its lock and its end, and who holds the lock then.
Past(r) == cmd[r] = "deploy" /\ pc[r] \notin {"idle", "locking"}
Holds == ~setup.timeouts => \A r \in Runners : Past(r) => lock = r

\* A step takes only a lock that is free and gives back only its own, and no
\* command is past its lock without it.
LEMMA LockMoves ==
  ASSUME BaseInv, NEW r \in Runners, Start(r) \/ Step(r) \/ Fails(r)
  PROVE  /\ setup' = setup /\ \A q \in Runners \ {r} : pc'[q] = pc[q] /\ cmd'[q] = cmd[q]
         /\ lock' = lock \/ lock \in {r, NoRunner}
         /\ Past(r)' => setup.timeouts \/ lock' = r \/ (Past(r) /\ lock' = lock)
<1>1. /\ pc \in [Runners -> Places] /\ cmd \in [Runners -> {"deploy", "dev", "down"}]
      /\ PlaceFits(r)
  BY DEF BaseInv, TypeOK
<1>2. setup' = setup
  BY DEF Start, Step, Deploying, Reconciling, Reverting, Refused, Fails, RollsBack
<1>3. \A x : pc' = [pc EXCEPT ![r] = x] => pc'[r] = x /\ \A q \in Runners \ {r} : pc'[q] = pc[q]
  BY <1>1
<1>4. \A x : cmd' = [cmd EXCEPT ![r] = x] => cmd'[r] = x /\ \A q \in Runners \ {r} : cmd'[q] = cmd[q]
  BY <1>1
<1>5. Ends(r) => ~Past(r)' /\ \A q \in Runners \ {r} : pc'[q] = pc[q] /\ cmd'[q] = cmd[q]
  BY <1>3 DEF Ends, Goto, Past
<1>6. Unlocked(r) = lock \/ lock = r
  BY DEF Unlocked
<1>7. \A op : Does(r, op) => /\ lock' = lock \/ (lock' = r /\ lock \in {r, NoRunner})
  BY DEF Does, Blocked
<1>8. CASE Start(r)
  <2>1. PICK c \in setup.commands :
          /\ cmd' = [cmd EXCEPT ![r] = c] /\ lock' = lock
          /\ pc' = [pc EXCEPT ![r] = IF c = "deploy" THEN "locking" ELSE "reading"]
    BY <1>8 DEF Start, Goto
  <2> QED BY <1>2, <1>3, <1>4, <2>1 DEF Past
<1>9. CASE Lock(r)
  BY <1>2, <1>3, <1>9 DEF Lock, Goto
<1>10. CASE GetLockTimesOut(r)
  BY <1>2, <1>3, <1>10 DEF GetLockTimesOut, Goto
<1>11. CASE Read(r) \/ Introspect(r)
  BY <1>2, <1>3, <1>11 DEF Read, Introspect, Goto, Past
<1>12. CASE Check(r)
  BY <1>2, <1>3, <1>5, <1>12 DEF Check, Goto, Past
<1>13. CASE Choose(r)
  BY <1>2, <1>3, <1>5, <1>13 DEF Choose, Goto, Past
<1>14. CASE Plan(r) \/ Collide(r)
  BY <1>2, <1>3, <1>4, <1>5, <1>6, <1>14 DEF Plan, Collide, Goto, Past
<1>15. CASE CatchUp(r)
  BY <1>1, <1>2, <1>3, <1>6, <1>7, <1>15 DEF CatchUp, PlaceFits, Goto, Past
<1>16. CASE RecordCaughtUp(r)
  BY <1>1, <1>2, <1>7, <1>16 DEF RecordCaughtUp, PlaceFits, Past
<1>17. CASE Reconciled(r)
  BY <1>2, <1>3, <1>4, <1>6, <1>17 DEF Reconciled, Goto, Past
<1>18. CASE Apply(r)
  BY <1>2, <1>7, <1>18 DEF Apply, Past
<1>19. CASE RecordApplied(r)
  BY <1>2, <1>7, <1>19 DEF RecordApplied, Past
<1>20. CASE Deployed(r)
  BY <1>2, <1>5, <1>6, <1>20 DEF Deployed
<1>21. CASE Revert(r)
  BY <1>1, <1>2, <1>3, <1>7, <1>21 DEF Revert, PlaceFits, Goto, Past
<1>22. CASE Reverted(r)
  BY <1>1, <1>2, <1>3, <1>5, <1>6, <1>22 DEF Reverted, PlaceFits, Goto, Past
<1>23. CASE Refused(r) \/ Fails(r)
  BY <1>2, <1>5, <1>6, <1>23 DEF Refused, Fails, RollsBack
<1> QED
  BY <1>8, <1>9, <1>10, <1>11, <1>12, <1>13, <1>14, <1>15, <1>16, <1>17, <1>18, <1>19, <1>20,
     <1>21, <1>22, <1>23 DEF Step, Deploying, Reconciling, Reverting

LEMMA HoldsStep ==
  ASSUME BaseInv, Holds, [Next]_vars
  PROVE  Holds'
<1>1. CASE Edit \/ UNCHANGED vars
  <2>1. setup' = setup /\ lock' = lock /\ pc' = pc /\ cmd' = cmd
    BY <1>1 DEF Edit, vars
  <2> QED BY <2>1 DEF Holds, Past
<1>2. ASSUME NEW r \in Runners, Start(r) \/ Step(r) \/ Fails(r) PROVE Holds'
  <2> SUFFICES ASSUME ~setup.timeouts, NEW q \in Runners, Past(q)' PROVE lock' = q
    BY <1>2, LockMoves DEF Holds
  <2>1. CASE q = r
    BY <1>2, <2>1, LockMoves DEF Holds
  <2>2. CASE q # r
    <3>1. Past(q) /\ lock = q
      BY <1>2, <2>2, LockMoves DEF Holds, Past
    <3> QED BY <1>2, <2>2, <3>1, LockMoves, NamesAssumption
  <2> QED BY <2>1, <2>2
<1> QED BY <1>1, <1>2 DEF Next, AllIdle

LEMMA HoldsAlways == Spec => []Holds
<1>1. Init => Holds
  BY DEF Init, Holds, Past
<1> QED BY <1>1, Base, HoldsStep, PTL DEF Spec

\* On every database one deploy at a time is between its lock and its end, if no
\* GET_LOCK times out: whoever ends, fails or is killed gives back only what is
\* its own, and nobody takes the lock but when it is free.
THEOREM DeploysAreSerialized == Spec => []OneDeployWhenAwaited
<1>1. Holds => OneDeployWhenAwaited
  <2> SUFFICES ASSUME Holds, ~setup.timeouts PROVE OneDeployAtATime
    BY DEF OneDeployWhenAwaited
  <2> SUFFICES ASSUME NEW r \in Runners, NEW q \in Runners, Past(r), Past(q) PROVE r = q
    BY DEF OneDeployAtATime, Past
  <2> QED BY DEF Holds
<1> QED BY <1>1, HoldsAlways, PTL

---------------------------------------------------------------------------
(* What a step does to the database. *)

Quiet == UNCHANGED <<ran, ledger, ops, caughtUp>>
Sent(r) ==
  /\ Sends(r) /\ Does(r, Statement(r))
  /\ caughtUp' = caughtUp \/ (pc[r] \in {"undoing", "forgetting"} /\ caughtUp' = caughtUp \cap Recorded(ledger'))
Committed(r) ==
  /\ Publish(r)
  /\ \/ pc[r] = "catching" /\ caughtUp' = caughtUp
     \/ pc[r] = "recording" /\ todo[r] = {} /\ caughtUp' = caughtUp \cup batch[r]
     \/ pc[r] = "applying" /\ todo[r] = {} /\ caughtUp' = caughtUp
     \/ pc[r] = "reverted" /\ caughtUp' = caughtUp \cap Recorded(ledger')
RolledBack(r) == ops' = [ops EXCEPT ![r] = {}] /\ UNCHANGED <<ran, ledger, caughtUp>>

LEMMA Effects ==
  ASSUME BaseInv, NEW r \in Runners, Start(r) \/ Step(r) \/ Fails(r)
  PROVE  Quiet \/ Sent(r) \/ Committed(r) \/ RolledBack(r)
<1>1. CASE Start(r)
  BY <1>1 DEF Start, Quiet, db
<1>2. CASE \/ Lock(r) \/ GetLockTimesOut(r) \/ Read(r) \/ Plan(r) \/ Collide(r) \/ Introspect(r)
           \/ Choose(r) \/ Check(r)
  BY <1>2 DEF Lock, GetLockTimesOut, Read, Plan, Collide, Introspect, Choose, Check, Quiet, db
<1>3. CASE CatchUp(r)
  BY <1>3 DEF CatchUp, Sent, Sends, Committed
<1>4. CASE RecordCaughtUp(r)
  BY <1>4 DEF RecordCaughtUp, Sent, Sends
<1>5. CASE Reconciled(r)
  BY <1>5 DEF Reconciled, Committed
<1>6. CASE Apply(r) \/ RecordApplied(r)
  BY <1>6 DEF Apply, RecordApplied, Sent, Sends
<1>7. CASE Deployed(r)
  BY <1>7 DEF Deployed, Committed
<1>8. CASE Revert(r)
  BY <1>8 DEF Revert, Sent, Sends
<1>9. CASE Reverted(r)
  BY <1>9 DEF Reverted, Committed
<1>10. CASE Refused(r) \/ Fails(r)
  BY <1>10 DEF Refused, Fails, RollsBack, RolledBack, db
<1> QED BY <1>1, <1>2, <1>3, <1>4, <1>5, <1>6, <1>7, <1>8, <1>9, <1>10
        DEF Step, Deploying, Reconciling, Reverting

\* A step of r changes nothing of another runner's.
LEMMA OnlyOwn ==
  ASSUME BaseInv, NEW r \in Runners, Start(r) \/ Step(r) \/ Fails(r)
  PROVE  OthersSame(r)
<1>1. TypeOK
  BY DEF BaseInv
<1>2. /\ pc \in [Runners -> Places] /\ cmd \in [Runners -> {"deploy", "dev", "down"}]
      /\ records \in [Runners -> SUBSET Rows] /\ batch \in [Runners -> SUBSET Names]
      /\ todo \in [Runners -> SUBSET Names] /\ fix \in [Runners -> SUBSET Creates]
      /\ next \in [Runners -> 1..3] /\ hash \in [Runners -> 0..2] /\ ops \in [Runners -> SUBSET Ops]
  BY <1>1 DEF TypeOK
<1> DEFINE Own(f, g) == g = f \/ \E x : g = [f EXCEPT ![r] = x]
<1>3. \A f, g : Own(f, g) => \A q \in Runners \ {r} : q \in DOMAIN f => g[q] = f[q]
  OBVIOUS
<1>4. Ends(r) => /\ Own(pc, pc') /\ Own(cmd, cmd') /\ Own(records, records') /\ Own(batch, batch')
                 /\ Own(todo, todo') /\ Own(fix, fix') /\ Own(next, next') /\ Own(hash, hash')
  BY DEF Ends, Goto
<1>5. \A op : Does(r, op) => Own(ops, ops')
  BY DEF Does
<1>6. Publish(r) => Own(ops, ops')
  BY DEF Publish
<1>7. /\ Own(pc, pc') /\ Own(cmd, cmd') /\ Own(records, records') /\ Own(batch, batch')
      /\ Own(todo, todo') /\ Own(fix, fix') /\ Own(next, next') /\ Own(hash, hash') /\ Own(ops, ops')
  <2>1. CASE Start(r)
    BY <2>1 DEF Start, Goto, own
  <2>2. CASE Lock(r) \/ GetLockTimesOut(r)
    BY <2>2 DEF Lock, GetLockTimesOut, Goto, own
  <2>3. CASE Read(r) \/ Introspect(r)
    BY <2>3 DEF Read, Introspect, Goto
  <2>4. CASE Plan(r) \/ Collide(r)
    BY <2>4, <1>4 DEF Plan, Collide, Decides, Goto, own
  <2>5. CASE Choose(r) \/ Check(r)
    BY <2>5, <1>4 DEF Choose, Check, Decides, Goto, own
  <2>6. CASE CatchUp(r) \/ RecordCaughtUp(r)
    BY <2>6, <1>5, <1>6 DEF CatchUp, RecordCaughtUp, Goto
  <2>7. CASE Reconciled(r)
    BY <2>7, <1>6 DEF Reconciled, Goto
  <2>8. CASE Apply(r) \/ RecordApplied(r)
    BY <2>8, <1>5 DEF Apply, RecordApplied
  <2>9. CASE Deployed(r)
    BY <2>9, <1>4, <1>6 DEF Deployed
  <2>10. CASE Revert(r)
    BY <2>10, <1>5 DEF Revert, Goto, own
  <2>11. CASE Reverted(r)
    BY <2>11, <1>4, <1>6 DEF Reverted, Goto
  <2>12. CASE Refused(r) \/ Fails(r)
    BY <2>12, <1>4 DEF Refused, Fails, RollsBack
  <2> QED BY <2>1, <2>2, <2>3, <2>4, <2>5, <2>6, <2>7, <2>8, <2>9, <2>10, <2>11, <2>12
          DEF Step, Deploying, Reconciling, Reverting
<1> HIDE DEF Own
<1> QED BY <1>2, <1>3, <1>7 DEF OthersSame

\* How a command comes to plan and to apply its files, and what rewrites content.
LEMMA Arrivals ==
  ASSUME BaseInv, NEW r \in Runners, Start(r) \/ Step(r) \/ Fails(r)
  PROVE  /\ pc'[r] = "planning" => pc[r] = "reading" /\ cmd'[r] = cmd[r] /\ records'[r] = ledger /\ Quiet
         /\ pc'[r] = "colliding" =>
              /\ pc[r] = "planning" /\ cmd'[r] = cmd[r] /\ InOrder(r) /\ todo'[r] = Pending(r)
              /\ Quiet
         /\ pc'[r] = "applying" =>
              \/ /\ pc[r] = "colliding" /\ cmd[r] = "deploy" /\ todo'[r] = todo[r]
                 /\ next'[r] = 1 /\ Quiet
              \/ Apply(r) \/ RecordApplied(r)
         /\ content' = content \/ Apply(r)
<1>1. TypeOK /\ PlaceFits(r) /\ TodoFits(r)
  BY DEF BaseInv
<1>2. /\ pc \in [Runners -> Places] /\ todo \in [Runners -> SUBSET Names]
      /\ records \in [Runners -> SUBSET Rows]
  BY <1>1 DEF TypeOK
<1>3. \A x : pc' = [pc EXCEPT ![r] = x] => pc'[r] = x
  BY <1>2
<1>4. Ends(r) => pc'[r] = "idle"
  BY <1>3 DEF Ends, Goto
<1>5. CASE Start(r)
  <2>1. \E x \in {"locking", "reading"} : pc' = [pc EXCEPT ![r] = x]
    BY <1>5 DEF Start, Goto
  <2> QED BY <1>3, <1>5, <2>1 DEF Start
<1>6. CASE Lock(r) \/ GetLockTimesOut(r) \/ Introspect(r) \/ Choose(r) \/ Check(r)
  BY <1>3, <1>4, <1>6 DEF Lock, GetLockTimesOut, Introspect, Choose, Check, Goto
<1>7. CASE Read(r)
  BY <1>2, <1>3, <1>7 DEF Read, Goto, Quiet, db
<1>8. CASE Plan(r)
  BY <1>1, <1>2, <1>3, <1>4, <1>8 DEF Plan, Decides, Goto, Quiet, db
<1>9. CASE CatchUp(r) \/ RecordCaughtUp(r) \/ Reconciled(r)
  BY <1>3, <1>9 DEF CatchUp, RecordCaughtUp, Reconciled, Goto
<1>10. CASE RecordApplied(r)
  BY <1>10 DEF RecordApplied
<1>11. CASE Deployed(r)
  BY <1>4, <1>11 DEF Deployed
<1>12. CASE Revert(r) \/ Reverted(r)
  BY <1>3, <1>4, <1>12 DEF Revert, Reverted, Goto
<1>13. CASE Refused(r) \/ Fails(r)
  BY <1>4, <1>13 DEF Refused, Fails, RollsBack
<1>14. CASE Apply(r)
  BY <1>14 DEF Apply
<1>15. CASE Collide(r)
  BY <1>1, <1>2, <1>3, <1>4, <1>15 DEF Collide, Goto, Quiet, db, own, TodoFits
<1> QED BY <1>5, <1>6, <1>7, <1>8, <1>9, <1>10, <1>11, <1>12, <1>13, <1>14, <1>15
        DEF Step, Deploying, Reconciling, Reverting

\* What the commit of a transaction adds and takes away.
LEMMA CommittedFacts ==
  ASSUME BaseInv, NEW r \in Runners, Committed(r)
  PROVE  /\ ledger' = {row \in ledger : Forget(row.name) \notin ops[r]} \cup RecordedBy(ops[r])
         /\ \A n \in Names, s \in Slots :
              ran'[n][s] = IF Undo(n) \in ops[r] THEN 0
                           ELSE ran[n][s] + (IF Run(n, s) \in ops[r] THEN 1 ELSE 0)
         /\ pc[r] # "reverted" => /\ \A n : Undo(n) \notin ops[r] /\ Forget(n) \notin ops[r]
                                  /\ ledger \subseteq ledger'
         /\ pc[r] = "reverted" => /\ RecordedBy(ops[r]) = {}
                                  /\ \A n, s : Run(n, s) \notin ops[r]
                                  /\ \/ Undo(First(r)) \in ops[r] /\ Forget(First(r)) \in ops[r]
                                     \/ Dialect = "mysql"
                                  /\ \A n : Forget(n) \in ops[r] => n = First(r)
                                  /\ \A n : Undo(n) \in ops[r] => n = First(r)
         /\ pc[r] = "catching" => /\ RecordedBy(ops[r]) = {} /\ cmd[r] = "dev"
                                  /\ \A n, s : Run(n, s) \in ops[r] => s = 1 /\ n \in Creates
         /\ pc[r] = "recording" => \A n, s : Run(n, s) \notin ops[r]
         /\ pc[r] \in {"recording", "applying"} =>
              /\ todo[r] = {} /\ Recorded(RecordedBy(ops[r])) \subseteq batch[r]
              /\ Dialect # "mysql" \/ pc[r] = "recording" =>
                   batch[r] = Recorded(RecordedBy(ops[r]))
         /\ pc[r] = "applying" => \A n, s : Run(n, s) \in ops[r] => n \in batch[r]
         /\ pc[r] = "applying" /\ Dialect # "mysql" =>
              \A n \in batch[r], s \in Slots : Run(n, s) \in ops[r]
<1>1. TypeOK /\ PlaceFits(r) /\ TodoFits(r) /\ OpsFit(r) /\ ops[r] \subseteq Ops
  BY DEF BaseInv, TypeOK
<1>2. \A op \in ops[r] : Did(r, op)
  BY <1>1 DEF OpsFit
<1>3. \A n, s : Run(n, s) \in ops[r] => Did(r, Run(n, s))
  BY <1>2
<1>4. \A n : Undo(n) \in ops[r] => Did(r, Undo(n))
  BY <1>2
<1>5. \A n : Forget(n) \in ops[r] => Did(r, Forget(n))
  BY <1>2
<1>6. \A n \in Recorded(RecordedBy(ops[r])) : pc[r] \in {"recording", "applying"} /\ n \in batch[r] \ todo[r]
  <2>1. \A op \in ops[r] : op.kind = "record" =>
          op.row.name = op.name /\ pc[r] \in {"recording", "applying"} /\ op.name \in batch[r] \ todo[r]
    BY <1>2 DEF Did
  <2> QED BY <2>1 DEF Recorded, RecordedBy
<1>7. RecordedBy(ops[r]) # {} => pc[r] \in {"recording", "applying"}
  BY <1>6 DEF Recorded
<1>8. /\ ledger' = {row \in ledger : Forget(row.name) \notin ops[r]} \cup RecordedBy(ops[r])
      /\ ran' = After(ops[r]).ran
  BY DEF Committed, Publish, Visible, After
<1>9. \A n \in Names, s \in Slots :
        ran'[n][s] = IF Undo(n) \in ops[r] THEN 0
                     ELSE ran[n][s] + (IF Run(n, s) \in ops[r] THEN 1 ELSE 0)
  BY <1>8, AfterRan
<1>10. \A n, s : Run(n, s) \in ops[r] =>
         \/ pc[r] = "catching" /\ s = 1 /\ n \in Creates
         \/ pc[r] = "applying" /\ (n \in batch[r] \/ todo[r] # {})
  BY <1>3, OpFacts DEF Did
<1>11. \A n : Undo(n) \in ops[r] => pc[r] \in {"forgetting", "reverted"} /\ n = First(r)
  BY <1>4, OpFacts DEF Did
<1>12. \A n : Forget(n) \in ops[r] => pc[r] = "reverted" /\ n = First(r)
  BY <1>5, OpFacts DEF Did
<1>13. pc[r] \in {"catching", "recording", "applying", "reverted"}
       /\ (pc[r] \in {"recording", "applying"} => todo[r] = {})
  BY DEF Committed
<1>14. Dialect # "mysql" \/ pc[r] = "recording" => HasDone(r)
  BY <1>1 DEF OpsFit
<1>15. pc[r] \in {"recording", "applying"} =>
         /\ Recorded(RecordedBy(ops[r])) \subseteq batch[r]
         /\ Dialect # "mysql" \/ pc[r] = "recording" => batch[r] = Recorded(RecordedBy(ops[r]))
  BY <1>6, <1>13, <1>14 DEF HasDone
<1>16. pc[r] = "applying" /\ Dialect # "mysql" => \A n \in batch[r], s \in Slots : Run(n, s) \in ops[r]
  BY <1>13, <1>14 DEF HasDone
<1>17. pc[r] = "reverted" =>
         \/ Undo(First(r)) \in ops[r] /\ Forget(First(r)) \in ops[r]
         \/ Dialect = "mysql"
  BY <1>14 DEF HasDone
<1>18. pc[r] # "reverted" => ledger \subseteq ledger'
  BY <1>8, <1>12
<1>19. pc[r] = "catching" => cmd[r] = "dev"
  BY <1>1 DEF PlaceFits
<1> QED BY <1>7, <1>8, <1>9, <1>10, <1>11, <1>12, <1>13, <1>15, <1>16, <1>17, <1>18, <1>19
---------------------------------------------------------------------------
(* Whole batches. *)

\* Where statements do not autocommit, the rows of a batch appear all at once:
\* the COMMIT that shows one of them comes when nothing is left to do.
THEOREM BatchesAreWhole == Spec => BatchIsWhole
<1> DEFINE Whole == Dialect # "mysql" =>
      \A n \in Recorded(ledger') \ Recorded(ledger) :
        \E r \in Runners : n \in batch[r] /\ batch[r] \subseteq Recorded(ledger')
<1>1. ASSUME BaseInv, [Next]_vars PROVE Whole
  <2> SUFFICES ASSUME Dialect # "mysql", NEW n \in Recorded(ledger'), n \notin Recorded(ledger)
               PROVE  \E r \in Runners : n \in batch[r] /\ batch[r] \subseteq Recorded(ledger')
    OBVIOUS
  <2>1. ledger' # ledger
    OBVIOUS
  <2>2. PICK r \in Runners : Start(r) \/ Step(r) \/ Fails(r)
    BY <1>1, <2>1 DEF Next, Edit, AllIdle, vars, db
  <2>3. Committed(r)
    <3>1. Quiet \/ Sent(r) \/ Committed(r) \/ RolledBack(r)
      BY <1>1, <2>2, Effects
    <3> QED BY <2>1, <3>1 DEF Quiet, RolledBack, Sent, Does, Autocommits, db
  <2>4. n \in Recorded(RecordedBy(ops[r]))
    BY <1>1, <2>3, CommittedFacts DEF Recorded
  <2>5. pc[r] \in {"recording", "applying"}
    BY <1>1, <2>3, <2>4, CommittedFacts, RowsFacts DEF Committed
  <2>6. n \in batch[r] /\ batch[r] = Recorded(RecordedBy(ops[r]))
    BY <1>1, <2>3, <2>4, <2>5, CommittedFacts
  <2>7. Recorded(RecordedBy(ops[r])) \subseteq Recorded(ledger')
    BY <1>1, <2>3, CommittedFacts DEF Recorded
  <2> QED BY <2>6, <2>7
<1>2. ASSUME BaseInv, [Next]_vars PROVE [Whole]_vars
  BY <1>1, <1>2
<1> QED BY <1>2, Base, PTL DEF Spec, BatchIsWhole
---------------------------------------------------------------------------
(* Nothing is left of what is not recorded. *)

\* A rollback leaves nothing behind, a revert undoes what it takes out of the
\* ledger, and only a catch-up creates tables that no row stands for.
THEOREM FailuresLeaveNothing == Spec => []UnrecordedLeftNothing
<1>1. Init => UnrecordedLeftNothing
  <2> SUFFICES ASSUME Init, NEW n \in Names, NEW s \in Slots
               PROVE  ran[n][s] = 0 \/ (s = 1 /\ n \in setup.pushed)
    BY DEF UnrecordedLeftNothing
  <2> QED BY DEF Init
<1>2. ASSUME BaseInv, UnrecordedLeftNothing, [Next]_vars PROVE UnrecordedLeftNothing'
  <2>1. CASE Edit \/ UNCHANGED vars
    BY <1>2, <2>1 DEF UnrecordedLeftNothing, Dialect, Edit, vars, db
  <2>2. ASSUME NEW r \in Runners, Start(r) \/ Step(r) \/ Fails(r) PROVE UnrecordedLeftNothing'
    <3>1. Quiet \/ Sent(r) \/ Committed(r) \/ RolledBack(r)
      BY <1>2, <2>2, Effects
    <3>2. setup' = setup
      BY <1>2, <2>2, LockMoves
    <3>3. CASE ~Committed(r)
      BY <1>2, <3>1, <3>2, <3>3 DEF UnrecordedLeftNothing, Dialect, Quiet, RolledBack, Sent, Does,
                                    Autocommits, db
    <3>4. CASE Committed(r)
      <4> SUFFICES ASSUME Dialect # "mysql", NEW n \in Names, n \notin Recorded(ledger'),
                          NEW s \in Slots
                   PROVE  \/ ran'[n][s] = 0
                          \/ s = 1 /\ (n \in setup.pushed \/ (n \in Creates /\ "dev" \in setup.commands))
        BY <3>2 DEF UnrecordedLeftNothing, Dialect
      <4>1. ran'[n][s] = IF Undo(n) \in ops[r] THEN 0
                         ELSE ran[n][s] + (IF Run(n, s) \in ops[r] THEN 1 ELSE 0)
        BY <1>2, <3>4, CommittedFacts
      <4>2. ran[n][s] \in Nat
        BY <1>2 DEF BaseInv, TypeOK
      <4>3. CASE Undo(n) \in ops[r]
        BY <4>1, <4>3
      <4>4. CASE Undo(n) \notin ops[r]
        <5>1. n \notin Recorded(ledger)
          <6>1. Forget(n) \notin ops[r]
            BY <1>2, <3>4, <4>4, CommittedFacts DEF Committed
          <6> QED BY <1>2, <3>4, <6>1, CommittedFacts DEF Recorded
        <5>2. CASE Run(n, s) \notin ops[r]
          BY <1>2, <4>1, <4>2, <4>4, <5>1, <5>2 DEF UnrecordedLeftNothing
        <5>3. CASE Run(n, s) \in ops[r]
          <6>1. pc[r] # "applying"
            <7>1. Recorded(RecordedBy(ops[r])) \subseteq Recorded(ledger')
              BY <1>2, <3>4, CommittedFacts DEF Recorded
            <7> QED BY <1>2, <3>4, <5>3, <7>1, CommittedFacts
          <6>2. pc[r] = "catching" /\ cmd[r] = "dev" /\ s = 1 /\ n \in Creates
            BY <1>2, <3>4, <5>3, <6>1, CommittedFacts DEF Committed
          <6>3. "dev" \in setup.commands
            BY <1>2, <6>2 DEF BaseInv, PlaceFits
          <6> QED BY <6>2, <6>3
        <5> QED BY <5>2, <5>3
      <4> QED BY <4>3, <4>4
    <3> QED BY <3>3, <3>4
  <2> QED BY <1>2, <2>1, <2>2 DEF Next, AllIdle
<1> QED BY <1>1, <1>2, Base, PTL DEF Spec
---------------------------------------------------------------------------
(* The checksums recorded. *)

\* A statement adds no row but its own.
LEMMA DoesRows ==
  ASSUME BaseInv, NEW r \in Runners, NEW op \in Ops, Does(r, op)
  PROVE  /\ ledger' \subseteq ledger \cup RecordedBy({op}) /\ ops'[r] \subseteq ops[r] \cup {op}
         /\ AllRows' \subseteq AllRows \cup RecordedBy({op})
         /\ op.kind = "run" => ledger' = ledger /\ AllRows' = AllRows
<1>1. ops \in [Runners -> SUBSET Ops]
  BY DEF BaseInv, TypeOK
<1>2. op.kind = "run" => RecordedBy({op}) = {} /\ \A n : Forget(n) # op
  BY RowsFacts, OpFacts
<1>3. CASE Autocommits(r)
  <2>1. ops' = ops /\ ledger' = {row \in ledger : Forget(row.name) \notin {op}} \cup RecordedBy({op})
    BY <1>3 DEF Does, After
  <2>2. op.kind = "run" => ledger' = ledger
    BY <1>2, <2>1
  <2> QED BY <2>1, <2>2 DEF AllRows
<1>4. CASE ~Autocommits(r)
  <2> DEFINE all == UNION {ops[q] : q \in Runners}
  <2>1. ops' = [ops EXCEPT ![r] = @ \cup {op}] /\ ledger' = ledger
    BY <1>4 DEF Does, db
  <2>2. UNION {ops'[q] : q \in Runners} = all \cup {op}
    BY <1>1, <2>1
  <2>3. RecordedBy(UNION {ops'[q] : q \in Runners}) = RecordedBy(all) \cup RecordedBy({op})
    BY <2>2, RowsFacts
  <2> QED BY <1>1, <1>2, <2>1, <2>3 DEF AllRows
<1> QED BY <1>3, <1>4

\* What applying one statement of a file, or its row, does.
LEMMA Applies ==
  ASSUME BaseInv, NEW r \in Runners
  PROVE  /\ Apply(r) =>
              /\ pc[r] = "applying" /\ First(r) \in todo[r] /\ First(r) \in Names /\ First(r)' = First(r)
              /\ todo'[r] = todo[r] /\ batch'[r] = batch[r] /\ ledger' = ledger /\ caughtUp' = caughtUp
              /\ AllRows' = AllRows
              /\ \A op \in ops'[r] : op.kind = "record" => op \in ops[r]
              /\ IF next[r] = 1
                 THEN content' = [content EXCEPT ![First(r)] = up[First(r)]] /\ hash'[r] = up[First(r)]
                 ELSE content' = content /\ hash'[r] = hash[r]
         /\ RecordApplied(r) =>
              /\ pc[r] = "applying" /\ First(r) \in todo[r] /\ First(r) \in Names /\ next[r] # 1
              /\ todo'[r] = todo[r] \ {First(r)} /\ batch'[r] = batch[r] /\ next'[r] = 1
              /\ Statement(r).kind = "record" /\ Statement(r).row.up = hash[r]
              /\ Statement(r).row.id = NewId
              /\ Statement(r).row.name = First(r) /\ Statement(r).name = First(r)
              /\ ledger' \subseteq ledger \cup {Statement(r).row}
              /\ AllRows' \subseteq AllRows \cup {Statement(r).row}
              /\ \A op \in ops'[r] : op \in ops[r] \/ op = Statement(r)
              /\ content' = content /\ caughtUp' = caughtUp
<1>1. TypeOK /\ TodoFits(r) /\ PlaceFits(r)
  BY DEF BaseInv
<1>2. /\ todo \in [Runners -> SUBSET Names] /\ next \in [Runners -> 1..3]
      /\ hash \in [Runners -> 0..2] /\ ops \in [Runners -> SUBSET Ops]
  BY <1>1 DEF TypeOK
<1>4. ASSUME Apply(r)
      PROVE  /\ pc[r] = "applying" /\ First(r) \in todo[r] /\ First(r) \in Names /\ First(r)' = First(r)
             /\ todo'[r] = todo[r] /\ batch'[r] = batch[r] /\ ledger' = ledger /\ caughtUp' = caughtUp
             /\ AllRows' = AllRows
             /\ \A op \in ops'[r] : op.kind = "record" => op \in ops[r]
             /\ IF next[r] = 1
                THEN content' = [content EXCEPT ![First(r)] = up[First(r)]] /\ hash'[r] = up[First(r)]
                ELSE content' = content /\ hash'[r] = hash[r]
  <2>1. /\ pc[r] = "applying" /\ todo[r] # {} /\ next[r] \in Slots /\ Sends(r) /\ Does(r, Statement(r))
        /\ todo' = todo /\ batch' = batch /\ cmd' = cmd /\ records' = records /\ caughtUp' = caughtUp
        /\ IF next[r] = 1
           THEN /\ hash' = [hash EXCEPT ![r] = up[First(r)]]
                /\ content' = [content EXCEPT ![First(r)] = up[First(r)]]
           ELSE hash' = hash /\ content' = content
    BY <1>4 DEF Apply, Sends
  <2>2. /\ Statement(r) \in Ops /\ Statement(r).kind = "run"
        /\ First(r) \in todo[r] /\ First(r) \in Names
    BY <2>1, StatementFacts, OpFacts
  <2>3. First(r)' = First(r)
    BY <2>1 DEF First
  <2>4. \A op \in ops'[r] : op.kind = "record" => op \in ops[r]
    BY DoesRows, <2>1, <2>2
  <2>5. ledger' = ledger /\ AllRows' = AllRows
    BY DoesRows, <2>1, <2>2
  <2>6. IF next[r] = 1
        THEN content' = [content EXCEPT ![First(r)] = up[First(r)]] /\ hash'[r] = up[First(r)]
        ELSE content' = content /\ hash'[r] = hash[r]
    BY <1>2, <2>1
  <2> QED BY <2>1, <2>2, <2>3, <2>4, <2>5, <2>6
<1>5. ASSUME RecordApplied(r)
      PROVE  /\ pc[r] = "applying" /\ First(r) \in todo[r] /\ First(r) \in Names /\ next[r] # 1
             /\ todo'[r] = todo[r] \ {First(r)} /\ batch'[r] = batch[r] /\ next'[r] = 1
             /\ Statement(r).kind = "record" /\ Statement(r).row.up = hash[r]
             /\ Statement(r).row.id = NewId
             /\ Statement(r).row.name = First(r) /\ Statement(r).name = First(r)
             /\ ledger' \subseteq ledger \cup {Statement(r).row}
             /\ AllRows' \subseteq AllRows \cup {Statement(r).row}
             /\ \A op \in ops'[r] : op \in ops[r] \/ op = Statement(r)
             /\ content' = content /\ caughtUp' = caughtUp
  <2>1. /\ pc[r] = "applying" /\ todo[r] # {} /\ next[r] \notin Slots /\ Sends(r) /\ Does(r, Statement(r))
        /\ todo' = [todo EXCEPT ![r] = @ \ {First(r)}] /\ next' = [next EXCEPT ![r] = 1]
        /\ batch' = batch /\ content' = content /\ caughtUp' = caughtUp
    BY <1>5 DEF RecordApplied, Sends
  <2>2. /\ Statement(r) \in Ops /\ Statement(r).kind = "record" /\ Statement(r).name = First(r)
        /\ First(r) \in todo[r] /\ First(r) \in Names /\ Statement(r).row.id = NewId
        /\ Statement(r).row.name = Statement(r).name
    BY <2>1, StatementFacts
  <2>3. Statement(r) = Record(First(r), hash[r], down[First(r)])
    BY <2>1 DEF Statement
  <2>4. Statement(r).row.up = hash[r]
    BY <2>3 DEF Record
  <2>5. next[r] # 1 /\ todo'[r] = todo[r] \ {First(r)} /\ next'[r] = 1
    BY <1>2, <2>1 DEF Slots
  <2>6. RecordedBy({Statement(r)}) = {Statement(r).row}
    BY <2>2, RowsFacts
  <2>7. /\ ledger' \subseteq ledger \cup {Statement(r).row}
        /\ AllRows' \subseteq AllRows \cup {Statement(r).row}
        /\ \A op \in ops'[r] : op \in ops[r] \/ op = Statement(r)
    BY DoesRows, <2>1, <2>2, <2>6
  <2> QED BY <2>1, <2>2, <2>4, <2>5, <2>7
<1> QED BY <1>4, <1>5

\* A row that a step adds is a catch-up's, or one of the deploy that took the step.
LEMMA NewRows ==
  ASSUME BaseInv, NEW r \in Runners, Start(r) \/ Step(r) \/ Fails(r)
  PROVE  /\ caughtUp \cap Recorded(ledger') \subseteq caughtUp'
         /\ \A row \in ledger' \ ledger :
              \/ pc[r] = "recording" /\ row.name \in caughtUp'
              \/ /\ pc[r] = "applying"
                 /\ \/ row \in RecordedBy(ops[r]) /\ todo[r] = {}
                    \/ RecordApplied(r) /\ row = Statement(r).row
<1>1. Quiet \/ Sent(r) \/ Committed(r) \/ RolledBack(r)
  BY Effects
<1>2. CASE Quiet \/ RolledBack(r)
  BY <1>2 DEF Quiet, RolledBack
<1>3. CASE Committed(r)
  <2>1. caughtUp \cap Recorded(ledger') \subseteq caughtUp'
    BY <1>3 DEF Committed
  <2>2. \A row \in ledger' \ ledger : row \in RecordedBy(ops[r])
    BY <1>3, CommittedFacts
  <2>3. \A row \in RecordedBy(ops[r]) : row.name \in Recorded(RecordedBy(ops[r]))
    BY DEF Recorded
  <2>4. CASE pc[r] = "recording"
    <3>1. caughtUp' = caughtUp \cup batch[r]
      BY <1>3, <2>4 DEF Committed
    <3>2. Recorded(RecordedBy(ops[r])) \subseteq batch[r]
      BY <1>3, <2>4, CommittedFacts
    <3> QED BY <2>1, <2>2, <2>3, <2>4, <3>1, <3>2
  <2>5. CASE pc[r] = "applying"
    <3>1. todo[r] = {}
      BY <1>3, <2>5 DEF Committed
    <3> QED BY <2>1, <2>2, <2>5, <3>1
  <2>6. CASE pc[r] \in {"catching", "reverted"}
    BY <1>3, <2>1, <2>2, <2>6, CommittedFacts
  <2> QED BY <1>3, <2>4, <2>5, <2>6 DEF Committed
<1>4. CASE Sent(r)
  <2>1. caughtUp \cap Recorded(ledger') \subseteq caughtUp'
    BY <1>4 DEF Sent
  <2>2. Statement(r) \in Ops /\ Does(r, Statement(r)) /\ Sends(r)
    BY <1>4, StatementFacts DEF Sent
  <2>3. ASSUME NEW row \in ledger' \ ledger PROVE pc[r] = "applying" /\ RecordApplied(r) /\ row = Statement(r).row
    <3>1. Autocommits(r) /\ row \in RecordedBy({Statement(r)})
      BY <2>2 DEF Does, After, db
    <3>2. Statement(r).kind = "record" /\ row = Statement(r).row
      BY <2>2, <3>1, RowsFacts
    <3>3. pc[r] = "applying"
      BY <2>2, <3>1, <3>2, StatementFacts DEF Autocommits
    <3>4. next[r] \notin Slots
      BY <2>2, <3>2, <3>3, StatementFacts DEF Run
    <3>5. ~(CatchUp(r) \/ RecordCaughtUp(r) \/ Reconciled(r) \/ Lock(r) \/ GetLockTimesOut(r) \/ Read(r)
            \/ Plan(r) \/ Collide(r) \/ Introspect(r) \/ Choose(r) \/ Check(r) \/ Revert(r)
            \/ Reverted(r) \/ Start(r))
      BY <3>3 DEF CatchUp, RecordCaughtUp, Reconciled, Lock, GetLockTimesOut, Read, Plan, Collide,
                  Introspect, Choose, Check, Revert, Reverted, Start
    <3>6. ~Apply(r) /\ ~(Refused(r) \/ Fails(r)) /\ ~Deployed(r)
      <4>1. todo[r] # {}
        BY <2>2, <3>3 DEF Sends
      <4>2. ledger' # ledger
        OBVIOUS
      <4> QED BY <3>4, <4>1, <4>2 DEF Apply, Refused, Fails, RollsBack, db, Deployed
    <3> QED BY <3>2, <3>3, <3>5, <3>6 DEF Step, Deploying, Reconciling, Reverting
  <2> QED BY <2>1, <2>3
<1> QED BY <1>1, <1>2, <1>3, <1>4

\* A deploy that plans or applies has seen every row but a catch-up's, and keeps
\* the checksums of what it runs.
Checked(r) ==
  /\ Past(r) /\ pc[r] = "planning" => Recorded(ledger) \ Recorded(records[r]) \subseteq caughtUp
  /\ (Past(r) /\ pc[r] = "colliding") \/ pc[r] = "applying" =>
       todo[r] \cap Recorded(ledger) \subseteq caughtUp
  /\ pc[r] = "applying" =>
       /\ next[r] # 1 => hash[r] = content[First(r)]
       /\ \A op \in ops[r] : op.kind = "record" => op.row.up = content[op.name]
Checksums == ~setup.timeouts => ChecksumOfWhatRan /\ \A r \in Runners : Checked(r)

\* Only a deploy that is past its lock rewrites content or adds rows of its own.
LEMMA ChecksumsOfOthers ==
  ASSUME BaseInv, Holds, Checksums, ~setup.timeouts, NEW r \in Runners, NEW q \in Runners \ {r},
         Start(r) \/ Step(r) \/ Fails(r)
  PROVE  Checked(q)'
<1>1. /\ pc'[q] = pc[q] /\ cmd'[q] = cmd[q] /\ records'[q] = records[q] /\ batch'[q] = batch[q]
      /\ todo'[q] = todo[q] /\ next'[q] = next[q] /\ hash'[q] = hash[q] /\ ops'[q] = ops[q]
  BY OnlyOwn DEF OthersSame
<1>2. First(q)' = First(q)
  BY <1>1 DEF First
<1>3. CASE ~(Past(q) /\ pc[q] \in {"planning", "colliding", "applying"})
  <2>1. pc[q] # "applying" /\ ~(Past(q) /\ pc[q] \in {"planning", "colliding"})
    BY <1>3 DEF BaseInv, PlaceFits, Past
  <2> QED BY <1>1, <2>1 DEF Checked, Past
<1>4. CASE Past(q) /\ pc[q] \in {"planning", "colliding", "applying"}
  <2>1. pc[r] # "applying"
    <3>1. lock = q
      BY <1>4 DEF Holds
    <3>2. ~Past(r)
      BY <3>1 DEF Holds
    <3> QED BY <3>2 DEF BaseInv, PlaceFits, Past
  <2>2. content' = content
    BY <2>1, Arrivals DEF Apply
  <2>3. \A n \in Recorded(ledger') : n \in Recorded(ledger) \/ n \in caughtUp'
    BY <2>1, NewRows DEF Recorded
  <2>4. \A n \in Recorded(ledger') : n \in caughtUp => n \in caughtUp'
    BY NewRows
  <2>5. Checked(q)
    BY DEF Checksums
  <2> QED BY <1>1, <1>2, <2>2, <2>3, <2>4, <2>5 DEF Checked, Past
<1> QED BY <1>3, <1>4

LEMMA ChecksumsOfOwn ==
  ASSUME BaseInv, Checksums, ~setup.timeouts, NEW r \in Runners, Start(r) \/ Step(r) \/ Fails(r)
  PROVE  Checked(r)'
<1>1. Checked(r) /\ content \in [Names -> 0..2] /\ ops \in [Runners -> SUBSET Ops]
  BY DEF Checksums, BaseInv, TypeOK
<1>2. CASE pc'[r] = "planning"
  <2>1. pc[r] = "reading" /\ records'[r] = ledger /\ Quiet
    BY <1>2, Arrivals
  <2> QED BY <1>2, <2>1 DEF Checked, Quiet
<1>3. CASE pc'[r] = "applying" /\ pc[r] = "colliding"
  <2>1. cmd[r] = "deploy" /\ todo'[r] = todo[r] /\ next'[r] = 1 /\ Quiet
    BY <1>3, Arrivals DEF Apply, RecordApplied
  <2>2. ops[r] = {}
    BY <1>3, NothingDone
  <2>3. todo[r] \cap Recorded(ledger) \subseteq caughtUp
    BY <1>1, <1>3, <2>1 DEF Checked, Past
  <2> QED BY <1>3, <2>1, <2>2, <2>3 DEF Checked, Quiet
<1>4. CASE Apply(r)
  <2>1. /\ pc[r] = "applying" /\ First(r) \in todo[r] /\ First(r) \in Names /\ First(r)' = First(r)
        /\ todo'[r] = todo[r] /\ batch'[r] = batch[r] /\ ledger' = ledger /\ caughtUp' = caughtUp
        /\ \A op \in ops'[r] : op.kind = "record" => op \in ops[r]
        /\ IF next[r] = 1
           THEN content' = [content EXCEPT ![First(r)] = up[First(r)]] /\ hash'[r] = up[First(r)]
           ELSE content' = content /\ hash'[r] = hash[r]
    BY <1>4, Applies
  <2>2. \A op \in ops[r] : op.kind = "record" => op.name # First(r)
    BY <2>1 DEF BaseInv, OpsFit, Did
  <2>3. \A n \in Names : n # First(r) => content'[n] = content[n]
    BY <1>1, <2>1
  <2>4. \A op \in ops[r] : op.name \in Names
    BY <1>1, OpFacts
  <2>5. \A op \in ops'[r] : op.kind = "record" => op.row.up = content'[op.name]
    BY <1>1, <2>1, <2>2, <2>3, <2>4 DEF Checked
  <2>6. hash'[r] = content'[First(r)]
    BY <1>1, <2>1 DEF Checked
  <2>8. pc'[r] = pc[r]
    BY <1>4 DEF Apply
  <2> QED BY <1>1, <2>1, <2>5, <2>6, <2>8 DEF Checked
<1>5. CASE RecordApplied(r)
  <2>1. /\ pc[r] = "applying" /\ First(r) \in todo[r] /\ First(r) \in Names /\ next[r] # 1
        /\ todo'[r] = todo[r] \ {First(r)} /\ next'[r] = 1
        /\ Statement(r).row.up = hash[r] /\ Statement(r).row.name = First(r) /\ Statement(r).name = First(r)
        /\ ledger' \subseteq ledger \cup {Statement(r).row}
        /\ \A op \in ops'[r] : op \in ops[r] \/ op = Statement(r)
        /\ content' = content /\ caughtUp' = caughtUp
    BY <1>5, Applies
  <2>2. todo'[r] \cap Recorded(ledger') \subseteq caughtUp'
    BY <1>1, <2>1 DEF Checked, Recorded
  <2>3. pc'[r] = pc[r]
    BY <1>5 DEF RecordApplied
  <2> QED BY <1>1, <2>1, <2>2, <2>3 DEF Checked
<1>6. CASE pc'[r] = "colliding"
  <2>1. pc[r] = "planning" /\ cmd'[r] = cmd[r] /\ todo'[r] = Pending(r) /\ Quiet
    BY <1>6, Arrivals
  <2>2. Past(r)' => Recorded(ledger) \ Recorded(records[r]) \subseteq caughtUp
    BY <1>1, <2>1 DEF Checked, Past
  <2> QED BY <1>6, <2>1, <2>2 DEF Checked, Quiet, Pending
<1>7. pc'[r] \notin {"planning", "colliding", "applying"} => Checked(r)'
  BY DEF Checked
<1> QED BY <1>2, <1>3, <1>4, <1>5, <1>6, <1>7, Arrivals

LEMMA ChecksumsStep ==
  ASSUME BaseInv, Holds, Checksums, [Next]_vars
  PROVE  Checksums'
<1>1. CASE Edit \/ UNCHANGED vars
  <2>1. /\ setup' = setup /\ ledger' = ledger /\ caughtUp' = caughtUp /\ content' = content /\ pc' = pc
        /\ cmd' = cmd /\ records' = records /\ todo' = todo /\ next' = next /\ hash' = hash /\ ops' = ops
    BY <1>1 DEF Edit, vars, db, own
  <2>2. \A r \in Runners : First(r)' = First(r)
    BY <2>1 DEF First
  <2> QED BY <2>1, <2>2 DEF Checksums, ChecksumOfWhatRan, Checked, Past
<1>2. ASSUME NEW r \in Runners, Start(r) \/ Step(r) \/ Fails(r) PROVE Checksums'
  <2>1. setup' = setup
    BY <1>2, LockMoves
  <2> SUFFICES ASSUME ~setup.timeouts PROVE ChecksumOfWhatRan' /\ \A q \in Runners : Checked(q)'
    BY <2>1 DEF Checksums
  <2>2. \A q \in Runners : Checked(q)'
    BY <1>2, ChecksumsOfOthers, ChecksumsOfOwn
  <2>3. ASSUME NEW row \in ledger', row.name \notin caughtUp' PROVE row.up = content'[row.name]
    <3>1. Checked(r) /\ ChecksumOfWhatRan /\ content \in [Names -> 0..2]
      BY DEF Checksums, BaseInv, TypeOK
    <3>2. CASE row \in ledger
      <4>1. row.name \notin caughtUp /\ row.name \in Recorded(ledger)
        BY <1>2, <2>3, <3>2, NewRows DEF Recorded
      <4>2. row.up = content[row.name]
        BY <3>1, <3>2, <4>1 DEF ChecksumOfWhatRan
      <4>3. content'[row.name] = content[row.name]
        <5>1. CASE Apply(r)
          <6>1. row.name # First(r)
            BY <3>1, <4>1, <5>1, Applies DEF Checked
          <6>2. row.name \in Names
            BY <3>2 DEF BaseInv, TypeOK, Rows
          <6> QED BY <3>1, <5>1, <6>1, <6>2, Applies
        <5> QED BY <1>2, <5>1, Arrivals
      <4> QED BY <4>2, <4>3
    <3>3. CASE row \notin ledger
      <4>1. /\ pc[r] = "applying"
            /\ \/ row \in RecordedBy(ops[r]) /\ todo[r] = {}
               \/ RecordApplied(r) /\ row = Statement(r).row
        BY <1>2, <2>3, <3>3, NewRows DEF Recorded
      <4>2. CASE row \in RecordedBy(ops[r]) /\ todo[r] = {}
        <5>1. PICK op \in ops[r] : op.kind = "record" /\ op.row = row
          BY <4>2 DEF RecordedBy
        <5>2. op.row.name = op.name
          BY <5>1 DEF BaseInv, OpsFit, Did
        <5>3. content' = content
          BY <1>2, <4>2, Arrivals DEF Apply
        <5> QED BY <3>1, <4>1, <5>1, <5>2, <5>3 DEF Checked
      <4>3. CASE RecordApplied(r) /\ row = Statement(r).row
        BY <3>1, <4>1, <4>3, Applies DEF Checked
      <4> QED BY <4>1, <4>2, <4>3
    <3> QED BY <3>2, <3>3
  <2> QED BY <2>2, <2>3 DEF ChecksumOfWhatRan
<1> QED BY <1>1, <1>2 DEF Next, AllIdle

\* As long as no GET_LOCK times out, the checksum a row keeps is that of what
\* was run, whatever is edited meanwhile: between a deploy's reading of the
\* ledger and its end nobody but a reconcile adds a row.
THEOREM ChecksumsAreTrue == Spec => [](~setup.timeouts => ChecksumOfWhatRan)
<1>1. Init => Checksums
  BY DEF Init, Checksums, ChecksumOfWhatRan, Checked, Past
<1>2. Checksums => (~setup.timeouts => ChecksumOfWhatRan)
  BY DEF Checksums
<1> QED BY <1>1, <1>2, Base, HoldsAlways, ChecksumsStep, PTL DEF Spec
---------------------------------------------------------------------------
(* The order of the ledger. *)

\* Rows disappear, or a deploy adds the one of its next file.
LEMMA RowsOfStep ==
  ASSUME BaseInv, NEW r \in Runners, Start(r) \/ Step(r) \/ Fails(r), pc[r] # "recording"
  PROVE  AllRows' \subseteq AllRows \/ RecordApplied(r)
<1>1. Quiet \/ Sent(r) \/ Committed(r) \/ RolledBack(r)
  BY Effects
<1>2. ops \in [Runners -> SUBSET Ops]
  BY DEF BaseInv, TypeOK
<1> DEFINE all == UNION {ops[q] : q \in Runners}
<1>3. CASE Quiet
  BY <1>3 DEF Quiet, AllRows
<1>4. ASSUME ops' = [ops EXCEPT ![r] = {}], ledger' \subseteq ledger \cup RecordedBy(ops[r])
      PROVE  AllRows' \subseteq AllRows
  <2>1. UNION {ops'[q] : q \in Runners} \subseteq all /\ ops[r] \subseteq all
    BY <1>2, <1>4
  <2>2. /\ RecordedBy(UNION {ops'[q] : q \in Runners}) \subseteq RecordedBy(all)
        /\ RecordedBy(ops[r]) \subseteq RecordedBy(all)
    BY <2>1 DEF RecordedBy
  <2> QED BY <1>4, <2>2 DEF AllRows
<1>5. CASE RolledBack(r)
  BY <1>4, <1>5 DEF RolledBack
<1>6. CASE Committed(r)
  <2>1. ledger' \subseteq ledger \cup RecordedBy(ops[r])
    BY <1>6, CommittedFacts
  <2> QED BY <1>4, <1>6, <2>1 DEF Committed, Publish
<1>7. CASE Sent(r)
  <2>1. Statement(r) \in Ops /\ Does(r, Statement(r)) /\ Sends(r)
    BY <1>7, StatementFacts DEF Sent
  <2>2. CASE Statement(r).kind # "record"
    <3>1. RecordedBy({Statement(r)}) = {}
      BY <2>2, RowsFacts
    <3> QED BY <2>1, <3>1, DoesRows
  <2>3. CASE Statement(r).kind = "record"
    <3>1. pc[r] = "applying" /\ next[r] \notin Slots /\ todo[r] # {}
      BY <2>1, <2>3, StatementFacts DEF Run, Sends
    <3>2. ~(CatchUp(r) \/ RecordCaughtUp(r) \/ Reconciled(r) \/ Lock(r) \/ GetLockTimesOut(r) \/ Read(r)
            \/ Plan(r) \/ Collide(r) \/ Introspect(r) \/ Choose(r) \/ Check(r) \/ Revert(r)
            \/ Reverted(r) \/ Start(r))
      BY <3>1 DEF CatchUp, RecordCaughtUp, Reconciled, Lock, GetLockTimesOut, Read, Plan, Collide,
                  Introspect, Choose, Check, Revert, Reverted, Start
    <3>3. ~Apply(r) /\ ~Deployed(r)
      BY <3>1 DEF Apply, Deployed
    <3>4. Refused(r) \/ Fails(r) => AllRows' \subseteq AllRows
      BY <1>4 DEF Refused, Fails, RollsBack, db
    <3> QED BY <3>2, <3>3, <3>4 DEF Step, Deploying, Reconciling, Reverting
  <2> QED BY <2>2, <2>3
<1> QED BY <1>1, <1>3, <1>5, <1>6, <1>7

\* Committed or not, rows have the order of their names; a deploy plans on the
\* whole ledger, and the files it still has to apply come after every row.
Later(r) ==
  /\ Past(r) /\ pc[r] = "planning" => ledger \subseteq records[r]
  /\ (Past(r) /\ pc[r] = "colliding") \/ pc[r] = "applying" =>
       \A n \in todo[r], row \in AllRows : row.name < n
Ordered ==
  ~setup.timeouts /\ "dev" \notin setup.commands =>
    /\ \A a, b \in AllRows : a.id < b.id <=> a.name < b.name
    /\ \A r \in Runners : Later(r)

LEMMA RowTypes ==
  ASSUME BaseInv
  PROVE  AllRows \subseteq Rows /\ \A row \in AllRows : row.id \in Nat /\ row.name \in Nat
<1>1. UNION {ops[r] : r \in Runners} \subseteq Ops /\ ledger \subseteq Rows
  BY DEF BaseInv, TypeOK
<1>2. AllRows \subseteq Rows
  BY <1>1, RowsFacts DEF AllRows
<1> QED BY <1>2, NamesAreNumbers DEF Rows

LEMMA OrderedStep ==
  ASSUME BaseInv, Holds, Ordered, [Next]_vars
  PROVE  Ordered'
<1>1. CASE Edit \/ UNCHANGED vars
  <2>1. /\ setup' = setup /\ ledger' = ledger /\ pc' = pc /\ cmd' = cmd /\ records' = records
        /\ todo' = todo /\ ops' = ops
    BY <1>1 DEF Edit, vars, db, own
  <2> QED BY <2>1 DEF Ordered, Later, Past, AllRows
<1>2. ASSUME NEW r \in Runners, Start(r) \/ Step(r) \/ Fails(r) PROVE Ordered'
  <2>1. setup' = setup
    BY <1>2, LockMoves
  <2> SUFFICES ASSUME ~setup.timeouts, "dev" \notin setup.commands
               PROVE  /\ \A a, b \in AllRows' : a.id < b.id <=> a.name < b.name
                      /\ \A q \in Runners : Later(q)'
    BY <2>1 DEF Ordered
  <2>2. \A q \in Runners : /\ Later(q) /\ PlaceFits(q) /\ pc[q] # "recording"
                           /\ Past(q) => lock = q
    BY DEF Ordered, BaseInv, PlaceFits, Holds
  <2>3. \A a, b \in AllRows : a.id < b.id <=> a.name < b.name
    BY DEF Ordered
  <2>4. \A row \in AllRows : row.id \in Nat /\ row.name \in Nat
    BY RowTypes
  <2>5. \A row \in ledger' : row \in ledger \/ pc[r] = "applying"
    BY <1>2, <2>2, NewRows
  <2>6. \A q \in Runners \ {r} : /\ pc'[q] = pc[q] /\ cmd'[q] = cmd[q] /\ records'[q] = records[q]
                                 /\ todo'[q] = todo[q]
    BY <1>2, OnlyOwn DEF OthersSame
  <2>7. \A q \in Runners : pc[q] = "applying" => Past(q)
    BY <2>2 DEF PlaceFits, Past
  <2>8. CASE RecordApplied(r)
    <3> DEFINE new == Statement(r).row
    <3>1. /\ pc[r] = "applying" /\ First(r) \in todo[r] /\ First(r) \in Names
          /\ todo'[r] = todo[r] \ {First(r)} /\ new.id = NewId /\ new.name = First(r)
          /\ AllRows' \subseteq AllRows \cup {new} /\ pc'[r] = pc[r]
      BY <2>8, Applies DEF RecordApplied
    <3>2. NewId \in Nat /\ \A row \in AllRows : row.id < NewId
      BY NewIdFacts
    <3>3. First(r) \in Nat /\ \A row \in AllRows : row.name < First(r)
      BY <2>2, <3>1, NamesAreNumbers DEF Later
    <3>4. \A a, b \in AllRows \cup {new} : a.id < b.id <=> a.name < b.name
      BY <2>3, <2>4, <3>1, <3>2, <3>3
    <3>5. \A n \in todo'[r] : n \in Nat /\ First(r) < n /\ n \in todo[r]
      <4>1. cmd[r] # "down"
        BY <2>2, <3>1 DEF PlaceFits
      <4>2. todo[r] \subseteq Nat
        BY NamesAreNumbers DEF BaseInv, TypeOK
      <4>3. \A m \in todo[r] : First(r) <= m
        BY <3>1, <4>1, FirstFacts
      <4> QED BY <3>1, <3>3, <4>2, <4>3
    <3>6. \A n \in todo'[r], row \in AllRows \cup {new} : row.name < n
      BY <2>2, <3>1, <3>5 DEF Later
    <3>7. Later(r)'
      BY <3>1, <3>6 DEF Later, Past
    <3>8. \A q \in Runners \ {r} : ~Past(q)
      BY <2>2, <2>7, <3>1
    <3>9. \A q \in Runners \ {r} : ~Past(q)' /\ pc'[q] # "applying"
      BY <2>6, <2>7, <3>8 DEF Past
    <3> QED BY <3>1, <3>4, <3>7, <3>9 DEF Later
  <2>9. CASE ~RecordApplied(r)
    <3>1. AllRows' \subseteq AllRows
      BY <1>2, <2>2, <2>9, RowsOfStep
    <3>2. ASSUME NEW q \in Runners \ {r} PROVE Later(q)'
      <4>1. Past(q) /\ pc[q] = "planning" => ledger' \subseteq records[q]
        <5>1. Past(q) => pc[r] # "applying"
          BY <2>2, <2>7
        <5> QED BY <2>2, <2>5, <5>1 DEF Later
      <4> QED BY <2>2, <2>6, <3>1, <4>1 DEF Later, Past
    <3>3. Later(r)'
      <4>1. CASE pc'[r] = "planning"
        BY <1>2, <4>1, Arrivals DEF Later, Quiet
      <4>2. CASE pc'[r] = "colliding" /\ Past(r)'
        <5>1. pc[r] = "planning" /\ InOrder(r) /\ todo'[r] = Pending(r) /\ Past(r)
          BY <1>2, <4>2, Arrivals DEF Past
        <5>2. \A q \in Runners : \A op \in ops[q] : op.kind # "record"
          <6>1. \A q \in Runners : pc[q] = "applying" => FALSE
            BY <2>2, <2>7, <5>1
          <6>2. \A q \in Runners : \A op \in ops[q] : Did(q, op)
            BY DEF BaseInv, OpsFit
          <6> QED BY <2>2, <6>1, <6>2 DEF Did
        <5>3. AllRows = ledger
          BY <5>2 DEF AllRows, RecordedBy
        <5>4. ledger \subseteq records[r]
          BY <2>2, <5>1 DEF Later
        <5>5. \A n \in Pending(r), row \in ledger : row.name < n
          BY <5>1, <5>4 DEF InOrder, Recorded
        <5> QED BY <3>1, <4>2, <5>1, <5>3, <5>5 DEF Later
      <4>3. CASE Apply(r)
        <5>1. pc[r] = "applying" /\ todo'[r] = todo[r] /\ AllRows' = AllRows /\ pc'[r] = pc[r]
          BY <4>3, Applies DEF Apply
        <5> QED BY <2>2, <5>1 DEF Later
      <4>4. CASE pc'[r] = "applying" /\ pc[r] = "colliding"
        <5>1. Past(r) /\ todo'[r] = todo[r]
          BY <1>2, <2>9, <4>4, Arrivals DEF Apply, Past
        <5> QED BY <2>2, <3>1, <4>4, <5>1 DEF Later
      <4>5. pc'[r] # "planning" /\ ~(pc'[r] = "colliding" /\ Past(r)') /\ pc'[r] # "applying" => Later(r)'
        BY DEF Later
      <4> QED BY <1>2, <2>9, <4>1, <4>2, <4>3, <4>4, <4>5, Arrivals
    <3> QED BY <2>3, <3>1, <3>2, <3>3
  <2> QED BY <2>8, <2>9
<1> QED BY <1>1, <1>2 DEF Next, AllIdle

\* Deploys and reverts, as long as no GET_LOCK times out, leave the rows of the
\* ledger in the order of the files' names.
THEOREM DeploysKeepOrder ==
  Spec => [](~setup.timeouts /\ "dev" \notin setup.commands => LedgerInOrder)
<1>1. Init => Ordered
  <2> SUFFICES ASSUME Init PROVE Ordered
    OBVIOUS
  <2>1. UNION {ops[r] : r \in Runners} = {} /\ ledger = {} /\ \A r \in Runners : pc[r] = "idle"
    BY DEF Init
  <2>2. AllRows = {}
    BY <2>1, RowsFacts DEF AllRows
  <2> QED BY <2>1, <2>2 DEF Ordered, Later
<1>2. Ordered => (~setup.timeouts /\ "dev" \notin setup.commands => LedgerInOrder)
  BY DEF Ordered, LedgerInOrder, AllRows
<1> QED BY <1>1, <1>2, Base, HoldsAlways, OrderedStep, PTL DEF Spec
---------------------------------------------------------------------------
(* What is recorded has run. *)

\* Where statements do not autocommit, no two open transactions create one table
\* or write one row, and what they do is still to be seen by the others.
InWay(a, b) ==
  /\ a.name = b.name
  /\ \/ a.kind = "record" /\ b.kind = "record"
     \/ a.kind = "run" /\ OnTable(a) /\ b.kind = "run" /\ OnTable(b)
Exclusion ==
  Dialect # "mysql" =>
    /\ \A n \in Creates : ran[n][1] \in 0..1
    /\ \A r \in Runners : \A op \in ops[r] :
         /\ op.kind = "record" => op.name \notin Recorded(ledger)
         /\ op.kind = "run" /\ OnTable(op) => ran[op.name][1] = 0
    /\ \A r \in Runners : \A q \in Runners \ {r} : \A a \in ops[r], b \in ops[q] : ~InWay(a, b)
    /\ Dialect = "sqlite" => \A r \in Runners : ops[r] # {} => lock = r

\* A transaction that goes on keeps the lock.
LEMMA LockKept ==
  ASSUME BaseInv, NEW r \in Runners, Start(r) \/ Step(r) \/ Fails(r)
  PROVE  ops'[r] = {} \/ lock' \in {lock, r}
<1>1. ops \in [Runners -> SUBSET Ops]
  BY DEF BaseInv, TypeOK
<1>2. Publish(r) \/ ops' = [ops EXCEPT ![r] = {}] => ops'[r] = {}
  BY <1>1 DEF Publish
<1>3. \A op : Does(r, op) => lock' \in {lock, r}
  BY DEF Does
<1>4. CASE Start(r) \/ Lock(r) \/ GetLockTimesOut(r) \/ Read(r) \/ Introspect(r) \/ Choose(r) \/ Check(r)
  BY <1>4 DEF Start, Lock, GetLockTimesOut, Read, Introspect, Choose, Check
<1>5. CASE Plan(r) \/ Collide(r)
  BY <1>5, NothingDone DEF Plan, Collide
<1>6. CASE CatchUp(r) \/ RecordCaughtUp(r) \/ Reconciled(r)
  BY <1>2, <1>3, <1>6 DEF CatchUp, RecordCaughtUp, Reconciled
<1>7. CASE Apply(r) \/ RecordApplied(r) \/ Deployed(r)
  BY <1>2, <1>3, <1>7 DEF Apply, RecordApplied, Deployed
<1>8. CASE Revert(r) \/ Reverted(r)
  BY <1>2, <1>3, <1>8 DEF Revert, Reverted
<1>9. CASE Refused(r) \/ Fails(r)
  BY <1>2, <1>9 DEF Refused, Fails, RollsBack
<1> QED BY <1>4, <1>5, <1>6, <1>7, <1>8, <1>9 DEF Step, Deploying, Reconciling, Reverting

\* What a statement that goes through finds, where statements do not autocommit.
LEMMA SentFacts ==
  ASSUME BaseInv, Exclusion, Dialect # "mysql", NEW r \in Runners, Sent(r)
  PROVE  /\ Statement(r) \in Ops /\ ops' = [ops EXCEPT ![r] = @ \cup {Statement(r)}]
         /\ ops'[r] = ops[r] \cup {Statement(r)} /\ ran' = ran /\ ledger' = ledger
         /\ Statement(r).kind = "record" => Statement(r).name \notin Recorded(ledger)
         /\ Statement(r).kind = "run" /\ OnTable(Statement(r)) => ran[Statement(r).name][1] = 0
         /\ \A q \in Runners \ {r} : \A b \in ops[q] :
              ~InWay(Statement(r), b) /\ ~InWay(b, Statement(r))
<1> DEFINE op == Statement(r)
<1>1. op \in Ops /\ Does(r, op) /\ Sends(r) /\ ops \in [Runners -> SUBSET Ops]
  BY StatementFacts DEF Sent, BaseInv, TypeOK
<1>2. ops' = [ops EXCEPT ![r] = @ \cup {op}] /\ ran' = ran /\ ledger' = ledger
  BY <1>1 DEF Does, Autocommits, db
<1>3. ops'[r] = ops[r] \cup {op}
  BY <1>1, <1>2
<1>4. \A o \in ops[r] : Did(r, o)
  BY DEF BaseInv, OpsFit
<1>5. op.kind = "record" => op.name \notin Recorded(ledger)
  <2>1. \A n : Forget(n) \notin ops[r]
    BY <1>1, <1>4, OpFacts DEF Did, Sends
  <2>2. ledger \subseteq Visible(r).ledger
    BY <2>1 DEF Visible, After
  <2>3. op.kind = "record" => op.name \notin Recorded(Visible(r).ledger)
    BY <1>1 DEF Does, Can
  <2> QED BY <2>2, <2>3 DEF Recorded
<1>6. ASSUME op.kind = "run", OnTable(op) PROVE ran[op.name][1] = 0
  <2>1. op.name \in Creates /\ op.slot = 1 /\ op.name \in Names
    BY <1>1, <1>6, OpFacts DEF OnTable
  <2>2. Visible(r).ran[op.name][1] = 0
    BY <1>1, <1>6, <2>1 DEF Does, Can
  <2>3. pc[r] \notin {"forgetting", "reverted"}
    BY <1>1, <1>6, StatementFacts, OpFacts DEF Sends
  <2>4. Undo(op.name) \notin ops[r]
    BY <1>4, <2>3, OpFacts DEF Did
  <2>5. ran[op.name][1] \in Nat
    BY <2>1 DEF BaseInv, TypeOK, Slots
  <2>6. Visible(r).ran[op.name][1] = ran[op.name][1] + (IF Run(op.name, 1) \in ops[r] THEN 1 ELSE 0)
    BY <2>1, <2>4, AfterRan DEF Visible, Slots
  <2> QED BY <2>2, <2>5, <2>6
<1>7. ASSUME NEW q \in Runners \ {r}, NEW b \in ops[q] PROVE ~InWay(op, b) /\ ~InWay(b, op)
  <2>1. CASE Dialect = "sqlite"
    <3>1. lock \in {r, NoRunner}
      BY <1>1, <2>1 DEF Does, Blocked
    <3>2. lock = q
      BY <1>7, <2>1 DEF Exclusion
    <3> QED BY <3>1, <3>2, NamesAssumption
  <2>2. CASE Dialect # "sqlite"
    <3>1. ~(b.name = op.name /\ ((OnTable(op) /\ OnTable(b)) \/ (OnLedger(op) /\ OnLedger(b))))
      BY <1>1, <1>7, <2>2 DEF Does, Blocked
    <3> QED BY <3>1 DEF InWay, OnLedger
  <2> QED BY <2>1, <2>2
<1> QED BY <1>1, <1>2, <1>3, <1>5, <1>6, <1>7

LEMMA ExclusionStep ==
  ASSUME BaseInv, Exclusion, [Next]_vars
  PROVE  Exclusion'
<1>1. CASE Edit \/ UNCHANGED vars
  <2>1. setup' = setup /\ ran' = ran /\ ledger' = ledger /\ ops' = ops /\ lock' = lock
    BY <1>1 DEF Edit, vars, db
  <2> QED BY <2>1 DEF Exclusion, InWay, OnTable, Dialect
<1>2. ASSUME NEW r \in Runners, Start(r) \/ Step(r) \/ Fails(r) PROVE Exclusion'
  <2>1. setup' = setup
    BY <1>2, LockMoves
  <2> DEFINE Fresh(state, rows, did) ==
               \A op \in did : /\ op.kind = "record" => op.name \notin Recorded(rows)
                               /\ op.kind = "run" /\ OnTable(op) => state[op.name][1] = 0
  <2> SUFFICES ASSUME Dialect # "mysql"
               PROVE  /\ \A n \in Creates : ran'[n][1] \in 0..1
                      /\ \A q \in Runners : Fresh(ran', ledger', ops'[q])
                      /\ \A p \in Runners : \A q \in Runners \ {p} : \A a \in ops'[p], b \in ops'[q] : ~InWay(a, b)
                      /\ Dialect = "sqlite" => \A q \in Runners : ops'[q] # {} => lock' = q
    BY <2>1 DEF Exclusion, Dialect, InWay, OnTable
  <2>2. \A q \in Runners \ {r} : ops'[q] = ops[q]
    BY <1>2, OnlyOwn DEF OthersSame
  <2>3. /\ \A n \in Creates : ran[n][1] \in 0..1
        /\ \A q \in Runners : Fresh(ran, ledger, ops[q])
        /\ \A p \in Runners : \A q \in Runners \ {p} : \A a \in ops[p], b \in ops[q] : ~InWay(a, b)
        /\ Dialect = "sqlite" => \A q \in Runners : ops[q] # {} => lock = q
    BY DEF Exclusion
  <2>4. ASSUME Dialect = "sqlite", NEW q \in Runners, ops'[q] # {} PROVE lock' = q
    <3>1. CASE q # r
      <4>1. lock = q
        BY <2>2, <2>3, <2>4, <3>1
      <4> QED BY <1>2, <3>1, <4>1, LockMoves, NamesAssumption
    <3>2. CASE q = r
      <4>1. CASE Sent(r)
        BY <2>4, <3>2, <4>1 DEF Sent, Does
      <4>2. CASE ~Sent(r)
        <5>1. Quiet
          BY <1>2, <2>4, <3>2, <4>2, Effects DEF Committed, Publish, RolledBack, BaseInv, TypeOK
        <5>2. lock = r
          BY <2>3, <2>4, <3>2, <5>1 DEF Quiet
        <5> QED BY <1>2, <2>4, <3>2, <5>2, LockKept
      <4> QED BY <4>1, <4>2
    <3> QED BY <3>1, <3>2
  <2>5. CASE Quiet
    BY <2>3, <2>4, <2>5 DEF Quiet
  <2>6. CASE RolledBack(r)
    <3>1. ops'[r] = {} /\ ran' = ran /\ ledger' = ledger
      BY <2>6 DEF RolledBack, BaseInv, TypeOK
    <3> HIDE DEF Fresh
    <3>2. \A q \in Runners : Fresh(ran, ledger, ops'[q])
      BY <2>2, <2>3, <3>1 DEF Fresh
    <3>3. \A p \in Runners : \A q \in Runners \ {p} : \A a \in ops'[p], b \in ops'[q] : ~InWay(a, b)
      BY <2>2, <2>3, <3>1
    <3> QED BY <2>3, <2>4, <3>1, <3>2, <3>3
  <2>7. CASE Sent(r)
    <3>1. /\ ops'[r] = ops[r] \cup {Statement(r)} /\ ran' = ran /\ ledger' = ledger
          /\ Fresh(ran, ledger, {Statement(r)})
          /\ \A q \in Runners \ {r} : \A b \in ops[q] :
               ~InWay(Statement(r), b) /\ ~InWay(b, Statement(r))
      BY <2>7, SentFacts
    <3>2. Fresh(ran, ledger, ops'[r])
      BY <2>3, <3>1
    <3> HIDE DEF Fresh
    <3>3. \A q \in Runners : Fresh(ran', ledger', ops'[q])
      BY <2>2, <2>3, <3>1, <3>2
    <3>4. ASSUME NEW p \in Runners, NEW q \in Runners \ {p}, NEW a \in ops'[p], NEW b \in ops'[q]
          PROVE  ~InWay(a, b)
      BY <2>2, <2>3, <3>1, <3>4
    <3> QED BY <2>3, <2>4, <3>1, <3>3, <3>4
  <2>8. CASE Committed(r)
    <3>1. ops'[r] = {}
      BY <2>8 DEF Committed, Publish, BaseInv, TypeOK
    <3>2. \A n \in Names, s \in Slots :
            ran'[n][s] = IF Undo(n) \in ops[r] THEN 0
                         ELSE ran[n][s] + (IF Run(n, s) \in ops[r] THEN 1 ELSE 0)
      BY <2>8, CommittedFacts
    <3>3. ops \in [Runners -> SUBSET Ops] /\ 1 \in Slots
      BY DEF BaseInv, TypeOK, Slots
    <3>4. \A n \in Creates : Run(n, 1) \in ops[r] => OnTable(Run(n, 1)) /\ ran[n][1] = 0
      BY <2>3, OpFacts DEF OnTable
    <3>5. \A n \in Creates : ran'[n][1] \in 0..1
      BY <2>3, <3>2, <3>3, <3>4, NamesAreNumbers
    <3>6. ASSUME NEW q \in Runners \ {r} PROVE Fresh(ran', ledger', ops[q])
      <4>1. ASSUME NEW op \in ops[q], op.kind = "record" PROVE op.name \notin Recorded(ledger')
        <5>1. op.name \notin Recorded(ledger)
          BY <2>3, <4>1
        <5>2. op.name \notin Recorded(RecordedBy(ops[r]))
          <6>1. \A a \in ops[r] : a.kind = "record" => a.row.name = a.name /\ ~InWay(a, op)
            BY <2>3, <3>6 DEF BaseInv, OpsFit, Did
          <6> QED BY <4>1, <6>1 DEF Recorded, RecordedBy, InWay
        <5>3. ledger' \subseteq ledger \cup RecordedBy(ops[r])
          BY <2>8, CommittedFacts
        <5> QED BY <5>1, <5>2, <5>3 DEF Recorded
      <4>2. ASSUME NEW op \in ops[q], op.kind = "run", OnTable(op) PROVE ran'[op.name][1] = 0
        <5>1. op \in Ops /\ op.name \in Creates /\ ran[op.name][1] = 0 /\ op.name \in Names
          BY <2>3, <3>3, <4>2, OpFacts DEF OnTable
        <5>2. Run(op.name, 1) \notin ops[r]
          BY <2>3, <3>4, <3>6, <4>2, <5>1, OpFacts DEF InWay
        <5> QED BY <3>2, <3>3, <5>1, <5>2
      <4> QED BY <4>1, <4>2
    <3> HIDE DEF Fresh
    <3>7. Fresh(ran', ledger', {})
      BY DEF Fresh
    <3>8. \A q \in Runners : Fresh(ran', ledger', ops'[q])
      BY <2>2, <3>1, <3>6, <3>7
    <3>9. \A p \in Runners : \A q \in Runners \ {p} : \A a \in ops'[p], b \in ops'[q] : ~InWay(a, b)
      BY <2>2, <2>3, <3>1
    <3> QED BY <2>4, <3>5, <3>8, <3>9
  <2> QED BY <1>2, <2>5, <2>6, <2>7, <2>8, Effects
<1> QED BY <1>1, <1>2 DEF Next, AllIdle

LEMMA ExclusionAlways == Spec => []Exclusion
<1>1. Init => Exclusion
  <2> SUFFICES ASSUME Init PROVE Exclusion
    OBVIOUS
  <2>1. \A r \in Runners : ops[r] = {}
    BY DEF Init
  <2>2. \A n \in Creates : ran[n][1] \in 0..1
    BY NamesAreNumbers DEF Init, Slots
  <2> QED BY <2>1, <2>2 DEF Exclusion
<1> QED BY <1>1, Base, ExclusionStep, PTL DEF Spec

\* How a dev's catch-up goes on.
LEMMA CatchingUp ==
  ASSUME BaseInv, NEW r \in Runners, Start(r) \/ Step(r) \/ Fails(r)
  PROVE  /\ pc'[r] = "catching" =>
              /\ batch'[r] = batch[r] /\ cmd[r] = "dev"
              /\ \/ /\ pc[r] = "introspecting" /\ Quiet
                    /\ fix'[r] = {n \in Creates : up[n] # 0 /\ ran[n][1] = 0}
                 \/ /\ pc[r] = "catching" /\ Sent(r) /\ Statement(r) = Run(Min(fix[r]), 1)
                    /\ fix'[r] = fix[r] \ {Min(fix[r])}
         /\ pc'[r] = "recording" =>
              /\ batch'[r] = batch[r] /\ cmd[r] = "dev"
              /\ \/ pc[r] = "catching" /\ fix[r] = {} /\ Committed(r)
                 \/ pc[r] = "recording" /\ Sent(r)
<1>1. TypeOK /\ PlaceFits(r)
  BY DEF BaseInv
<1>2. /\ pc \in [Runners -> Places] /\ fix \in [Runners -> SUBSET Creates]
  BY <1>1 DEF TypeOK
<1>3. \A x : pc' = [pc EXCEPT ![r] = x] => pc'[r] = x
  BY <1>2
<1>4. Ends(r) => pc'[r] = "idle"
  BY <1>3 DEF Ends, Goto
<1>5. CASE Start(r)
  <2>1. \E x \in {"locking", "reading"} : pc' = [pc EXCEPT ![r] = x]
    BY <1>5 DEF Start, Goto
  <2> QED BY <1>3, <2>1
<1>6. CASE Lock(r) \/ GetLockTimesOut(r) \/ Choose(r) \/ Check(r)
  BY <1>3, <1>4, <1>6 DEF Lock, GetLockTimesOut, Choose, Check, Goto
<1>7. CASE Read(r)
  BY <1>2, <1>3, <1>7 DEF Read, Goto
<1>8. CASE Plan(r) \/ Collide(r)
  BY <1>3, <1>4, <1>8 DEF Plan, Collide, Decides, Goto
<1>9. CASE Introspect(r)
  BY <1>1, <1>2, <1>3, <1>9 DEF Introspect, PlaceFits, Goto, Quiet, db
<1>10. CASE CatchUp(r)
  <2>1. pc[r] = "catching" /\ cmd[r] = "dev" /\ batch' = batch
    BY <1>1, <1>10 DEF CatchUp, PlaceFits
  <2>2. CASE fix[r] = {}
    <3>1. Publish(r) /\ pc'[r] = "recording" /\ caughtUp' = caughtUp
      BY <1>3, <1>10, <2>2 DEF CatchUp, Goto
    <3> QED BY <2>1, <2>2, <3>1 DEF Committed
  <2>3. CASE fix[r] # {}
    <3>1. /\ Does(r, Statement(r)) /\ fix' = [fix EXCEPT ![r] = @ \ {Min(fix[r])}] /\ pc' = pc
          /\ caughtUp' = caughtUp
      BY <1>10, <2>3 DEF CatchUp
    <3>2. Sends(r) /\ Statement(r) = Run(Min(fix[r]), 1)
      BY <2>1, <2>3 DEF Sends, Statement
    <3> QED BY <1>2, <2>1, <3>1, <3>2 DEF Sent
  <2> QED BY <2>2, <2>3
<1>11. CASE RecordCaughtUp(r)
  BY <1>1, <1>11 DEF RecordCaughtUp, PlaceFits, Sent, Sends
<1>12. CASE Reconciled(r)
  BY <1>3, <1>12 DEF Reconciled, Goto
<1>13. CASE Apply(r) \/ RecordApplied(r)
  BY <1>13 DEF Apply, RecordApplied
<1>14. CASE Deployed(r)
  BY <1>4, <1>14 DEF Deployed
<1>15. CASE Revert(r) \/ Reverted(r)
  BY <1>3, <1>4, <1>15 DEF Revert, Reverted, Goto
<1>16. CASE Refused(r) \/ Fails(r)
  BY <1>4, <1>16 DEF Refused, Fails, RollsBack
<1> QED BY <1>5, <1>6, <1>7, <1>8, <1>9, <1>10, <1>11, <1>12, <1>13, <1>14, <1>15, <1>16
        DEF Step, Deploying, Reconciling, Reverting

\* The setups meant: transactions cover the statements, and no `migrate down`
\* takes away a table between a dev's catch-up and its row.
Covered == Dialect # "mysql" /\ ~({"dev", "down"} \subseteq setup.commands)

RowsHaveRun ==
  /\ \A n \in Recorded(ledger) \ caughtUp : \A s \in Slots : ran[n][s] = 1
  /\ \A n \in Creates \cap caughtUp : ran[n][1] = 1
\* The tables of a dev's pending files are there, or are about to be.
CatchesUp(r) ==
  /\ pc[r] = "catching" =>
       \A n \in Creates \cap batch[r] : ran[n][1] # 0 \/ n \in fix[r] \/ Run(n, 1) \in ops[r]
  /\ pc[r] = "recording" => \A n \in Creates \cap batch[r] : ran[n][1] # 0
Ran ==
  Covered => /\ caughtUp \subseteq Recorded(ledger)
             /\ RowsHaveRun
             /\ \A r \in Runners : CatchesUp(r)

\* What the commit of a deploy, a catch-up or a revert makes of it.
LEMMA RanCommits ==
  ASSUME BaseInv, Exclusion, UnrecordedLeftNothing, Ran, Covered, NEW r \in Runners, Committed(r)
  PROVE  /\ caughtUp' \subseteq Recorded(ledger')
         /\ RowsHaveRun'
<1>1. /\ ledger' = {row \in ledger : Forget(row.name) \notin ops[r]} \cup RecordedBy(ops[r])
      /\ \A n \in Names, s \in Slots :
           ran'[n][s] = IF Undo(n) \in ops[r] THEN 0
                        ELSE ran[n][s] + (IF Run(n, s) \in ops[r] THEN 1 ELSE 0)
  BY CommittedFacts
<1>2. Recorded(ledger') \subseteq Recorded(ledger) \cup Recorded(RecordedBy(ops[r]))
  BY <1>1 DEF Recorded
<1>3. /\ \A n \in Names, s \in Slots : ran[n][s] \in Nat
      /\ Recorded(ledger) \subseteq Names /\ Recorded(ledger') \subseteq Names /\ 1 \in Slots
      /\ caughtUp \subseteq Recorded(ledger) /\ RowsHaveRun /\ batch[r] \subseteq Names
  <2>1. ledger \subseteq Rows /\ ops[r] \subseteq Ops
    BY DEF BaseInv, TypeOK
  <2>2. ledger' \subseteq Rows
    BY <1>1, <2>1, RowsFacts
  <2>3. Recorded(ledger) \subseteq Names /\ Recorded(ledger') \subseteq Names
    BY <2>1, <2>2, RowsFacts
  <2> QED BY <2>3 DEF BaseInv, TypeOK, Ran, Slots
<1>4. \A n \in Creates : Run(n, 1) \in ops[r] => ran[n][1] = 0
  BY OpFacts DEF Exclusion, Covered, OnTable
<1>5. CASE pc[r] = "catching"
  <2>1. /\ caughtUp' = caughtUp /\ RecordedBy(ops[r]) = {} /\ ledger \subseteq ledger'
        /\ \A n : Undo(n) \notin ops[r]
        /\ \A n, s : Run(n, s) \in ops[r] => s = 1 /\ n \in Creates
    BY <1>5, CommittedFacts DEF Committed
  <2>2. ledger' = ledger
    BY <1>1, <2>1
  <2>3. \A n \in Names, s \in Slots : Run(n, s) \in ops[r] => n \notin Recorded(ledger)
    BY <1>3, <1>4, <2>1 DEF RowsHaveRun
  <2>4. \A n \in Recorded(ledger), s \in Slots : ran'[n][s] = ran[n][s]
    BY <1>1, <1>3, <2>1, <2>3
  <2> QED BY <1>3, <2>1, <2>2, <2>4 DEF RowsHaveRun
<1>6. CASE pc[r] = "recording"
  <2>1. /\ caughtUp' = caughtUp \cup batch[r] /\ batch[r] = Recorded(RecordedBy(ops[r]))
        /\ ledger \subseteq ledger' /\ \A n : Undo(n) \notin ops[r]
        /\ \A n, s : Run(n, s) \notin ops[r]
    BY <1>6, CommittedFacts DEF Committed
  <2>2. \A n \in Names, s \in Slots : ran'[n][s] = ran[n][s]
    BY <1>1, <1>3, <2>1
  <2>3. \A n \in Creates \cap batch[r] : ran[n][1] = 1
    <3>1. \A n \in Creates : ran[n][1] \in 0..1
      BY DEF Exclusion, Covered
    <3>2. CatchesUp(r)
      BY DEF Ran
    <3> QED BY <1>6, <3>1, <3>2 DEF CatchesUp
  <2>4. Recorded(ledger) \cup batch[r] \subseteq Recorded(ledger')
    BY <1>1, <2>1 DEF Recorded
  <2>5. Recorded(ledger') \ caughtUp' \subseteq Recorded(ledger) \ caughtUp
    BY <1>2, <2>1
  <2>6. \A n \in Creates \cap caughtUp' : ran'[n][1] = 1
    BY <1>3, <2>1, <2>2, <2>3, NamesAreNumbers DEF RowsHaveRun
  <2>7. \A n \in Recorded(ledger') \ caughtUp' : \A s \in Slots : ran'[n][s] = 1
    BY <1>3, <2>2, <2>5 DEF RowsHaveRun
  <2> QED BY <1>3, <2>1, <2>4, <2>6, <2>7 DEF RowsHaveRun
<1>7. CASE pc[r] = "applying"
  <2>1. /\ caughtUp' = caughtUp /\ batch[r] = Recorded(RecordedBy(ops[r])) /\ ledger \subseteq ledger'
        /\ \A n : Undo(n) \notin ops[r]
        /\ \A n, s : Run(n, s) \in ops[r] => n \in batch[r]
        /\ \A n \in batch[r], s \in Slots : Run(n, s) \in ops[r]
    BY <1>7, CommittedFacts DEF Committed, Covered
  <2>2. batch[r] \cap Recorded(ledger) = {}
    <3>1. \A op \in ops[r] : op.kind = "record" => op.name \notin Recorded(ledger) /\ op.row.name = op.name
      BY DEF Exclusion, Covered, BaseInv, OpsFit, Did
    <3> QED BY <2>1, <3>1 DEF Recorded, RecordedBy
  <2>3. \A n \in batch[r], s \in Slots : ran'[n][s] = 1
    <3> SUFFICES ASSUME NEW n \in batch[r], NEW s \in Slots PROVE ran[n][s] = 0
      BY <1>1, <1>3, <2>1
    <3>1. ran[n][s] = 0 \/ (s = 1 /\ (n \in setup.pushed \/ n \in Creates))
      BY <1>3, <2>2 DEF UnrecordedLeftNothing, Covered
    <3>2. setup.pushed \subseteq Creates
      BY SetupsAssumption DEF BaseInv, TypeOK
    <3> QED BY <1>4, <2>1, <3>1, <3>2
  <2>4. \A n \in Recorded(ledger), s \in Slots : ran'[n][s] = ran[n][s]
    BY <1>1, <1>3, <2>1, <2>2
  <2>5. Recorded(ledger) \subseteq Recorded(ledger')
    BY <2>1 DEF Recorded
  <2>6. \A n \in Recorded(ledger') \ caughtUp' : \A s \in Slots : ran'[n][s] = 1
    BY <1>2, <1>3, <2>1, <2>3, <2>4 DEF RowsHaveRun
  <2>7. \A n \in Creates \cap caughtUp' : ran'[n][1] = 1
    BY <1>3, <2>1, <2>4 DEF RowsHaveRun
  <2> QED BY <1>3, <2>1, <2>5, <2>6, <2>7 DEF RowsHaveRun
<1>8. CASE pc[r] = "reverted"
  <2>1. /\ caughtUp' = caughtUp \cap Recorded(ledger') /\ RecordedBy(ops[r]) = {}
        /\ \A n, s : Run(n, s) \notin ops[r] /\ Forget(First(r)) \in ops[r]
        /\ \A n : Undo(n) \in ops[r] => n = First(r)
    BY <1>8, CommittedFacts DEF Committed, Covered
  <2>2. First(r) \notin Recorded(ledger')
    BY <1>1, <2>1 DEF Recorded
  <2>3. \A n \in Recorded(ledger'), s \in Slots : n \in Recorded(ledger) /\ ran'[n][s] = ran[n][s]
    <3>1. Recorded(ledger') \subseteq Recorded(ledger)
      BY <1>2, <2>1, RowsFacts
    <3> QED BY <1>1, <1>3, <2>1, <2>2, <3>1
  <2> QED BY <1>3, <2>1, <2>3 DEF RowsHaveRun
<1> QED BY <1>5, <1>6, <1>7, <1>8 DEF Committed

\* A commit takes no table away from under a catch-up.
LEMMA TablesStay ==
  ASSUME BaseInv, Covered, NEW r \in Runners, Committed(r), "dev" \in setup.commands
  PROVE  \A n \in Creates : /\ ran[n][1] # 0 => ran'[n][1] # 0
                            /\ Run(n, 1) \in ops[r] => ran'[n][1] # 0
<1>1. pc[r] # "reverted"
  BY DEF BaseInv, PlaceFits, Covered
<1>2. 1 \in Slots /\ Creates \subseteq Names
  BY NamesAreNumbers DEF Slots
<1>3. \A n \in Names, s \in Slots :
        ran'[n][s] = ran[n][s] + (IF Run(n, s) \in ops[r] THEN 1 ELSE 0)
  BY <1>1, CommittedFacts
<1>4. \A n \in Creates : /\ ran[n][1] \in Nat
                         /\ ran'[n][1] = ran[n][1] + (IF Run(n, 1) \in ops[r] THEN 1 ELSE 0)
  BY <1>2, <1>3 DEF BaseInv, TypeOK
<1> QED BY <1>4

LEMMA RanStep ==
  ASSUME BaseInv, Exclusion, UnrecordedLeftNothing, Ran, [Next]_vars
  PROVE  Ran'
<1>1. CASE Edit \/ UNCHANGED vars
  <2>1. /\ setup' = setup /\ ran' = ran /\ ledger' = ledger /\ ops' = ops /\ caughtUp' = caughtUp
        /\ pc' = pc /\ batch' = batch /\ fix' = fix
    BY <1>1 DEF Edit, vars, db, own
  <2> QED BY <2>1 DEF Ran, Covered, RowsHaveRun, CatchesUp, Dialect
<1>2. ASSUME NEW r \in Runners, Start(r) \/ Step(r) \/ Fails(r) PROVE Ran'
  <2>1. setup' = setup
    BY <1>2, LockMoves
  <2> SUFFICES ASSUME Covered
               PROVE  caughtUp' \subseteq Recorded(ledger') /\ RowsHaveRun' /\ \A q \in Runners : CatchesUp(q)'
    BY <2>1 DEF Ran, Covered, Dialect
  <2>2. caughtUp \subseteq Recorded(ledger) /\ RowsHaveRun /\ \A q \in Runners : CatchesUp(q)
    BY DEF Ran
  <2>3. Sent(r) => ran' = ran /\ ledger' = ledger /\ caughtUp' = caughtUp
                   /\ ops'[r] = ops[r] \cup {Statement(r)}
    <3>1. Sent(r) => ran' = ran /\ ledger' = ledger /\ ops'[r] = ops[r] \cup {Statement(r)}
      BY SentFacts DEF Covered
    <3> QED BY <2>2, <3>1 DEF Sent
  <2>4. Committed(r) \/ (ran' = ran /\ ledger' = ledger /\ caughtUp' = caughtUp)
    BY <1>2, <2>3, Effects DEF Quiet, RolledBack
  <2>5. caughtUp' \subseteq Recorded(ledger') /\ RowsHaveRun'
    BY <2>2, <2>4, RanCommits DEF RowsHaveRun
  <2>6. \A q \in Runners : pc[q] \in {"catching", "recording"} => "dev" \in setup.commands
    BY DEF BaseInv, PlaceFits
  <2>7. \A q \in Runners : pc[q] \in {"catching", "recording"} =>
          \A n \in Creates : ran[n][1] # 0 => ran'[n][1] # 0
    BY <2>4, <2>6, TablesStay
  <2>8. ASSUME NEW q \in Runners \ {r} PROVE CatchesUp(q)'
    <3>1. pc'[q] = pc[q] /\ batch'[q] = batch[q] /\ fix'[q] = fix[q] /\ ops'[q] = ops[q]
      BY <1>2, OnlyOwn DEF OthersSame
    <3> QED BY <2>2, <2>7, <3>1 DEF CatchesUp
  <2>9. CatchesUp(r)'
    <3>1. CASE pc'[r] = "catching"
      <4>1. CASE pc[r] = "introspecting"
        <5>1. /\ batch'[r] = batch[r] /\ fix'[r] = {n \in Creates : up[n] # 0 /\ ran[n][1] = 0}
              /\ cmd[r] = "dev" /\ ran' = ran
          BY <1>2, <3>1, <4>1, CatchingUp DEF Quiet
        <5>2. \A n \in batch[r] : up[n] # 0
          BY <4>1, <5>1 DEF BaseInv, TodoFits
        <5> QED BY <3>1, <5>1, <5>2 DEF CatchesUp
      <4>2. CASE pc[r] # "introspecting"
        <5>1. /\ batch'[r] = batch[r] /\ pc[r] = "catching" /\ Sent(r)
              /\ Statement(r) = Run(Min(fix[r]), 1) /\ fix'[r] = fix[r] \ {Min(fix[r])}
          BY <1>2, <3>1, <4>2, CatchingUp
        <5> QED BY <2>2, <2>3, <3>1, <5>1 DEF CatchesUp
      <4> QED BY <4>1, <4>2
    <3>2. CASE pc'[r] = "recording"
      <4>1. /\ batch'[r] = batch[r]
            /\ \/ pc[r] = "catching" /\ fix[r] = {} /\ Committed(r)
               \/ pc[r] = "recording"
        BY <1>2, <3>2, CatchingUp
      <4>2. CASE pc[r] = "catching"
        <5>1. \A n \in Creates \cap batch[r] : ran[n][1] # 0 \/ Run(n, 1) \in ops[r]
          BY <2>2, <4>1, <4>2 DEF CatchesUp
        <5>2. \A n \in Creates \cap batch[r] : ran'[n][1] # 0
          BY <2>6, <4>1, <4>2, <5>1, TablesStay
        <5> QED BY <3>2, <4>1, <5>2 DEF CatchesUp
      <4>3. CASE pc[r] = "recording"
        BY <2>2, <2>7, <3>2, <4>1, <4>3 DEF CatchesUp
      <4> QED BY <4>1, <4>2, <4>3
    <3>3. CASE pc'[r] \notin {"catching", "recording"}
      BY <3>3 DEF CatchesUp
    <3> QED BY <3>1, <3>2, <3>3
  <2> QED BY <2>5, <2>8, <2>9
<1> QED BY <1>1, <1>2 DEF Next, AllIdle

\* On PostgreSQL and SQLite every recorded file has run, once and to its end,
\* and the table of one that a reconcile recorded is there, unless devs and
\* downs share the database.
THEOREM RecordedHasRun ==
  Spec => [](Dialect # "mysql" /\ ~({"dev", "down"} \subseteq setup.commands) => RecordedRan)
<1>1. Init => Ran
  BY DEF Init, Ran, RowsHaveRun, CatchesUp, Recorded
<1>2. Ran => (Dialect # "mysql" /\ ~({"dev", "down"} \subseteq setup.commands) => RecordedRan)
  BY DEF Ran, Covered, RowsHaveRun, RecordedRan
<1> QED BY <1>1, <1>2, Base, ExclusionAlways, FailuresLeaveNothing, RanStep, PTL DEF Spec
=============================================================================
