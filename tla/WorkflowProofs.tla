------------------------------ MODULE WorkflowProofs ------------------------------
(***************************************************************************)
(* Proofs about Workflow, for any schemas, any number of command processes  *)
(* and runs, kills between two writes and edits of schema.ts at any time.   *)
(*                                                                          *)
(* The types and the places of the commands are kept by every step, whatever*)
(* the history.  The rest (Body) is claimed of orderly histories.  There a  *)
(* command that is at work is alone, or beside it there are only deploys    *)
(* (Exclusive), so what it has read of schema, snapshot, folders and        *)
(* database (Written, Met) is still so when it uses it.  What files and     *)
(* database have in common (Agreed) is claimed in three scopes, by what     *)
(* went past the files so far: nothing but resets (Forward), a down whose   *)
(* folders were not forked (Followed), or a push or catch-up that was       *)
(* adopted as a whole (Adopted).  Each step is shown to keep Body in the    *)
(* scopes it leaves open: Quiet steps that change neither files nor         *)
(* database first, then the ones that write.                                *)
(***************************************************************************)
EXTENDS Workflow, FiniteSetTheorems, SequenceTheorems, WellFoundedInduction, TLAPS

\* The types.
SqlFiles == [add : SUBSET Items, drop : SUBSET Items]
Manifests == (SUBSET Items) \cup {NoFile}
Folders == [sql : SqlFiles \cup {NoFile}, down : SqlFiles \cup {NoFile}, before : Manifests]
LedgerRows == [name : Names, sql : SqlFiles, down : SqlFiles \cup {NoFile}]
Jobs == [verb : Verbs \cup {"none"}, accept : BOOLEAN, named : BOOLEAN, target : SUBSET Items, prev : Manifests,
         sql : SqlFiles, todo : Seq(Names), name : Names \cup {0}, file : 1..LastFile, created : BOOLEAN]

Generates == {"compile", "preview", "prompt", "code", "snapshot", "resolve", "sql", "down.sql", "before", "generated"}
Works == Generates \cup {"target", "reconcile", "catch-up", "record", "adopt", "down", "revert", "restore", "reset",
                         "push", "pushing", "pushed"}
Ways == {"push", "partial", "catch-up", "down", "redo", "fork", "reset"}

TypeOK ==
  /\ schema \in SUBSET Items /\ code \in [1..LastFile -> Manifests] /\ snapshot \in Manifests
  /\ folder \in [Names -> Folders] /\ db \in SUBSET Items /\ ledger \in Seq(LedgerRows)
  /\ devLock \in Commands \cup {NoFile}
  /\ pc \in [Commands -> Works \cup {"idle", "lock", "deploy", "done", "failed"}] /\ job \in [Commands -> Jobs]
  /\ runs \in Nat /\ edits \in Nat /\ crashes \in Nat
  /\ torn \in BOOLEAN /\ raced \in BOOLEAN /\ jumbled \in BOOLEAN /\ drifted \in SUBSET Ways

\* What a command is at a place for, and with what.
InPlace(p) ==
  /\ pc[p] \in Generates => job[p].verb \in {"generate", "dev"}
  /\ pc[p] \in {"lock", "target", "reconcile", "catch-up", "record", "adopt"} => job[p].verb = "dev"
  /\ pc[p] = "deploy" => job[p].verb \in {"deploy", "dev", "reset"}
  /\ pc[p] \in {"down", "revert", "restore"} => job[p].verb = "down"
  /\ pc[p] = "reset" => job[p].verb = "reset"
  /\ pc[p] \in {"push", "pushing", "pushed"} => job[p].verb = "push"
  /\ pc[p] \in (Generates \ {"generated"}) \cup {"lock", "target"} => ~job[p].created
  /\ pc[p] # "code" => job[p].file = 1
  /\ pc[p] \in {"sql", "down.sql", "before", "revert", "restore"} => job[p].name \in Names
  /\ pc[p] = "revert" => job[p].todo # <<>> /\ job[p].name = Last(job[p].todo)
  /\ pc[p] \in {"catch-up", "record"} => ToSet(job[p].todo) \subseteq OnDisk

Places == \A p \in Commands : InPlace(p)

\* A command between its start and its end; beside one there are at most deploys.
Busy(p) == pc[p] \notin {"idle", "lock", "failed"}
Together(v, w) == "deploy" \in {v, w} /\ {v, w} \subseteq {"deploy", "generate", "dev"}
Exclusive == \A p, q \in Commands : p # q /\ Busy(p) /\ Busy(q) => Together(job[p].verb, job[q].verb)

\* What may have gone past the files so far.
Forward == drifted \subseteq {"reset"}
Followed == drifted \subseteq {"down", "redo", "reset"}
Adopted == drifted \subseteq {"push", "catch-up"}

\* The folders before one, and up to it.
Before(n) == {m \in OnDisk : m < n}
UpTo(n) == {m \in OnDisk : m <= n}

\* The change a generate has to write, from what it read.
Change(p) == Diff(Known(job[p].prev), job[p].target)

CodeIs(p) == \A f \in 1..LastFile : code[f] = job[p].target

\* What a generate has read and written so far.
Written(p) ==
  /\ (pc[p] \in {"code", "snapshot"}) =>
       /\ job[p].prev = snapshot
       /\ job[p].sql = IF Blocked(p, Change(p)) THEN Nothing ELSE Change(p)
  /\ (pc[p] = "snapshot") => ~Blocked(p, Change(p))
  /\ (pc[p] \in {"resolve", "sql", "down.sql", "before"}) => snapshot = job[p].target /\ job[p].sql = Change(p)
  /\ (pc[p] = "sql") => job[p].name \notin OnDisk /\ \A m \in OnDisk : m < job[p].name
  /\ (pc[p] \in {"down.sql", "before"}) =>
       /\ job[p].name \in Pending /\ folder[job[p].name].sql = Change(p)
       /\ \A m \in OnDisk : m <= job[p].name
  /\ (pc[p] = "before") => folder[job[p].name].down = Diff(job[p].target, Known(job[p].prev))
  /\ (pc[p] \in {"sql", "down.sql", "before"} /\ "down" \in drifted) => "fork" \in drifted
  /\ (pc[p] = "code") => \A f \in 1 .. job[p].file - 1 : code[f] = job[p].target
  /\ (pc[p] \in {"snapshot", "resolve", "sql", "down.sql", "before", "generated"}) => CodeIs(p)
  /\ (pc[p] = "generated" /\ ~job[p].created) =>
       Known(job[p].prev) = Known(snapshot) /\ (Blocked(p, Change(p)) \/ job[p].target = Known(job[p].prev))
  /\ (pc[p] \in {"generated", "reconcile", "deploy"} /\ job[p].verb = "dev" /\ job[p].created) =>
       snapshot = job[p].target /\ CodeIs(p)

\* A table that a pending file drops before one creates it: a database has to
\* have it, and then collides.
Barred ==
  \E x \in Tables :
    /\ \E n \in Pending : x \in folder[n].sql.add
    /\ \E m \in Pending : x \in folder[m].sql.drop /\ \A k \in Pending : k < m => x \notin folder[k].sql.add

\* What a command knows of the database.
Met(p) ==
  /\ (job[p].verb = "dev" /\ Forward /\ pc[p] = "deploy") => ~Collides
  /\ (job[p].verb = "dev" /\ Forward /\ (pc[p] \in Generates \ {"down.sql", "before", "generated"}
                                         \/ (pc[p] = "generated" /\ ~job[p].created))) => Pending = {}
  /\ (pc[p] \in {"down.sql", "before"} /\ Forward) => Known(job[p].prev) = Build(Before(job[p].name))
  /\ (pc[p] = "catch-up") =>
       Collides /\ job[p].todo = Sorted(Pending) /\ job[p].sql = Diff(db, job[p].target)
  /\ (pc[p] \in {"record", "adopt"}) => "catch-up" \in drifted
  /\ (pc[p] = "record" /\ Adopted) => db = job[p].target /\ job[p].todo = Sorted(Pending) /\ Barred
  /\ (pc[p] = "adopt" /\ Adopted) => db = job[p].target /\ Pending = {}
  /\ (pc[p] = "pushing" /\ ~job[p].created) => job[p].sql = Diff(db, job[p].target)
  /\ (pc[p] = "pushed") => drifted \cap {"push", "partial"} # {}
  /\ (pc[p] = "pushed" /\ Adopted) => db = job[p].target /\ Pending = {}
  /\ (pc[p] = "revert") =>
       /\ Len(job[p].todo) <= Len(ledger)
       /\ \A i \in DOMAIN job[p].todo : job[p].todo[i] = ledger[Len(ledger) - i + 1].name
  /\ (pc[p] = "restore") => "down" \in drifted
  /\ (pc[p] = "restore" /\ Followed) => job[p].name \in OnDisk /\ db = Build(Before(job[p].name))

\* A generate that has not written all of a folder yet.
Writing(n) == \E p \in Commands : pc[p] \in {"down.sql", "before"} /\ job[p].name = n

\* A folder is the step from the schema before it to the one with it, and down.sql
\* and the snapshot beside it lead back.
Made(n) == folder[n].sql = Diff(Build(Before(n)), Build(UpTo(n)))
CanUndo(n) ==
  folder[n].down = Diff(Build(UpTo(n)), Build(Before(n))) /\ folder[n].before = Build(Before(n))

FilesAgree == \A n \in OnDisk : Made(n) /\ (CanUndo(n) \/ (Writing(n) /\ n \notin Recorded))

\* The ledger names files, each once, in their order and as they are, and the
\* database is what they make.
LedgerOnce ==
  /\ Recorded \subseteq OnDisk
  /\ \A i, j \in DOMAIN ledger : ledger[i].name = ledger[j].name => i = j
LedgerAgrees ==
  /\ \A i \in DOMAIN ledger : ledger[i] = Row(ledger[i].name)
  /\ \A i, j \in DOMAIN ledger : i < j => ledger[i].name < ledger[j].name
  /\ \A n \in OnDisk \ Recorded : \A m \in Recorded : m < n
  /\ db = Build(Recorded)

\* The schema the folders stand for: while a generate is between the snapshot
\* and migration.sql, the one it started from.
Stands(state) ==
  \/ \E p \in Commands : pc[p] \in {"resolve", "sql"} /\ state = Known(job[p].prev)
  \/ (\A p \in Commands : pc[p] \notin {"resolve", "sql"}) /\ state = Known(snapshot)

\* The folders make that schema, from nothing or from what the database has.
FilesStand == Stands(Build(OnDisk))
DatabaseStands == Stands(Applied(folder, Pending, db)) /\ AllRun(folder, Pending, db)

None(places) == \A p \in Commands : pc[p] \notin places

\* What files and database have in common, in each scope.
Agreed ==
  /\ Followed => FilesAgree /\ LedgerAgrees
  /\ Forward => FilesStand
  /\ (Adopted /\ None({"record", "adopt", "pushed"})) => DatabaseStands
  /\ (drifted = {"down"} /\ None({"revert", "restore", "resolve"})) => Known(snapshot) = db

Body ==
  /\ Exclusive
  /\ LedgerOnce
  /\ ("redo" \in drifted => "down" \in drifted)
  /\ \A p \in Commands : Written(p) /\ Met(p)
  /\ Agreed

IInv == TypeOK /\ Places /\ (Orderly => Body)
---------------------------------------------------------------------------
(* What files make of a database. *)

\* Of numbers, one is the least.
LEMMA LeastNumber ==
  ASSUME NEW S \in SUBSET Nat, S # {}
  PROVE  \E n \in S : \A m \in S : n <= m
<1>1. IsWellFoundedOn({p \in Nat \X Nat : p[1] < p[2]}, Nat)
  BY NatLessThanWellFounded DEF OpToRel
<1>2. PICK n \in S : \A m \in S : <<m, n>> \notin {p \in Nat \X Nat : p[1] < p[2]}
  BY <1>1, WFMin
<1>3. \A m \in S : ~(m < n)
  BY <1>2
<1> QED BY <1>3

\* A diff runs on the schema it starts from and gives the one it leads to.
LEMMA DiffLeads ==
  ASSUME NEW a \in SUBSET Items, NEW b \in SUBSET Items
  PROVE  Diff(a, b) \in SqlFiles /\ Runs(Diff(a, b), a) /\ Perform(Diff(a, b), a) = b
BY DEF Diff, SqlFiles, Runs, Perform

LEMMA AppliedItems ==
  ASSUME NEW dir, NEW names, NEW state
  PROVE  Applied(dir, names, state) \in SUBSET Items
BY DEF Applied

LEMMA NothingApplied ==
  ASSUME NEW dir, NEW state \in SUBSET Items
  PROVE  Applied(dir, {}, state) = state /\ AllRun(dir, {}, state)
BY DEF Applied, AllRun

\* The newest file runs on what the others made.
LEMMA NewestApplied ==
  ASSUME NEW dir, NEW names \in SUBSET Nat, NEW n \in Nat, \A m \in names : m < n,
         NEW state, dir[n].sql.add \subseteq Items
  PROVE  Applied(dir, names \cup {n}, state) = Perform(dir[n].sql, Applied(dir, names, state))
<1> DEFINE made == Applied(dir, names, state)
           all == Applied(dir, names \cup {n}, state)
<1> SUFFICES ASSUME NEW x \in Items PROVE x \in all <=> x \in Perform(dir[n].sql, made)
  BY AppliedItems DEF Perform
<1>1. x \in made <=> (\/ \E k \in names : x \in dir[k].sql.add /\ \A m \in names : m > k => x \notin dir[m].sql.drop
                      \/ x \in state /\ \A k \in names : x \notin dir[k].sql.drop)
  BY DEF Applied
<1>2. x \in all <=> (\/ \E k \in names \cup {n} : x \in dir[k].sql.add /\ \A m \in names \cup {n} : m > k => x \notin dir[m].sql.drop
                     \/ x \in state /\ \A k \in names \cup {n} : x \notin dir[k].sql.drop)
  BY DEF Applied
<1>3. \A m \in names : ~(m > n) /\ n > m
  OBVIOUS
<1>4. ~(n > n)
  OBVIOUS
<1> QED BY <1>1, <1>2, <1>3, <1>4 DEF Perform

\* Files in two batches, the later names second.
LEMMA BatchesApplied ==
  ASSUME NEW dir, NEW early \in SUBSET Nat, NEW late \in SUBSET Nat, \A m \in early, n \in late : m < n, NEW state
  PROVE  Applied(dir, early \cup late, state) = Applied(dir, late, Applied(dir, early, state))
<1> DEFINE made == Applied(dir, early, state)
           all == Applied(dir, early \cup late, state)
<1> SUFFICES ASSUME NEW x \in Items PROVE x \in all <=> x \in Applied(dir, late, made)
  BY AppliedItems
<1>1. x \in made <=> (\/ \E k \in early : x \in dir[k].sql.add /\ \A m \in early : m > k => x \notin dir[m].sql.drop
                      \/ x \in state /\ \A k \in early : x \notin dir[k].sql.drop)
  BY DEF Applied
<1>2. x \in all <=> (\/ \E k \in early \cup late : x \in dir[k].sql.add /\ \A m \in early \cup late : m > k => x \notin dir[m].sql.drop
                     \/ x \in state /\ \A k \in early \cup late : x \notin dir[k].sql.drop)
  BY DEF Applied
<1>3. x \in Applied(dir, late, made) <=>
        (\/ \E k \in late : x \in dir[k].sql.add /\ \A m \in late : m > k => x \notin dir[m].sql.drop
         \/ x \in made /\ \A k \in late : x \notin dir[k].sql.drop)
  BY DEF Applied
<1>4. \A m \in early, n \in late : ~(m > n) /\ n > m
  OBVIOUS
<1> QED BY <1>1, <1>2, <1>3, <1>4

LEMMA SameApplied ==
  ASSUME NEW dir, NEW other, NEW names, \A n \in names : dir[n].sql = other[n].sql, NEW state
  PROVE  /\ Applied(dir, names, state) = Applied(other, names, state)
         /\ AllRun(dir, names, state) <=> AllRun(other, names, state)
<1>1. ASSUME NEW some \in SUBSET names PROVE Applied(dir, some, state) = Applied(other, some, state)
  BY DEF Applied
<1>2. ASSUME NEW n \in names
      PROVE  Applied(dir, {m \in names : m < n}, state) = Applied(other, {m \in names : m < n}, state)
  BY <1>1
<1> QED BY <1>1, <1>2 DEF AllRun

LEMMA NewestRuns ==
  ASSUME NEW dir, NEW names \in SUBSET Nat, NEW n \in Nat, \A m \in names : m < n, NEW state
  PROVE  AllRun(dir, names \cup {n}, state)
           <=> AllRun(dir, names, state) /\ Runs(dir[n].sql, Applied(dir, names, state))
<1>0. ~(n < n) /\ \A m \in names : m \in Nat /\ m < n /\ ~(n < m)
  OBVIOUS
<1>1. {m \in names \cup {n} : m < n} = names
  BY <1>0
<1>2. ASSUME NEW k \in names PROVE {m \in names \cup {n} : m < k} = {m \in names : m < k}
  BY <1>0
<1> HIDE DEF Runs, Applied
<1> QED BY <1>1, <1>2 DEF AllRun

\* A pending file creates what the database has, and yet the pending files run:
\* one of them drops it before any creates it.
LEMMA RunsOverCollision ==
  ASSUME NEW dir, NEW names \in SUBSET Nat, NEW state, AllRun(dir, names, state),
         NEW x \in Items, x \in state, NEW n \in names, x \in dir[n].sql.add
  PROVE  \E m \in names : x \in dir[m].sql.drop /\ \A k \in names : k < m => x \notin dir[k].sql.add
<1> DEFINE touching == {m \in names : x \in dir[m].sql.drop \cup dir[m].sql.add}
<1>1. PICK m \in touching : \A k \in touching : m <= k
  BY LeastNumber
<1>2. \A k \in names : k < m => x \notin dir[k].sql.drop /\ x \notin dir[k].sql.add
  BY <1>1
<1>3. x \in Applied(dir, {k \in names : k < m}, state)
  BY <1>2 DEF Applied
<1>4. x \notin dir[m].sql.add
  BY <1>1, <1>3 DEF AllRun, Runs
<1> QED BY <1>1, <1>2, <1>4

\* And so it has to be in every database they run on.
LEMMA RunsWithDropped ==
  ASSUME NEW dir, NEW names \in SUBSET Nat, NEW state, AllRun(dir, names, state),
         NEW x, NEW m \in names, x \in dir[m].sql.drop, \A k \in names : k < m => x \notin dir[k].sql.add
  PROVE  x \in state
<1>1. x \in Applied(dir, {k \in names : k < m}, state)
  BY DEF AllRun, Runs
<1> QED BY <1>1 DEF Applied

\* Names are finitely many numbers and can be sorted.
LEMMA SortedIs ==
  ASSUME NEW names \in SUBSET Nat, IsFiniteSet(names)
  PROVE  /\ Sorted(names) \in [1 .. Cardinality(names) -> names] /\ Cardinality(names) \in Nat
         /\ \A i, j \in 1 .. Cardinality(names) : i < j => Sorted(names)[i] < Sorted(names)[j]
         /\ ToSet(Sorted(names)) = names
<1> DEFINE size == Cardinality(names)
           below(n) == {m \in names : m <= n}
           rank == [n \in names |-> Cardinality(below(n))]
<1>1. size \in Nat /\ \A n \in names : n \in Nat
  BY FS_CardinalityType
<1>2. ASSUME NEW n \in names PROVE IsFiniteSet(below(n)) /\ rank[n] \in 1 .. size
  <2>1. IsFiniteSet(below(n)) /\ Cardinality(below(n)) <= size
    BY FS_Subset
  <2>2. n \in below(n)
    OBVIOUS
  <2>3. Cardinality(below(n)) \in Nat /\ Cardinality(below(n)) # 0
    BY <2>1, <2>2, FS_CardinalityType, FS_EmptySet
  <2> QED BY <2>1, <2>3, <1>1
<1>3. ASSUME NEW m \in names, NEW n \in names, m < n PROVE rank[m] < rank[n]
  <2>1. below(m) \subseteq below(n) /\ n \in below(n) /\ n \notin below(m)
    <3>1. m \in Nat /\ n \in Nat /\ \A k \in names : k \in Nat
      BY <1>1
    <3>2. n <= n /\ ~(n <= m) /\ \A k \in names : k <= m => k <= n
      BY <3>1, <1>3
    <3> QED BY <3>2
  <2>2. Cardinality(below(m)) <= Cardinality(below(n)) /\ (Cardinality(below(n)) = Cardinality(below(m)) => below(m) = below(n))
    BY <2>1, <1>2, FS_Subset
  <2>3. Cardinality(below(m)) # Cardinality(below(n))
    BY <2>1, <2>2
  <2>4. rank[m] \in Nat /\ rank[n] \in Nat
    BY <1>2
  <2> QED BY <2>2, <2>3, <2>4
<1>4. rank \in [names -> 1 .. size] /\ \A m, n \in names : m # n => rank[m] # rank[n]
  <2>1. rank \in [names -> 1 .. size]
    BY <1>2
  <2>2. ASSUME NEW m \in names, NEW n \in names, m # n PROVE rank[m] # rank[n]
    <3>1. rank[m] \in Nat /\ rank[n] \in Nat
      BY <1>2
    <3>2. m \in Nat /\ n \in Nat
      BY <1>1
    <3>3. m < n \/ n < m
      BY <3>2, <2>2
    <3> QED BY <3>1, <3>3, <1>3
  <2> QED BY <2>1, <2>2
<1>5. ASSUME NEW i \in 1 .. size PROVE \E n \in names : rank[n] = i
  <2>1. IsFiniteSet(1 .. size) /\ Cardinality(1 .. size) = size
    BY <1>1, FS_Interval
  <2>2. rank \in Injection(names, 1 .. size)
    BY <1>4 DEF Injection, IsInjective
  <2>3. rank \in Surjection(names, 1 .. size)
    BY <2>1, <2>2, FS_Injection
  <2> QED BY <2>3 DEF Surjection
<1> DEFINE nth == [i \in 1 .. size |-> CHOOSE n \in names : rank[n] = i]
<1>6. ASSUME NEW i \in 1 .. size PROVE nth[i] \in names /\ rank[nth[i]] = i
  BY <1>5
<1>7. ASSUME NEW i \in 1 .. size, NEW j \in 1 .. size, i < j PROVE nth[i] < nth[j]
  <2>1. /\ nth[i] \in names /\ rank[nth[i]] = i
        /\ nth[j] \in names /\ rank[nth[j]] = j
    BY <1>6
  <2> HIDE DEF rank, nth
  <2>2. nth[i] # nth[j]
    BY <2>1, <1>7
  <2>3. nth[i] \in Nat /\ nth[j] \in Nat
    BY <2>1, <1>1
  <2>4. ASSUME nth[j] < nth[i] PROVE FALSE
    <3>1. rank[nth[j]] < rank[nth[i]]
      BY <2>1, <2>4, <1>3
    <3> QED BY <3>1, <2>1, <1>7
  <2> QED BY <2>2, <2>3, <2>4
<1>8. nth \in [1 .. size -> names] /\ \A i, j \in DOMAIN nth : i < j => nth[i] < nth[j]
  BY <1>6, <1>7
<1> HIDE DEF rank, nth
<1>9. Sorted(names) \in [1 .. size -> names] /\ \A i, j \in DOMAIN Sorted(names) : i < j => Sorted(names)[i] < Sorted(names)[j]
  BY <1>8 DEF Sorted
<1> DEFINE sorted == Sorted(names)
<1> HIDE DEF sorted
<1>10. sorted \in [1 .. size -> names] /\ \A i, j \in 1 .. size : i < j => sorted[i] < sorted[j]
  BY <1>9 DEF sorted
<1>11. ToSet(sorted) = names
  <2>1. IsFiniteSet(1 .. size) /\ Cardinality(1 .. size) = size
    BY <1>1, FS_Interval
  <2>2. ASSUME NEW i \in 1 .. size, NEW j \in 1 .. size, sorted[i] = sorted[j] PROVE i = j
    <3>1. sorted[i] \in names
      BY <1>10
    <3>2. sorted[i] \in Nat
      BY <3>1, <1>1
    <3>3. ~(i < j) /\ ~(j < i)
      BY <3>2, <2>2, <1>10
    <3> QED BY <3>3, <1>1
  <2>3. sorted \in Injection(1 .. size, names)
    BY <1>10, <2>2 DEF Injection, IsInjective
  <2>4. sorted \in Surjection(1 .. size, names)
    BY <2>1, <2>3, FS_Injection
  <2>5. DOMAIN sorted = 1 .. size
    BY <1>10
  <2> QED BY <2>4, <2>5, <1>10 DEF Surjection, ToSet
<1> QED BY <1>1, <1>10, <1>11 DEF sorted
---------------------------------------------------------------------------
(* Types and places. *)

AllPlaces == Works \cup {"idle", "lock", "deploy", "done", "failed"}

\* What a step of p leaves alone.
StepOf(p) == \A q \in Commands \ {p} : pc'[q] = pc[q] /\ job'[q] = job[q]
Fits(p) == TypeOK' /\ InPlace(p)' /\ StepOf(p) /\ OnDisk \subseteq OnDisk'

LEMMA Moves ==
  ASSUME TypeOK, NEW p \in Commands, NEW place \in AllPlaces, NEW record \in Jobs,
         Goto(p, place), Local(p, record)
  PROVE  /\ pc' \in [Commands -> AllPlaces] /\ job' \in [Commands -> Jobs] /\ StepOf(p)
         /\ pc'[p] = place /\ job'[p] = record
BY DEF TypeOK, AllPlaces, Goto, Local, StepOf

LEMMA Stays ==
  ASSUME TypeOK, NEW p \in Commands, UNCHANGED job
  PROVE  Local(p, job[p])
BY DEF TypeOK, Local

LEMMA JobOf ==
  ASSUME TypeOK, NEW p \in Commands
  PROVE  /\ job[p] \in Jobs /\ job[p].verb \in Verbs \cup {"none"} /\ job[p].accept \in BOOLEAN
         /\ job[p].named \in BOOLEAN /\ job[p].target \in SUBSET Items /\ job[p].prev \in Manifests
         /\ job[p].sql \in SqlFiles /\ job[p].todo \in Seq(Names) /\ job[p].name \in Names \cup {0}
         /\ job[p].file \in 1 .. LastFile /\ job[p].created \in BOOLEAN
         /\ pc[p] \in AllPlaces /\ Known(job[p].prev) \in SUBSET Items /\ Known(snapshot) \in SUBSET Items
<1>1. job[p] \in Jobs /\ pc[p] \in AllPlaces
  BY DEF TypeOK, AllPlaces
<1>2. snapshot \in Manifests
  BY DEF TypeOK
<1> QED BY <1>1, <1>2 DEF Jobs, Manifests, Known

LEMMA NamesAreNumbers ==
  ASSUME WellFormed
  PROVE  Names \in SUBSET Nat /\ IsFiniteSet(Names) /\ \A n \in Names : n # 0
<1>1. IsFiniteSet(Seconds) /\ Seconds \subseteq Nat \ {0} /\ MaxRuns \in Nat
  BY DEF WellFormed
<1>2. ASSUME NEW n \in Names PROVE n \in Nat /\ n # 0
  <2>1. PICK t \in Seconds, k \in 0 .. MaxRuns : n = 10 * t + k
    BY DEF Names
  <2>2. t \in Nat /\ t # 0 /\ k \in Nat
    BY <1>1, <2>1
  <2> QED BY <2>1, <2>2
<1>3. IsFiniteSet(Names)
  <2>1. IsFiniteSet(0 .. MaxRuns)
    BY <1>1, FS_Interval
  <2>2. IsFiniteSet(Seconds \X (0 .. MaxRuns))
    BY <1>1, <2>1, FS_Product
  <2> DEFINE pairs == Seconds \X (0 .. MaxRuns)
             name == [x \in pairs |-> 10 * x[1] + x[2]]
  <2>3. name \in [pairs -> Names] /\ \A n \in Names : \E x \in pairs : name[x] = n
    <3>1. ASSUME NEW x \in pairs PROVE name[x] \in Names
      <4>1. x[1] \in Seconds /\ x[2] \in 0 .. MaxRuns
        OBVIOUS
      <4> QED BY <4>1 DEF Names
    <3>2. ASSUME NEW n \in Names PROVE \E x \in pairs : name[x] = n
      <4>1. PICK t \in Seconds, k \in 0 .. MaxRuns : n = 10 * t + k
        BY DEF Names
      <4>2. <<t, k>> \in pairs /\ name[<<t, k>>] = n
        BY <4>1
      <4> QED BY <4>2
    <3> QED BY <3>1, <3>2
  <2>4. name \in Surjection(pairs, Names)
    BY <2>3 DEF Surjection
  <2> QED BY <2>2, <2>4, FS_Surjection
<1> QED BY <1>2, <1>3

LEMMA StartFits ==
  ASSUME WellFormed, TypeOK, Places, NEW p \in Commands, Start(p)
  PROVE  Fits(p)
<1>1. PICK verb \in Verbs, accept, named \in BOOLEAN :
        /\ Local(p, Begun(verb, accept, named))
        /\ Goto(p, First(verb))
        /\ raced' = (raced \/ (verb # "dev" /\ Overlaps(p, verb)))
        /\ verb \notin {"generate", "dev"} => ~named
  BY DEF Start
<1> DEFINE record == Begun(verb, accept, named)
<1>2. record \in Jobs /\ record.verb = verb /\ record.file = 1 /\ ~record.created
  <2>2. Nothing \in SqlFiles /\ NoFile \in Manifests /\ 1 \in 1 .. LastFile /\ <<>> \in Seq(Names)
    BY DEF WellFormed, Nothing, SqlFiles, Manifests
  <2>3. record \in Jobs
    BY <2>2 DEF Jobs, Begun
  <2> QED BY <2>3 DEF Begun
<1>3. First(verb) \in AllPlaces
  BY DEF WellFormed, First, AllPlaces, Works, Generates
<1>4. /\ pc' \in [Commands -> AllPlaces] /\ job' \in [Commands -> Jobs] /\ StepOf(p)
      /\ pc'[p] = First(verb) /\ job'[p] = record
  BY <1>1, <1>2, <1>3, Moves
<1>5. raced' \in BOOLEAN
  BY <1>1 DEF TypeOK, Overlaps
<1>6. TypeOK'
  BY <1>4, <1>5 DEF Start, TypeOK, AllPlaces, files, database
<1>7. InPlace(p)'
  <2> HIDE DEF record
  <2> QED BY <1>2, <1>4 DEF WellFormed, InPlace, First, Generates
<1> QED BY <1>4, <1>6, <1>7 DEF Fits, Start, OnDisk, files

LEMMA IdleJob ==
  ASSUME WellFormed
  PROVE  Idle \in Jobs /\ Idle.file = 1 /\ ~Idle.created
<1>1. Nothing \in SqlFiles /\ NoFile \in Manifests /\ 1 \in 1 .. LastFile /\ <<>> \in Seq(Names)
  BY DEF WellFormed, Nothing, SqlFiles, Manifests
<1>2. Idle \in Jobs
  BY <1>1 DEF Idle, Begun, Jobs
<1> QED BY <1>2 DEF Idle, Begun

\* Leaving: a command that ends or is killed.
LEMMA LeavingFits ==
  ASSUME WellFormed, TypeOK, Places, NEW p \in Commands, End(p) \/ Crash(p)
  PROVE  Fits(p)
<1>1. /\ pc' \in [Commands -> AllPlaces] /\ job' \in [Commands -> Jobs] /\ StepOf(p)
      /\ pc'[p] = "idle" /\ job'[p] = Idle
  <2>1. Goto(p, "idle") /\ Local(p, Idle) /\ "idle" \in AllPlaces
    BY DEF End, Crash, AllPlaces
  <2> QED BY <2>1, IdleJob, Moves
<1>2. TypeOK'
  <2>1. devLock' \in Commands \cup {NoFile} /\ torn' \in BOOLEAN /\ crashes' \in Nat
    <3>1. CASE End(p)
      BY <3>1 DEF TypeOK, End, counts, history
    <3>2. CASE Crash(p)
      <4>1. devLock' \in Commands \cup {NoFile} /\ crashes' \in Nat
        BY <3>2 DEF TypeOK, Crash
      <4>2. torn' \in BOOLEAN
        <5> HIDE DEF WellFormed, Places
        <5> QED BY <3>2, Zenon DEF TypeOK, Crash
      <4> QED BY <4>1, <4>2
    <3> QED BY <3>1, <3>2
  <2> QED BY <1>1, <2>1 DEF TypeOK, AllPlaces, End, Crash, files, database, counts, history
<1>3. InPlace(p)'
  BY <1>1, IdleJob DEF InPlace, Generates
<1> QED BY <1>1, <1>2, <1>3 DEF Fits, OnDisk, End, Crash, files

LEMMA LockFits ==
  ASSUME WellFormed, TypeOK, Places, NEW p \in Commands, Lock(p)
  PROVE  Fits(p)
<1>1. PICK place \in {"target", "failed"} : Goto(p, place)
  BY DEF Lock
<1>2. /\ pc' \in [Commands -> AllPlaces] /\ job' \in [Commands -> Jobs] /\ StepOf(p)
      /\ pc'[p] = place /\ job'[p] = job[p]
  BY <1>1, JobOf, Stays, Moves DEF Lock, AllPlaces, Works
<1>3. devLock' \in Commands \cup {NoFile} /\ raced' \in BOOLEAN
  BY DEF TypeOK, Lock, Overlaps
<1>4. TypeOK'
  BY <1>2, <1>3 DEF TypeOK, AllPlaces, Lock, files, database, counts
<1>5. InPlace(p)'
  BY <1>2 DEF Places, InPlace, Generates, Lock
<1> QED BY <1>2, <1>4, <1>5 DEF Fits, OnDisk, Lock, files

\* Steps that change nothing but what a command knows.
Reads(p) ==
  \/ Target(p) \/ Compile(p) \/ Preview(p) \/ Prompt(p) \/ Generated(p)
  \/ Reconcile(p) \/ Down(p) \/ Push(p)

LEMMA OthersTyped ==
  ASSUME TypeOK, Quiet, UNCHANGED <<files, database>>, pc' \in [Commands -> AllPlaces], job' \in [Commands -> Jobs]
  PROVE  TypeOK' /\ OnDisk = OnDisk'
BY DEF TypeOK, Quiet, files, database, counts, history, AllPlaces, OnDisk

LEMMA CompileFits ==
  ASSUME WellFormed, TypeOK, Places, NEW p \in Commands, Target(p) \/ Compile(p)
  PROVE  Fits(p)
<1> DEFINE record == [job[p] EXCEPT !.target = schema]
<1>1. record \in Jobs /\ \A field \in {"verb", "name", "created", "file", "todo"} : record[field] = job[p][field]
  BY JobOf DEF Jobs, TypeOK
<1>2. PICK place \in {"reconcile", "preview"} :
        Local(p, record) /\ Goto(p, place) /\ (place = "reconcile" <=> pc[p] = "target") /\ (place = "preview" <=> pc[p] = "compile")
  BY DEF Target, Compile
<1> HIDE DEF record
<1>3. /\ pc' \in [Commands -> AllPlaces] /\ job' \in [Commands -> Jobs] /\ StepOf(p)
      /\ pc'[p] = place /\ job'[p] = record
  BY <1>1, <1>2, Moves DEF AllPlaces, Works, Generates
<1>4. TypeOK' /\ OnDisk = OnDisk'
  BY <1>3, OthersTyped DEF Target, Compile
<1>5. InPlace(p)
  BY DEF Places
<1>6. InPlace(p)'
  BY <1>1, <1>2, <1>3, <1>5 DEF InPlace, Generates
<1> QED BY <1>3, <1>4, <1>6 DEF Fits

LEMMA PreviewFits ==
  ASSUME WellFormed, TypeOK, Places, NEW p \in Commands, Preview(p)
  PROVE  Fits(p)
<1>1. PICK sql \in SqlFiles, place \in {"prompt", "code"} :
         Local(p, [job[p] EXCEPT !.prev = snapshot, !.sql = sql]) /\ Goto(p, place)
  <2> DEFINE sql == Diff(Known(snapshot), job[p].target)
             written == IF Blocked(p, sql) THEN Nothing ELSE sql
  <2>1. written \in SqlFiles
    BY JobOf, DiffLeads DEF Nothing, SqlFiles
  <2> QED BY <2>1 DEF Preview
<1> DEFINE record == [job[p] EXCEPT !.prev = snapshot, !.sql = sql]
<1>2. record \in Jobs /\ \A field \in {"verb", "name", "created", "file", "todo"} : record[field] = job[p][field]
  BY JobOf DEF Jobs, TypeOK
<1> HIDE DEF record
<1>3. /\ pc' \in [Commands -> AllPlaces] /\ job' \in [Commands -> Jobs] /\ StepOf(p)
      /\ pc'[p] = place /\ job'[p] = record
  BY <1>1, <1>2, Moves DEF AllPlaces, Works, Generates, record
<1>4. TypeOK' /\ OnDisk = OnDisk'
  BY <1>3, OthersTyped DEF Preview
<1>5. InPlace(p) /\ pc[p] = "preview"
  BY DEF Places, Preview
<1>6. InPlace(p)'
  BY <1>2, <1>3, <1>5 DEF InPlace, Generates
<1> QED BY <1>3, <1>4, <1>6 DEF Fits

LEMMA PromptFits ==
  ASSUME WellFormed, TypeOK, Places, NEW p \in Commands, Prompt(p)
  PROVE  Fits(p)
<1>1. PICK place \in {"compile", "failed"}, record \in Jobs :
         /\ Local(p, record) /\ Goto(p, place)
         /\ \A field \in {"verb", "name", "created", "file", "todo"} : record[field] = job[p][field]
  <2>1. CASE Local(p, [job[p] EXCEPT !.named = TRUE]) /\ Goto(p, "compile")
    <3> DEFINE record == [job[p] EXCEPT !.named = TRUE]
    <3>1. record \in Jobs /\ \A field \in {"verb", "name", "created", "file", "todo"} : record[field] = job[p][field]
      BY JobOf DEF Jobs
    <3> QED BY <2>1, <3>1
  <2>2. CASE UNCHANGED job /\ Goto(p, "failed")
    BY <2>2, Stays, JobOf
  <2> QED BY <2>1, <2>2 DEF Prompt
<1>2. /\ pc' \in [Commands -> AllPlaces] /\ job' \in [Commands -> Jobs] /\ StepOf(p)
      /\ pc'[p] = place /\ job'[p] = record
  BY <1>1, Moves DEF AllPlaces, Works, Generates
<1>3. TypeOK' /\ OnDisk = OnDisk'
  BY <1>2, OthersTyped DEF Prompt
<1>4. InPlace(p) /\ pc[p] = "prompt"
  BY DEF Places, Prompt
<1>5. InPlace(p)'
  BY <1>1, <1>2, <1>4 DEF InPlace, Generates
<1> QED BY <1>2, <1>3, <1>5 DEF Fits

LEMMA GeneratedFits ==
  ASSUME WellFormed, TypeOK, Places, NEW p \in Commands, Generated(p)
  PROVE  Fits(p)
<1>1. PICK place \in {"reconcile", "done"} : Goto(p, place) /\ (place = "reconcile" => job[p].verb = "dev")
  BY DEF Generated
<1>2. /\ pc' \in [Commands -> AllPlaces] /\ job' \in [Commands -> Jobs] /\ StepOf(p)
      /\ pc'[p] = place /\ job'[p] = job[p]
  BY <1>1, Moves, Stays, JobOf DEF AllPlaces, Works, Generates, Generated
<1>3. TypeOK' /\ OnDisk = OnDisk'
  BY <1>2, OthersTyped DEF Generated
<1>4. InPlace(p) /\ pc[p] = "generated"
  BY DEF Places, Generated
<1>5. InPlace(p)'
  BY <1>1, <1>2, <1>4 DEF InPlace, Generates
<1> QED BY <1>2, <1>3, <1>5 DEF Fits

LEMMA ReconcileFits ==
  ASSUME WellFormed, TypeOK, Places, NEW p \in Commands, Reconcile(p)
  PROVE  Fits(p)
<1>1. IsFiniteSet(Names) /\ Names \in SUBSET Nat
  BY NamesAreNumbers
<1>2. Pending \in SUBSET Names /\ Pending \subseteq OnDisk /\ IsFiniteSet(Pending)
  BY <1>1, FS_Subset DEF Pending, OnDisk
<1>3. Sorted(Pending) \in Seq(Names) /\ ToSet(Sorted(Pending)) \subseteq OnDisk
  <2>1. /\ Sorted(Pending) \in [1 .. Cardinality(Pending) -> Pending] /\ Cardinality(Pending) \in Nat
        /\ ToSet(Sorted(Pending)) = Pending
    BY <1>1, <1>2, SortedIs
  <2>2. Sorted(Pending) \in Seq(Pending)
    BY <2>1
  <2> QED BY <1>2, <2>1, <2>2, SeqMonotonic
<1> DEFINE fix == Diff(db, job[p].target)
           record == [job[p] EXCEPT !.sql = fix, !.todo = Sorted(Pending)]
<1>4. record \in Jobs /\ \A field \in {"verb", "name", "created", "file"} : record[field] = job[p][field]
  <2>1. fix \in SqlFiles
    BY JobOf, DiffLeads DEF TypeOK
  <2> HIDE DEF fix
  <2> QED BY <1>3, <2>1, JobOf DEF Jobs
<1>5. record.todo = Sorted(Pending)
  BY JobOf DEF Jobs
<1> HIDE DEF record
<1>6. PICK place \in {"failed", "deploy", "catch-up"}, r \in {job[p], record} :
        Local(p, r) /\ Goto(p, place) /\ (place = "catch-up" => r = record)
  BY Stays DEF Reconcile, record
<1>7. /\ pc' \in [Commands -> AllPlaces] /\ job' \in [Commands -> Jobs] /\ StepOf(p)
      /\ pc'[p] = place /\ job'[p] = r
  BY <1>4, <1>6, JobOf, Moves DEF AllPlaces, Works
<1>8. TypeOK' /\ OnDisk = OnDisk'
  BY <1>7, OthersTyped DEF Reconcile
<1>9. InPlace(p) /\ pc[p] = "reconcile"
  BY DEF Places, Reconcile
<1>10. InPlace(p)'
  BY <1>3, <1>4, <1>5, <1>6, <1>7, <1>8, <1>9 DEF InPlace, Generates
<1> QED BY <1>7, <1>8, <1>10 DEF Fits

LEMMA PushFits ==
  ASSUME WellFormed, TypeOK, Places, NEW p \in Commands, Push(p)
  PROVE  Fits(p)
<1> DEFINE sql == Diff(db, schema)
           kept == IF Blocked(p, sql) THEN [sql EXCEPT !.drop = {}] ELSE sql
           record == [job[p] EXCEPT !.target = schema, !.created = Blocked(p, sql), !.sql = kept]
<1>1. record \in Jobs /\ \A field \in {"verb", "name", "file", "todo"} : record[field] = job[p][field]
  <2>1. sql \in SqlFiles
    BY DiffLeads DEF TypeOK
  <2>2. kept \in SqlFiles
    BY <2>1 DEF SqlFiles
  <2>3. Blocked(p, sql) \in BOOLEAN
    BY DEF Blocked
  <2> HIDE DEF kept, sql
  <2> QED BY <2>2, <2>3, JobOf DEF Jobs, TypeOK
<1>2. Local(p, record) /\ Goto(p, "pushing")
  BY DEF Push
<1> HIDE DEF record
<1>3. /\ pc' \in [Commands -> AllPlaces] /\ job' \in [Commands -> Jobs] /\ StepOf(p)
      /\ pc'[p] = "pushing" /\ job'[p] = record
  BY <1>1, <1>2, Moves DEF AllPlaces, Works
<1>4. TypeOK' /\ OnDisk = OnDisk'
  BY <1>3, OthersTyped DEF Push
<1>5. InPlace(p) /\ pc[p] = "push"
  BY DEF Places, Push
<1>6. InPlace(p)'
  BY <1>1, <1>3, <1>5 DEF InPlace, Generates
<1> QED BY <1>3, <1>4, <1>6 DEF Fits

\* Down takes the last rows of the ledger, the last one first.
LEMMA DownTakes ==
  ASSUME TypeOK, NEW p \in Commands, Down(p)
  PROVE  \/ UNCHANGED job /\ Goto(p, "failed")
         \/ \E names \in Seq(Names) :
              /\ names # <<>> /\ Len(names) <= Len(ledger)
              /\ \A i \in DOMAIN names : names[i] = ledger[Len(ledger) - i + 1].name
              /\ Local(p, [job[p] EXCEPT !.todo = names, !.name = Last(names)]) /\ Goto(p, "revert")
<1> DEFINE names(steps) == [i \in 1 .. steps |-> ledger[Len(ledger) - i + 1].name]
<1>1. PICK steps \in 1 .. 2 :
        IF steps <= Len(ledger) /\ \A i \in DOMAIN names(steps) : folder[names(steps)[i]].down # NoFile
        THEN Local(p, [job[p] EXCEPT !.todo = names(steps), !.name = SnapshotOf(names(steps))]) /\ Goto(p, "revert")
        ELSE UNCHANGED job /\ Goto(p, "failed")
  BY DEF Down
<1>2. CASE steps <= Len(ledger)
  <2>0. ledger \in Seq(LedgerRows) /\ Len(ledger) \in Nat /\ DOMAIN ledger = 1 .. Len(ledger)
    BY DEF TypeOK
  <2>1. ASSUME NEW i \in 1 .. steps PROVE names(steps)[i] = ledger[Len(ledger) - i + 1].name /\ names(steps)[i] \in Names
    <3>1. Len(ledger) - i + 1 \in 1 .. Len(ledger)
      BY <1>2, <2>0
    <3>2. ledger[Len(ledger) - i + 1] \in LedgerRows
      BY <3>1, <2>0
    <3> QED BY <3>2 DEF LedgerRows
  <2>6. names(steps) \in Seq(Names) /\ Len(names(steps)) = steps /\ DOMAIN names(steps) = 1 .. steps
    BY <2>1
  <2>7. names(steps) # <<>>
    BY <2>6
  <2> HIDE DEF names
  <2> QED BY <1>1, <1>2, <2>1, <2>6, <2>7 DEF SnapshotOf
<1>3. CASE ~(steps <= Len(ledger))
  BY <1>1, <1>3
<1> QED BY <1>2, <1>3

LEMMA DownFits ==
  ASSUME WellFormed, TypeOK, Places, NEW p \in Commands, Down(p)
  PROVE  Fits(p)
<1>1. InPlace(p) /\ pc[p] = "down" /\ job[p].file = 1 /\ job[p].verb = "down"
  BY DEF Places, Down, InPlace
<1>2. CASE UNCHANGED job /\ Goto(p, "failed")
  <2>1. /\ pc' \in [Commands -> AllPlaces] /\ job' \in [Commands -> Jobs] /\ StepOf(p)
        /\ pc'[p] = "failed" /\ job'[p] = job[p]
    BY <1>2, JobOf, Stays, Moves DEF AllPlaces
  <2>2. TypeOK' /\ OnDisk = OnDisk'
    BY <2>1, OthersTyped DEF Down
  <2>3. InPlace(p)'
    BY <1>1, <2>1 DEF InPlace, Generates
  <2> QED BY <2>1, <2>2, <2>3 DEF Fits
<1>3. ASSUME NEW names \in Seq(Names), names # <<>>,
             Local(p, [job[p] EXCEPT !.todo = names, !.name = Last(names)]), Goto(p, "revert")
      PROVE  Fits(p)
  <2> DEFINE record == [job[p] EXCEPT !.todo = names, !.name = Last(names)]
  <2>1. Last(names) \in Names
    BY <1>3 DEF Last
  <2>2. record \in Jobs /\ record.file = 1 /\ record.verb = "down" /\ record.todo = names /\ record.name = Last(names)
    BY <1>1, <2>1, JobOf DEF Jobs
  <2> HIDE DEF record
  <2>3. /\ pc' \in [Commands -> AllPlaces] /\ job' \in [Commands -> Jobs] /\ StepOf(p)
        /\ pc'[p] = "revert" /\ job'[p] = record
    BY <1>3, <2>2, Moves DEF AllPlaces, Works, record
  <2>4. TypeOK' /\ OnDisk = OnDisk'
    BY <2>3, OthersTyped DEF Down
  <2>5. InPlace(p)'
    BY <1>3, <2>1, <2>2, <2>3 DEF InPlace, Generates
  <2> QED BY <2>3, <2>4, <2>5 DEF Fits
<1> QED BY <1>2, <1>3, DownTakes

LEMMA WriteCodeFits ==
  ASSUME WellFormed, TypeOK, Places, NEW p \in Commands, WriteCode(p)
  PROVE  Fits(p)
<1> DEFINE n == job[p].file
           record == [job[p] EXCEPT !.file = IF n < LastFile THEN n + 1 ELSE 1]
<1>1. InPlace(p) /\ pc[p] = "code"
  BY DEF Places, WriteCode
<1>2. record \in Jobs /\ record.file = (IF n < LastFile THEN n + 1 ELSE 1)
      /\ \A field \in {"verb", "name", "created", "todo"} : record[field] = job[p][field]
  <2>1. (IF n < LastFile THEN n + 1 ELSE 1) \in 1 .. LastFile
    BY JobOf DEF WellFormed
  <2> QED BY <2>1, JobOf DEF Jobs
<1>3. PICK place \in {"code", "generated", "snapshot"} : Goto(p, place) /\ (place = "code" <=> n < LastFile)
  BY DEF WriteCode, AfterCode
<1>4. Local(p, record)
  BY DEF WriteCode
<1>5. n \in 1 .. LastFile /\ code' = [code EXCEPT ![n] = job[p].target] /\ job[p].target \in SUBSET Items
  BY JobOf DEF WriteCode
<1> HIDE DEF record
<1>6. /\ pc' \in [Commands -> AllPlaces] /\ job' \in [Commands -> Jobs] /\ StepOf(p)
      /\ pc'[p] = place /\ job'[p] = record
  BY <1>2, <1>3, <1>4, Moves DEF AllPlaces, Works, Generates
<1>7. TypeOK' /\ OnDisk = OnDisk'
  <2>1. code' \in [1 .. LastFile -> Manifests]
    BY <1>5 DEF TypeOK, Manifests
  <2> QED BY <1>6, <2>1 DEF TypeOK, AllPlaces, WriteCode, Quiet, database, counts, history, OnDisk
<1>8. InPlace(p)'
  BY <1>1, <1>2, <1>3, <1>6 DEF InPlace, Generates
<1> QED BY <1>6, <1>7, <1>8 DEF Fits

\* The snapshot is written: the places that do so.
LEMMA SnapshotFits ==
  ASSUME WellFormed, TypeOK, Places, NEW p \in Commands,
         WriteSnapshot(p) \/ Adopt(p) \/ PushSnapshot(p) \/ Restore(p)
  PROVE  Fits(p)
<1>1. PICK place \in {"generated", "resolve", "done", "deploy", "failed"} :
         /\ Goto(p, place)
         /\ place \in {"generated", "resolve"} => pc[p] = "snapshot"
         /\ place = "deploy" => pc[p] = "adopt"
         /\ pc[p] \in {"snapshot", "adopt", "pushed", "restore"}
  BY DEF WriteSnapshot, Adopt, PushSnapshot, Restore
<1>2. snapshot' \in Manifests /\ UNCHANGED <<code, folder, database, job>> /\ Quiet
  <2>1. CASE Restore(p)
    <3>1. job[p].name \in Names
      BY <2>1 DEF Places, InPlace, Restore
    <3>2. folder[job[p].name].before \in Manifests
      BY <3>1 DEF TypeOK, Folders
    <3> QED BY <2>1, <3>2 DEF Restore, TypeOK
  <2>2. CASE WriteSnapshot(p) \/ Adopt(p) \/ PushSnapshot(p)
    BY <2>2, JobOf DEF WriteSnapshot, Adopt, PushSnapshot, Manifests
  <2> QED BY <2>1, <2>2
<1>3. /\ pc' \in [Commands -> AllPlaces] /\ job' \in [Commands -> Jobs] /\ StepOf(p)
      /\ pc'[p] = place /\ job'[p] = job[p]
  BY <1>1, <1>2, JobOf, Stays, Moves DEF AllPlaces, Works, Generates
<1>4. TypeOK' /\ OnDisk = OnDisk'
  BY <1>2, <1>3 DEF TypeOK, AllPlaces, Quiet, database, counts, history, OnDisk
<1>5. InPlace(p)
  BY DEF Places
<1>6. InPlace(p)'
  BY <1>1, <1>3, <1>5 DEF InPlace, Generates
<1> QED BY <1>3, <1>4, <1>6 DEF Fits

LEMMA ResolveNameFits ==
  ASSUME WellFormed, TypeOK, Places, NEW p \in Commands, ResolveName(p)
  PROVE  Fits(p)
<1>1. PICK t \in Seconds, k \in 0 .. MaxRuns :
         /\ Local(p, [job[p] EXCEPT !.name = 10 * t + k])
         /\ jumbled' = (jumbled \/ \E other \in OnDisk : 10 * t + k < other)
  BY DEF ResolveName
<1> DEFINE n == 10 * t + k
           record == [job[p] EXCEPT !.name = n]
<1>2. n \in Names
  BY DEF Names
<1> HIDE DEF n
<1>3. record \in Jobs /\ record.name = n
      /\ \A field \in {"verb", "file", "created", "todo"} : record[field] = job[p][field]
  BY <1>2, JobOf DEF Jobs
<1>4. Local(p, record)
  BY <1>1 DEF n
<1> HIDE DEF record
<1>5. /\ pc' \in [Commands -> AllPlaces] /\ job' \in [Commands -> Jobs] /\ StepOf(p)
      /\ pc'[p] = "sql" /\ job'[p] = record
  BY <1>3, <1>4, Moves DEF AllPlaces, Works, Generates, ResolveName
<1>6. drifted' \in SUBSET Ways /\ jumbled' \in BOOLEAN
  BY <1>1 DEF TypeOK, ResolveName, Ways
<1>7. TypeOK' /\ OnDisk = OnDisk'
  BY <1>5, <1>6 DEF TypeOK, AllPlaces, ResolveName, files, database, counts, OnDisk
<1>8. InPlace(p) /\ pc[p] = "resolve"
  BY DEF Places, ResolveName
<1>9. InPlace(p)'
  BY <1>2, <1>3, <1>5, <1>8 DEF InPlace, Generates
<1> QED BY <1>5, <1>7, <1>9 DEF Fits

LEMMA WritingOneFits ==
  ASSUME WellFormed, TypeOK, Places, NEW p \in Commands, NEW file \in {"sql", "down", "before"}, NEW content,
         NEW place \in {"down.sql", "before", "generated"}, NEW record \in Jobs, job[p].name \in Names,
         folder' = [folder EXCEPT ![job[p].name][file] = content], Quiet, UNCHANGED <<code, snapshot, database>>,
         file = "before" => content \in Manifests, file # "before" => content \in SqlFiles,
         Goto(p, place), Local(p, record), pc[p] \in {"sql", "down.sql", "before"},
         place = "down.sql" <=> pc[p] = "sql", place = "before" <=> pc[p] = "down.sql",
         place = "generated" <=> pc[p] = "before",
         \A field \in {"verb", "name", "file", "todo"} : record[field] = job[p][field],
         pc[p] # "before" => record.created = job[p].created
  PROVE  Fits(p)
<1>1. InPlace(p) /\ job[p].name \in Names
  BY DEF Places
<1>2. Goto(p, place) /\ Local(p, record)
  OBVIOUS
<1>3. /\ pc' \in [Commands -> AllPlaces] /\ job' \in [Commands -> Jobs] /\ StepOf(p)
      /\ pc'[p] = place /\ job'[p] = record
  BY <1>2, Moves DEF AllPlaces, Works, Generates
<1>4. folder' \in [Names -> Folders] /\ OnDisk \subseteq OnDisk'
  <2> DEFINE n == job[p].name
  <2>1. folder[n] \in Folders /\ folder \in [Names -> Folders]
    BY <1>1 DEF TypeOK
  <2>2. [folder[n] EXCEPT ![file] = content] \in Folders
    <3>1. CASE file = "sql"
      BY <2>1, <3>1 DEF Folders
    <3>2. CASE file = "down"
      BY <2>1, <3>2 DEF Folders
    <3>3. CASE file = "before"
      BY <2>1, <3>3 DEF Folders
    <3> QED BY <3>1, <3>2, <3>3
  <2>3. folder' = [folder EXCEPT ![n] = [folder[n] EXCEPT ![file] = content]]
    OBVIOUS
  <2>4. [folder[n] EXCEPT ![file] = content].sql # NoFile \/ folder[n].sql = NoFile
    <3>1. CASE file = "sql"
      BY <2>1, <3>1 DEF Folders, WellFormed, SqlFiles
    <3>2. CASE file # "sql"
      BY <2>1, <3>2 DEF Folders
    <3> QED BY <3>1, <3>2
  <2> QED BY <1>1, <2>1, <2>2, <2>3, <2>4 DEF OnDisk
<1>5. TypeOK'
  BY <1>3, <1>4 DEF TypeOK, AllPlaces, Quiet, database, counts, history
<1>6. InPlace(p)'
  BY <1>1, <1>3 DEF InPlace, Generates
<1> QED BY <1>3, <1>4, <1>5, <1>6 DEF Fits

LEMMA WriteFileFits ==
  ASSUME WellFormed, TypeOK, Places, NEW p \in Commands, WriteSql(p) \/ WriteDown(p) \/ WriteBefore(p)
  PROVE  Fits(p)
<1>1. job[p].name \in Names
  BY DEF Places, InPlace, WriteSql, WriteDown, WriteBefore
<1>2. CASE WriteSql(p)
  <2>1. job[p].sql \in SqlFiles /\ job[p] \in Jobs /\ Local(p, job[p]) /\ pc[p] = "sql"
    BY <1>2, JobOf, Stays DEF WriteSql
  <2>2. folder' = [folder EXCEPT ![job[p].name]["sql"] = job[p].sql] /\ Quiet /\ UNCHANGED <<code, snapshot, database>>
        /\ Goto(p, "down.sql")
    BY <1>2 DEF WriteSql, WriteFile
  <2> QED BY <1>1, <2>1, <2>2, WritingOneFits
<1>3. CASE WriteDown(p)
  <2> DEFINE script == Diff(job[p].target, Known(job[p].prev))
  <2>1. script \in SqlFiles /\ job[p] \in Jobs /\ Local(p, job[p]) /\ pc[p] = "down.sql"
    BY <1>3, JobOf, Stays, DiffLeads DEF WriteDown
  <2>2. folder' = [folder EXCEPT ![job[p].name]["down"] = script] /\ Quiet /\ UNCHANGED <<code, snapshot, database>>
        /\ Goto(p, "before")
    BY <1>3 DEF WriteDown, WriteFile
  <2> HIDE DEF script
  <2> QED BY <1>1, <2>1, <2>2, WritingOneFits
<1>4. CASE WriteBefore(p)
  <2> DEFINE record == [job[p] EXCEPT !.created = TRUE]
  <2>1. record \in Jobs /\ \A field \in {"verb", "name", "file", "todo"} : record[field] = job[p][field]
    BY JobOf DEF Jobs
  <2>2. Known(job[p].prev) \in Manifests /\ pc[p] = "before" /\ Local(p, record)
    BY <1>4, JobOf DEF Manifests, WriteBefore
  <2>3. folder' = [folder EXCEPT ![job[p].name]["before"] = Known(job[p].prev)] /\ Quiet /\ UNCHANGED <<code, snapshot, database>>
        /\ Goto(p, "generated")
    BY <1>4 DEF WriteBefore, WriteFile
  <2> HIDE DEF record
  <2> QED BY <1>1, <2>1, <2>2, <2>3, WritingOneFits
<1> QED BY <1>2, <1>3, <1>4

\* What is recorded for files: a row for each, in name order.
LEMMA RowsAre ==
  ASSUME WellFormed, TypeOK, NEW names \in SUBSET OnDisk
  PROVE  /\ Cardinality(names) \in Nat /\ Rows(names) \in Seq(LedgerRows) /\ Len(Rows(names)) = Cardinality(names)
         /\ \A i \in 1 .. Cardinality(names) : Sorted(names)[i] \in names /\ Rows(names)[i] = Row(Sorted(names)[i])
         /\ \A i, j \in 1 .. Cardinality(names) : i < j => Sorted(names)[i] < Sorted(names)[j]
         /\ \A n \in names : \E i \in 1 .. Cardinality(names) : Sorted(names)[i] = n
<1>1. names \in SUBSET Names /\ names \in SUBSET Nat /\ IsFiniteSet(names)
  BY NamesAreNumbers, FS_Subset DEF OnDisk
<1> DEFINE size == Cardinality(names)
           sorted == Sorted(names)
<1>2. /\ sorted \in [1 .. size -> names] /\ size \in Nat
      /\ \A i, j \in 1 .. size : i < j => sorted[i] < sorted[j]
      /\ ToSet(sorted) = names
  BY <1>1, SortedIs
<1>3. ASSUME NEW n \in names PROVE Row(n) \in LedgerRows
  <2>1. n \in Names /\ folder[n] \in Folders /\ folder[n].sql # NoFile
    BY <1>1, <1>3 DEF TypeOK, OnDisk
  <2> QED BY <2>1 DEF Row, Folders, LedgerRows
<1>4. Rows(names) = [i \in 1 .. size |-> Row(sorted[i])]
  BY <1>2 DEF Rows
<1> HIDE DEF sorted, size
<1>5. Rows(names) \in [1 .. size -> LedgerRows]
  BY <1>2, <1>3, <1>4
<1>6. Rows(names) \in Seq(LedgerRows) /\ Len(Rows(names)) = size
  BY <1>2, <1>5
<1>7. \A n \in names : \E i \in 1 .. size : sorted[i] = n
  BY <1>2 DEF ToSet
<1>8. \A i \in 1 .. size : sorted[i] \in names /\ Rows(names)[i] = Row(sorted[i])
  BY <1>2, <1>4
<1> QED BY <1>2, <1>6, <1>7, <1>8 DEF sorted, size

\* Steps on the database and its ledger.
LEMMA DatabaseTyped ==
  ASSUME TypeOK, UNCHANGED <<schema, files, devLock, counts, torn, jumbled>>, raced' \in BOOLEAN,
         db' \in SUBSET Items, ledger' \in Seq(LedgerRows), drifted' \in SUBSET Ways,
         pc' \in [Commands -> AllPlaces], job' \in [Commands -> Jobs]
  PROVE  TypeOK' /\ OnDisk = OnDisk'
BY DEF TypeOK, files, counts, AllPlaces, OnDisk

LEMMA PerformTyped ==
  ASSUME NEW sql \in SqlFiles, NEW state \in SUBSET Items
  PROVE  Perform(sql, state) \in SUBSET Items
BY DEF Perform, SqlFiles

LEMMA MigrateDeployFits ==
  ASSUME WellFormed, TypeOK, Places, NEW p \in Commands, MigrateDeploy(p)
  PROVE  Fits(p)
<1>1. InPlace(p) /\ pc[p] = "deploy"
  BY DEF Places, MigrateDeploy
<1>2. PICK place \in {"failed", "compile", "done"} :
        Goto(p, place) /\ (place = "compile" => job[p].verb = "dev" /\ ~job[p].created)
  BY DEF MigrateDeploy, AfterDeploy
<1>3. /\ pc' \in [Commands -> AllPlaces] /\ job' \in [Commands -> Jobs] /\ StepOf(p)
      /\ pc'[p] = place /\ job'[p] = job[p]
  BY <1>2, JobOf, Stays, Moves DEF AllPlaces, Works, Generates, MigrateDeploy
<1>4. /\ db' \in SUBSET Items /\ ledger' \in Seq(LedgerRows) /\ raced' \in BOOLEAN /\ drifted' \in SUBSET Ways
  <2>1. ledger \in Seq(LedgerRows) /\ Rows(Pending) \in Seq(LedgerRows)
    BY RowsAre DEF TypeOK, Pending
  <2>2. ledger \o Rows(Pending) \in Seq(LedgerRows)
    BY <2>1
  <2>3. Applied(folder, Pending, db) \in SUBSET Items
    BY AppliedItems
  <2> HIDE DEF Rows, Applied, Pending
  <2> QED BY <2>2, <2>3 DEF MigrateDeploy, TypeOK, Ways, HalfWritten, database
<1>5. TypeOK' /\ OnDisk = OnDisk'
  BY <1>3, <1>4, DatabaseTyped DEF MigrateDeploy
<1>6. InPlace(p)'
  BY <1>1, <1>2, <1>3 DEF InPlace, Generates
<1> QED BY <1>3, <1>5, <1>6 DEF Fits

LEMMA CatchUpFits ==
  ASSUME WellFormed, TypeOK, Places, NEW p \in Commands, CatchUp(p)
  PROVE  Fits(p)
<1>1. InPlace(p) /\ pc[p] = "catch-up"
  BY DEF Places, CatchUp
<1>2. PICK place \in {"failed", "record"} : Goto(p, place)
  BY DEF CatchUp
<1>3. /\ pc' \in [Commands -> AllPlaces] /\ job' \in [Commands -> Jobs] /\ StepOf(p)
      /\ pc'[p] = place /\ job'[p] = job[p]
  BY <1>2, JobOf, Stays, Moves DEF AllPlaces, Works, CatchUp
<1>4. db' \in SUBSET Items /\ drifted' \in SUBSET Ways
  <2>1. Perform(job[p].sql, db) \in SUBSET Items
    BY JobOf, PerformTyped DEF TypeOK
  <2> QED BY <2>1 DEF CatchUp, TypeOK, Ways
<1>5. TypeOK' /\ OnDisk = OnDisk'
  BY <1>3, <1>4, DatabaseTyped DEF CatchUp, TypeOK
<1>6. InPlace(p)'
  BY <1>1, <1>2, <1>3, <1>5 DEF InPlace, Generates
<1> QED BY <1>3, <1>5, <1>6 DEF Fits

LEMMA RecordPendingFits ==
  ASSUME WellFormed, TypeOK, Places, NEW p \in Commands, RecordPending(p)
  PROVE  Fits(p)
<1>1. InPlace(p) /\ pc[p] = "record" /\ ToSet(job[p].todo) \subseteq OnDisk
  BY DEF Places, RecordPending, InPlace
<1>2. PICK place \in {"failed", "adopt"} : Goto(p, place)
  BY DEF RecordPending
<1>3. /\ pc' \in [Commands -> AllPlaces] /\ job' \in [Commands -> Jobs] /\ StepOf(p)
      /\ pc'[p] = place /\ job'[p] = job[p]
  BY <1>2, JobOf, Stays, Moves DEF AllPlaces, Works, RecordPending
<1>4. ledger' \in Seq(LedgerRows)
  <2> DEFINE names == ToSet(job[p].todo)
  <2>1. ledger \in Seq(LedgerRows) /\ Rows(names) \in Seq(LedgerRows)
    BY <1>1, RowsAre DEF TypeOK
  <2>2. ledger \o Rows(names) \in Seq(LedgerRows)
    BY <2>1
  <2> QED BY <2>1, <2>2 DEF RecordPending
<1>5. TypeOK' /\ OnDisk = OnDisk'
  BY <1>3, <1>4, DatabaseTyped DEF RecordPending, TypeOK, Quiet, history
<1>6. InPlace(p)'
  BY <1>1, <1>2, <1>3 DEF InPlace, Generates
<1> QED BY <1>3, <1>5, <1>6 DEF Fits

\* Revert removes one row that names the migration, or nothing happens.
LEMMA RevertRemoves ==
  ASSUME TypeOK, Places, NEW p \in Commands, Revert(p)
  PROVE  \/ Goto(p, "failed") /\ UNCHANGED <<database, job, drifted>>
            /\ ~( /\ \E i \in DOMAIN ledger : ledger[i].name = job[p].todo[1] /\ ledger[i].down = folder[job[p].todo[1]].down
                  /\ folder[job[p].todo[1]].down # NoFile /\ Runs(folder[job[p].todo[1]].down, db))
         \/ \E i \in DOMAIN ledger :
              /\ ledger[i].name = job[p].todo[1] /\ folder[job[p].todo[1]].down \in SqlFiles
              /\ db' = Perform(folder[job[p].todo[1]].down, db) /\ ledger' = RemoveAt(ledger, i)
              /\ Local(p, [job[p] EXCEPT !.todo = Tail(job[p].todo)])
              /\ Goto(p, IF Len(job[p].todo) = 1 THEN "restore" ELSE "revert")
              /\ drifted' = drifted \cup {"down"}
<1>1. job[p].todo \in Seq(Names) /\ job[p].todo # <<>>
  BY JobOf DEF Places, InPlace, Revert
<1>2. Head(job[p].todo) = job[p].todo[1] /\ job[p].todo[1] \in Names
  BY <1>1
<1>3. folder[job[p].todo[1]].down \in SqlFiles \cup {NoFile}
  BY <1>2 DEF TypeOK, Folders
<1>4. [job[p] EXCEPT !.todo = Tail(@)] = [job[p] EXCEPT !.todo = Tail(job[p].todo)]
  OBVIOUS
<1> HIDE DEF Runs, Perform
<1> QED BY <1>2, <1>3, <1>4 DEF Revert

LEMMA RemovedFrom ==
  ASSUME NEW S, NEW s \in Seq(S), NEW i \in DOMAIN s
  PROVE  /\ RemoveAt(s, i) \in Seq(S) /\ Len(RemoveAt(s, i)) = Len(s) - 1
         /\ \A j \in 1 .. Len(s) - 1 : RemoveAt(s, i)[j] = IF j < i THEN s[j] ELSE s[j + 1]
<1> DEFINE left == SubSeq(s, 1, i - 1)
           right == SubSeq(s, i + 1, Len(s))
<1>1. Len(s) \in Nat /\ i \in 1 .. Len(s)
  OBVIOUS
<1>2. left \in Seq(S) /\ Len(left) = i - 1 /\ \A j \in 1 .. i - 1 : left[j] = s[j]
  BY <1>1
<1>3. right \in Seq(S) /\ Len(right) = Len(s) - i /\ \A j \in 1 .. Len(s) - i : right[j] = s[i + j]
  BY <1>1
<1>4. RemoveAt(s, i) = left \o right
  BY DEF RemoveAt
<1> HIDE DEF left, right
<1>5. /\ left \o right \in Seq(S) /\ Len(left \o right) = Len(left) + Len(right)
      /\ \A j \in 1 .. Len(left) + Len(right) :
           (left \o right)[j] = IF j <= Len(left) THEN left[j] ELSE right[j - Len(left)]
  BY <1>2, <1>3, ConcatProperties
<1>6. ASSUME NEW j \in 1 .. Len(s) - 1
      PROVE  (left \o right)[j] = IF j < i THEN s[j] ELSE s[j + 1]
  <2>1. CASE j < i
    <3>1. j \in 1 .. i - 1 /\ j \in 1 .. Len(left) + Len(right) /\ j <= Len(left)
      BY <1>1, <1>2, <1>3, <2>1
    <3> QED BY <1>2, <1>5, <2>1, <3>1
  <2>2. CASE ~(j < i)
    <3>1. j - (i - 1) \in 1 .. Len(s) - i /\ j \in 1 .. Len(left) + Len(right) /\ ~(j <= Len(left)) /\ i + (j - (i - 1)) = j + 1
      BY <1>1, <1>2, <1>3, <2>2
    <3>2. right[j - (i - 1)] = s[j + 1]
      BY <1>3, <3>1
    <3> QED BY <1>2, <1>5, <2>2, <3>1, <3>2
  <2> QED BY <2>1, <2>2
<1>7. Len(left \o right) = Len(s) - 1
  BY <1>1, <1>2, <1>3, <1>5
<1> QED BY <1>4, <1>5, <1>6, <1>7

LEMMA RevertFits ==
  ASSUME WellFormed, TypeOK, Places, NEW p \in Commands, Revert(p)
  PROVE  Fits(p)
<1>1. InPlace(p) /\ pc[p] = "revert" /\ job[p].todo # <<>> /\ job[p].name = Last(job[p].todo)
      /\ job[p].verb = "down" /\ job[p].file = 1 /\ job[p].name \in Names
  BY DEF Places, Revert, InPlace
<1>2. CASE Goto(p, "failed") /\ UNCHANGED <<database, job, drifted>>
  <2>1. /\ pc' \in [Commands -> AllPlaces] /\ job' \in [Commands -> Jobs] /\ StepOf(p)
        /\ pc'[p] = "failed" /\ job'[p] = job[p]
    BY <1>2, JobOf, Stays, Moves DEF AllPlaces
  <2>2. TypeOK' /\ OnDisk = OnDisk'
    BY <1>2, <2>1, DatabaseTyped DEF Revert, TypeOK, database
  <2>3. InPlace(p)'
    BY <1>1, <2>1 DEF InPlace, Generates
  <2> QED BY <2>1, <2>2, <2>3 DEF Fits
<1>3. ASSUME NEW i \in DOMAIN ledger, folder[job[p].todo[1]].down \in SqlFiles,
             db' = Perform(folder[job[p].todo[1]].down, db), ledger' = RemoveAt(ledger, i),
             Local(p, [job[p] EXCEPT !.todo = Tail(job[p].todo)]),
             Goto(p, IF Len(job[p].todo) = 1 THEN "restore" ELSE "revert"), drifted' = drifted \cup {"down"}
      PROVE  Fits(p)
  <2> DEFINE todo == job[p].todo
             record == [job[p] EXCEPT !.todo = Tail(todo)]
  <2>1. todo \in Seq(Names) /\ todo # <<>>
    BY <1>1, JobOf
  <2>2. Tail(todo) \in Seq(Names) /\ (Len(todo) # 1 => Tail(todo) # <<>> /\ Last(Tail(todo)) = Last(todo))
    <3>1. Tail(todo) \in Seq(Names) /\ Len(Tail(todo)) = Len(todo) - 1 /\ \A k \in 1 .. Len(Tail(todo)) : Tail(todo)[k] = todo[k + 1]
      BY <2>1
    <3>2. Len(todo) \in Nat /\ Len(todo) >= 1
      BY <2>1
    <3> HIDE DEF todo
    <3>3. ASSUME Len(todo) # 1 PROVE Tail(todo) # <<>> /\ Last(Tail(todo)) = Last(todo)
      <4>1. Len(todo) - 1 \in 1 .. Len(Tail(todo)) /\ Len(todo) - 1 + 1 = Len(todo)
        BY <3>1, <3>2, <3>3
      <4>2. Tail(todo)[Len(todo) - 1] = todo[Len(todo)]
        BY <3>1, <4>1
      <4>3. Tail(todo) # <<>>
        BY <3>1, <4>1
      <4> QED BY <3>1, <4>2, <4>3 DEF Last
    <3> QED BY <3>1, <3>3
  <2> HIDE DEF todo
  <2>3. record \in Jobs /\ record.verb = "down" /\ record.file = 1 /\ record.name = job[p].name /\ record.todo = Tail(todo)
    BY <1>1, <2>2, JobOf DEF Jobs
  <2> HIDE DEF record
  <2>4. PICK place \in {"restore", "revert"} : Goto(p, place) /\ (place = "revert" => Len(todo) # 1)
    BY <1>3 DEF todo
  <2>5. Local(p, record)
    BY <1>3 DEF record, todo
  <2>6. /\ pc' \in [Commands -> AllPlaces] /\ job' \in [Commands -> Jobs] /\ StepOf(p)
        /\ pc'[p] = place /\ job'[p] = record
    BY <2>3, <2>4, <2>5, Moves DEF AllPlaces, Works
  <2>7. db' \in SUBSET Items /\ ledger' \in Seq(LedgerRows) /\ drifted' \in SUBSET Ways
    BY <1>3, PerformTyped, RemovedFrom DEF TypeOK, Ways
  <2>8. TypeOK' /\ OnDisk = OnDisk'
    BY <2>6, <2>7, DatabaseTyped DEF Revert, TypeOK
  <2>9. InPlace(p)'
    BY <1>1, <2>2, <2>3, <2>4, <2>6 DEF InPlace, Generates, todo
  <2> QED BY <2>6, <2>8, <2>9 DEF Fits
<1> QED BY <1>2, <1>3, RevertRemoves

LEMMA ResetFits ==
  ASSUME WellFormed, TypeOK, Places, NEW p \in Commands, Reset(p)
  PROVE  Fits(p)
<1>1. InPlace(p) /\ pc[p] = "reset"
  BY DEF Places, Reset
<1>2. PICK place \in {"done", "deploy"} : Goto(p, place)
  BY DEF Reset
<1>3. /\ pc' \in [Commands -> AllPlaces] /\ job' \in [Commands -> Jobs] /\ StepOf(p)
      /\ pc'[p] = place /\ job'[p] = job[p]
  BY <1>2, JobOf, Stays, Moves DEF AllPlaces, Reset
<1>4. db' \in SUBSET Items /\ ledger' \in Seq(LedgerRows) /\ drifted' \in SUBSET Ways
  BY DEF Reset, TypeOK, Ways
<1>5. TypeOK' /\ OnDisk = OnDisk'
  BY <1>3, <1>4, DatabaseTyped DEF Reset, TypeOK
<1>6. InPlace(p)'
  BY <1>1, <1>2, <1>3 DEF InPlace, Generates
<1> QED BY <1>3, <1>5, <1>6 DEF Fits

LEMMA PushSqlFits ==
  ASSUME WellFormed, TypeOK, Places, NEW p \in Commands, PushSql(p)
  PROVE  Fits(p)
<1>1. InPlace(p) /\ pc[p] = "pushing"
  BY DEF Places, PushSql
<1>2. PICK place \in {"done", "pushed", "failed"} : Goto(p, place)
  BY DEF PushSql
<1>3. /\ pc' \in [Commands -> AllPlaces] /\ job' \in [Commands -> Jobs] /\ StepOf(p)
      /\ pc'[p] = place /\ job'[p] = job[p]
  BY <1>2, JobOf, Stays, Moves DEF AllPlaces, Works, PushSql
<1>4. db' \in SUBSET Items /\ drifted' \in SUBSET Ways
  <2>1. Perform(job[p].sql, db) \in SUBSET Items
    BY JobOf, PerformTyped DEF TypeOK
  <2> QED BY <2>1 DEF PushSql, TypeOK, Ways
<1>5. TypeOK' /\ OnDisk = OnDisk'
  BY <1>3, <1>4, DatabaseTyped DEF PushSql, TypeOK
<1>6. InPlace(p)'
  BY <1>1, <1>2, <1>3 DEF InPlace, Generates
<1> QED BY <1>3, <1>5, <1>6 DEF Fits

StepsOf(p) ==
  Start(p) \/ Lock(p) \/ End(p) \/ Target(p) \/ Generating(p) \/ Migrating(p) \/ Crash(p)

LEMMA StepFits ==
  ASSUME WellFormed, TypeOK, Places, NEW p \in Commands, StepsOf(p)
  PROVE  Fits(p) /\ Places'
<1>1. Fits(p)
  BY StartFits, LeavingFits, LockFits, CompileFits, PreviewFits, PromptFits, GeneratedFits, ReconcileFits, PushFits, DownFits,
     WriteCodeFits, SnapshotFits, ResolveNameFits, WriteFileFits, MigrateDeployFits, CatchUpFits, RecordPendingFits,
     RevertFits, ResetFits, PushSqlFits
     DEF StepsOf, Generating, Migrating
<1>2. ASSUME NEW q \in Commands \ {p} PROVE InPlace(q)'
  <2>1. pc'[q] = pc[q] /\ job'[q] = job[q] /\ OnDisk \subseteq OnDisk' /\ InPlace(q)
    BY <1>1 DEF Fits, StepOf, Places
  <2> QED BY <2>1 DEF InPlace
<1> QED BY <1>1, <1>2 DEF Fits, Places

LEMMA EditFits ==
  ASSUME TypeOK, Places, Edit \/ UNCHANGED vars
  PROVE  TypeOK' /\ Places' /\ OnDisk' = OnDisk
<1>1. UNCHANGED <<files, database, devLock, pc, job, runs, crashes, history>> /\ schema' \in SUBSET Items /\ edits' \in Nat
  BY DEF Edit, vars, TypeOK, counts
<1>2. TypeOK' /\ OnDisk' = OnDisk
  BY <1>1 DEF TypeOK, files, database, history, OnDisk
<1> QED BY <1>1, <1>2 DEF Places, InPlace

LEMMA StartsTyped ==
  ASSUME WellFormed, Init
  PROVE  TypeOK /\ Places
<1>1. Unwritten \in Folders /\ Idle \in Jobs /\ NoFile \in Manifests /\ <<>> \in Seq(LedgerRows)
  BY IdleJob DEF Unwritten, Folders, Manifests
<1>2. TypeOK
  BY <1>1 DEF Init, TypeOK
<1>3. Places
  <2> SUFFICES ASSUME NEW p \in Commands PROVE InPlace(p)
    BY DEF Places
  <2>1. pc[p] = "idle" /\ job[p] = Idle
    BY DEF Init
  <2> QED BY <2>1, IdleJob DEF InPlace, Generates
<1> QED BY <1>2, <1>3

\* Types and places are kept by every step.
THEOREM TypeCorrect == ASSUME WellFormed PROVE Spec => [](TypeOK /\ Places)
<1>1. Init => TypeOK /\ Places
  BY StartsTyped
<1>2. TypeOK /\ Places /\ [Next]_vars => TypeOK' /\ Places'
  <2> SUFFICES ASSUME TypeOK, Places, [Next]_vars PROVE TypeOK' /\ Places'
    OBVIOUS
  <2>1. CASE \E p \in Commands : StepsOf(p)
    BY <2>1, StepFits DEF Fits
  <2>2. CASE Edit \/ UNCHANGED vars
    BY <2>2, EditFits
  <2> QED BY <2>1, <2>2 DEF Next, StepsOf, Rest
<1> QED BY <1>1, <1>2, PTL DEF Spec
---------------------------------------------------------------------------
(* Steps that leave files and database alone. *)

\* Beside a command that is not a deploy there are only deploys, and beside one
\* that is neither generate nor dev nobody.
LEMMA Alone ==
  ASSUME Places, Exclusive, NEW p \in Commands, Busy(p), job[p].verb # "deploy", NEW q \in Commands \ {p}
  PROVE  /\ pc[q] \notin Works
         /\ pc[q] \in {"deploy", "done"} => job[q].verb = "deploy"
         /\ job[p].verb \notin {"generate", "dev"} => pc[q] \notin {"deploy", "done"}
<1>1. Busy(q) => job[q].verb = "deploy" /\ job[p].verb \in {"generate", "dev"}
  BY DEF Exclusive, Together
<1>2. InPlace(q)
  BY DEF Places
<1>3. pc[q] \in Works => Busy(q) /\ job[q].verb # "deploy"
  BY <1>2 DEF Works, Generates, InPlace, Busy
<1>4. pc[q] \in {"deploy", "done"} => Busy(q)
  BY DEF Busy
<1> QED BY <1>1, <1>3, <1>4

LEMMA WorksBusy ==
  ASSUME Places, NEW p \in Commands, pc[p] \in Works
  PROVE  Busy(p) /\ job[p].verb # "deploy"
BY DEF Places, InPlace, Works, Generates, Busy

\* Who is at rest, or only deploys, has nothing to answer for.
LEMMA NothingToTell ==
  ASSUME NEW p \in Commands, pc[p] \notin Works, job[p].verb = "dev" => pc[p] # "deploy"
  PROVE  Written(p) /\ Met(p)
<1>1. pc[p] \notin Generates /\ "generated" \in Generates /\ "reconcile" \in Works
  BY DEF Works, Generates
<1>2. Written(p)
  BY <1>1 DEF Written, Works, Generates
<1>3. Met(p)
  BY <1>1 DEF Met, Works, Generates
<1> QED BY <1>2, <1>3

LEMMA StillExclusive ==
  ASSUME Exclusive, NEW p \in Commands, StepOf(p),
         ~Busy(p)' \/ (Busy(p) /\ job'[p].verb = job[p].verb)
  PROVE  Exclusive'
<1> SUFFICES ASSUME NEW a \in Commands, NEW b \in Commands, a # b, Busy(a)', Busy(b)'
             PROVE  Together(job'[a].verb, job'[b].verb)
  BY DEF Exclusive
<1>1. Busy(a) /\ Busy(b) /\ job'[a].verb = job[a].verb /\ job'[b].verb = job[b].verb
  BY DEF StepOf, Busy
<1> QED BY <1>1 DEF Exclusive

SameDirectory == UNCHANGED <<snapshot, folder, db, ledger>>

\* What is derived from folders, ledger and database is as it was.
LEMMA SameDerived ==
  ASSUME UNCHANGED <<folder, ledger, db>>
  PROVE  /\ OnDisk' = OnDisk /\ Recorded' = Recorded /\ Pending' = Pending /\ LedgerOnce' = LedgerOnce
         /\ Collides' = Collides /\ Barred' = Barred /\ LedgerAgrees' = LedgerAgrees
         /\ \A n : Before(n)' = Before(n) /\ UpTo(n)' = UpTo(n) /\ Made(n)' = Made(n) /\ CanUndo(n)' = CanUndo(n)
         /\ \A names : Build(names)' = Build(names)
<1>1. OnDisk' = OnDisk /\ Recorded' = Recorded
  BY DEF OnDisk, Recorded
<1>2. Pending' = Pending
  BY <1>1 DEF Pending
<1>3. \A n : Before(n)' = Before(n) /\ UpTo(n)' = UpTo(n)
  BY <1>1 DEF Before, UpTo
<1>4. \A names : Build(names)' = Build(names)
  BY DEF Build
<1>5. \A n : Made(n)' = Made(n) /\ CanUndo(n)' = CanUndo(n)
  BY <1>3, <1>4 DEF Made, CanUndo
<1>6. LedgerOnce' = LedgerOnce
  BY <1>1 DEF LedgerOnce
<1>7. Collides' = Collides /\ Barred' = Barred
  BY <1>2 DEF Collides, Barred
<1>8. LedgerAgrees' = LedgerAgrees
  BY <1>1, <1>4 DEF LedgerAgrees, Row
<1> QED BY <1>1, <1>2, <1>3, <1>4, <1>5, <1>6, <1>7, <1>8

LEMMA SameTold ==
  ASSUME SameDirectory, UNCHANGED <<code, drifted>>, NEW q \in Commands, pc'[q] = pc[q], job'[q] = job[q],
         Written(q), Met(q)
  PROVE  Written(q)' /\ Met(q)'
<1>1. /\ OnDisk' = OnDisk /\ Recorded' = Recorded /\ Pending' = Pending
      /\ Collides' = Collides /\ Barred' = Barred
      /\ \A n : Before(n)' = Before(n)
      /\ \A names : Build(names)' = Build(names)
  BY SameDerived DEF SameDirectory
<1>2. Change(q)' = Change(q) /\ CodeIs(q)' = CodeIs(q) /\ \A sql : Blocked(q, sql)' = Blocked(q, sql)
  BY DEF Change, CodeIs, Blocked, Known, SameDirectory
<1>3. Forward' = Forward /\ Followed' = Followed /\ Adopted' = Adopted
  BY DEF Forward, Followed, Adopted
<1>4. Written(q)'
  BY <1>1, <1>2 DEF Written, SameDirectory, Known
<1>5. Build(Before(job[q].name))' = Build(Before(job[q].name))
  BY <1>1
<1>6. Met(q)'
  BY <1>1, <1>3, <1>5 DEF Met, SameDirectory, Known
<1> QED BY <1>4, <1>6

Marked == {"resolve", "sql", "down.sql", "before", "record", "adopt", "pushed"}

LEMMA SameStands ==
  ASSUME NEW p \in Commands, StepOf(p), UNCHANGED snapshot,
         pc[p] \notin {"resolve", "sql"}, pc'[p] \notin {"resolve", "sql"}, NEW state
  PROVE  Stands(state)' = Stands(state)
<1>1. ASSUME NEW q \in Commands
      PROVE  /\ (pc'[q] \in {"resolve", "sql"}) = (pc[q] \in {"resolve", "sql"})
             /\ pc[q] \in {"resolve", "sql"} => job'[q] = job[q]
  BY DEF StepOf
<1> QED BY <1>1 DEF Stands, Known

LEMMA SameWriting ==
  ASSUME NEW p \in Commands, StepOf(p),
         pc[p] \notin {"down.sql", "before"}, pc'[p] \notin {"down.sql", "before"}, NEW n
  PROVE  Writing(n)' = Writing(n)
<1>1. ASSUME NEW q \in Commands
      PROVE  /\ (pc'[q] \in {"down.sql", "before"}) = (pc[q] \in {"down.sql", "before"})
             /\ pc[q] \in {"down.sql", "before"} => job'[q] = job[q]
  BY DEF StepOf
<1> QED BY <1>1 DEF Writing

LEMMA CalmAgrees ==
  ASSUME Agreed, SameDirectory, UNCHANGED drifted, NEW p \in Commands, StepOf(p),
         pc[p] \notin Marked, pc'[p] \notin Marked,
         pc[p] \in {"revert", "restore"} => drifted # {"down"}
  PROVE  Agreed'
<1>1. /\ OnDisk' = OnDisk /\ Recorded' = Recorded /\ Pending' = Pending /\ LedgerAgrees' = LedgerAgrees
      /\ \A n : Made(n)' = Made(n) /\ CanUndo(n)' = CanUndo(n)
      /\ Build(OnDisk)' = Build(OnDisk)
  BY SameDerived DEF SameDirectory
<1>2. Forward' = Forward /\ Followed' = Followed /\ Adopted' = Adopted /\ Known(snapshot)' = Known(snapshot)
  BY DEF Forward, Followed, Adopted, SameDirectory, Known
<1>3. \A state : Stands(state)' = Stands(state)
  BY SameStands DEF Marked, SameDirectory
<1>4. \A n : Writing(n)' = Writing(n)
  BY SameWriting DEF Marked
<1>5. FilesAgree' = FilesAgree
  BY <1>1, <1>4 DEF FilesAgree
<1>6. FilesStand' = FilesStand
  BY <1>1, <1>3 DEF FilesStand
<1>7. DatabaseStands' = DatabaseStands
  <2>1. Applied(folder, Pending, db)' = Applied(folder, Pending, db) /\ AllRun(folder, Pending, db)' = AllRun(folder, Pending, db)
    <3> HIDE DEF Applied, AllRun
    <3> QED BY <1>1 DEF SameDirectory
  <2> QED BY <2>1, <1>3 DEF DatabaseStands
<1>8. None({"record", "adopt", "pushed"})' => None({"record", "adopt", "pushed"})
  BY DEF None, StepOf, Marked
<1>9. drifted = {"down"} /\ None({"revert", "restore", "resolve"})' => None({"revert", "restore", "resolve"})
  BY DEF None, StepOf, Marked
<1> QED BY <1>1, <1>2, <1>5, <1>6, <1>7, <1>8, <1>9 DEF Agreed, SameDirectory

\* A step of p that leaves the directory alone keeps the invariant, if it does
\* of p itself.
LEMMA CalmBody ==
  ASSUME TypeOK, Places, Body, NEW p \in Commands, StepOf(p), SameDirectory, UNCHANGED drifted,
         pc[p] \notin Marked, pc'[p] \notin Marked, pc[p] \in {"revert", "restore"} => drifted # {"down"},
         UNCHANGED code, Exclusive', Written(p)', Met(p)'
  PROVE  Body'
<1>1. Agreed'
  BY CalmAgrees DEF Body
<1>2. ASSUME NEW q \in Commands PROVE Written(q)' /\ Met(q)'
  <2>1. CASE q = p
    BY <2>1
  <2>2. CASE q # p
    BY <2>2, SameTold DEF Body, StepOf
  <2> QED BY <2>1, <2>2
<1>3. LedgerOnce'
  BY SameDerived DEF Body, SameDirectory
<1> QED BY <1>1, <1>2, <1>3 DEF Body

\* Orderly so far if orderly after a step.
LEMMA WasOrderly ==
  ASSUME TypeOK, NEW p \in Commands, StepsOf(p), Orderly'
  PROVE  Orderly
<1>1. torn => torn'
  BY DEF StepsOf, Generating, Migrating, Start, Lock, End, Target, Crash, Compile, Preview, Prompt, WriteCode, WriteSnapshot,
         ResolveName, WriteSql, WriteDown, WriteBefore, WriteFile, Generated, MigrateDeploy, Reconcile, CatchUp, RecordPending,
         Adopt, Down, Revert, Restore, Reset, Push, PushSql, PushSnapshot, Quiet, history
<1>2. raced => raced'
  BY DEF StepsOf, Generating, Migrating, Start, Lock, End, Target, Crash, Compile, Preview, Prompt, WriteCode, WriteSnapshot,
         ResolveName, WriteSql, WriteDown, WriteBefore, WriteFile, Generated, MigrateDeploy, Reconcile, CatchUp, RecordPending,
         Adopt, Down, Revert, Restore, Reset, Push, PushSql, PushSnapshot, Quiet, history
<1>3. jumbled => jumbled'
  BY DEF StepsOf, Generating, Migrating, Start, Lock, End, Target, Crash, Compile, Preview, Prompt, WriteCode, WriteSnapshot,
         ResolveName, WriteSql, WriteDown, WriteBefore, WriteFile, Generated, MigrateDeploy, Reconcile, CatchUp, RecordPending,
         Adopt, Down, Revert, Restore, Reset, Push, PushSql, PushSnapshot, Quiet, history
<1> QED BY <1>1, <1>2, <1>3 DEF Orderly

LEMMA NowExclusive ==
  ASSUME TypeOK, Exclusive, NEW p \in Commands, StepOf(p), NEW verb, ~Overlaps(p, verb),
         Busy(p)' => job'[p].verb = verb
  PROVE  Exclusive'
<1> SUFFICES ASSUME NEW a \in Commands, NEW b \in Commands, a # b, Busy(a)', Busy(b)'
             PROVE  Together(job'[a].verb, job'[b].verb)
  BY DEF Exclusive
<1>1. ASSUME NEW q \in Commands \ {p}, Busy(q) PROVE Together(verb, job[q].verb)
  BY <1>1 DEF Overlaps, Busy, Together
<1>2. ASSUME NEW q \in Commands \ {p} PROVE job'[q] = job[q] /\ (Busy(q)' => Busy(q))
  BY DEF StepOf, Busy
<1>3. CASE a = p
  <2>1. Together(verb, job[b].verb)
    BY <1>1, <1>2, <1>3
  <2> QED BY <2>1, <1>2, <1>3
<1>4. CASE b = p
  <2>1. Together(verb, job[a].verb)
    BY <1>1, <1>2, <1>4
  <2>2. Together(job[a].verb, verb)
    BY <2>1 DEF Together
  <2> QED BY <2>2, <1>2, <1>4
<1>5. CASE a # p /\ b # p
  BY <1>2, <1>5 DEF Exclusive
<1> QED BY <1>3, <1>4, <1>5

LEMMA StartKeeps ==
  ASSUME WellFormed, TypeOK, Places, Body, NEW p \in Commands, Start(p), Orderly'
  PROVE  Body'
<1>1. Fits(p)
  BY StartFits
<1>2. PICK verb \in Verbs, accept, named \in BOOLEAN :
        /\ Local(p, Begun(verb, accept, named))
        /\ Goto(p, First(verb))
        /\ raced' = (raced \/ (verb # "dev" /\ Overlaps(p, verb)))
  BY DEF Start
<1>3. pc'[p] = First(verb) /\ job'[p] = Begun(verb, accept, named) /\ job'[p].verb = verb /\ ~job'[p].created
  BY <1>2 DEF TypeOK, Goto, Local, Begun
<1>4. First(verb) \in {"compile", "deploy", "down", "reset", "push", "lock"} /\ (verb = "dev" <=> First(verb) = "lock")
      /\ (verb = "deploy" <=> First(verb) = "deploy") /\ (verb = "generate" <=> First(verb) = "compile")
  BY DEF WellFormed, First
<1>5. Exclusive'
  <2>1. CASE verb = "dev"
    <3>1. ~Busy(p)'
      BY <1>3, <1>4, <2>1 DEF Busy
    <3> QED BY <3>1, <1>1, StillExclusive DEF Body, Fits
  <2>2. CASE verb # "dev"
    <3>1. ~Overlaps(p, verb)
      BY <1>2, <2>2 DEF Orderly
    <3> QED BY <3>1, <1>1, <1>3, NowExclusive DEF Body, Fits
  <2> QED BY <2>1, <2>2
<1>6. Written(p)'
  BY <1>3, <1>4 DEF Written, Generates
<1>7. Met(p)'
  BY <1>3, <1>4 DEF Met, Generates
<1>8. SameDirectory /\ UNCHANGED <<drifted, code>> /\ pc[p] = "idle"
  BY DEF Start, SameDirectory, files, database
<1> QED BY <1>1, <1>3, <1>4, <1>5, <1>6, <1>7, <1>8, CalmBody DEF Fits, Marked

LEMMA LockKeeps ==
  ASSUME WellFormed, TypeOK, Places, Body, NEW p \in Commands, Lock(p), Orderly'
  PROVE  Body'
<1>1. Fits(p)
  BY LockFits
<1>2. pc[p] = "lock" /\ job'[p] = job[p] /\ job[p].verb = "dev" /\ ~job[p].created
  BY DEF Lock, Places, InPlace
<1>3. pc'[p] \in {"target", "failed"} /\ (pc'[p] = "target" => ~Overlaps(p, "dev"))
  BY DEF Lock, TypeOK, Goto, Orderly
<1>4. Exclusive'
  <2>1. CASE pc'[p] = "target"
    BY <1>1, <1>2, <1>3, <2>1, NowExclusive DEF Body, Fits
  <2>2. CASE pc'[p] = "failed"
    BY <1>1, <2>2, StillExclusive DEF Body, Fits, Busy
  <2> QED BY <1>3, <2>1, <2>2
<1>5. Written(p)' /\ Met(p)'
  BY <1>2, <1>3 DEF Written, Met, Generates
<1>6. SameDirectory /\ UNCHANGED <<drifted, code>>
  BY DEF Lock, SameDirectory, files, database
<1> QED BY <1>1, <1>2, <1>3, <1>4, <1>5, <1>6, CalmBody DEF Fits, Marked

LEMMA LeavingKeeps ==
  ASSUME WellFormed, TypeOK, Places, Body, NEW p \in Commands, End(p) \/ Crash(p), Orderly'
  PROVE  Body'
<1>1. Fits(p)
  BY LeavingFits
<1>2. pc'[p] = "idle" /\ job'[p] = Idle /\ Idle.verb = "none"
  BY DEF End, Crash, TypeOK, Goto, Local, Idle, Begun
<1>3. pc[p] \notin Marked /\ (pc[p] \in {"revert", "restore"} => drifted # {"down"})
  <2>1. CASE End(p)
    BY <2>1 DEF End, Marked
  <2>2. CASE Crash(p)
    BY <2>2 DEF Crash, Orderly, Marked
  <2> QED BY <2>1, <2>2
<1>4. Exclusive'
  BY <1>1, <1>2, StillExclusive DEF Body, Fits, Busy
<1>5. Written(p)' /\ Met(p)'
  BY <1>2 DEF Written, Met, Generates
<1>6. SameDirectory /\ UNCHANGED <<drifted, code>>
  BY DEF End, Crash, SameDirectory, files, database, history
<1> QED BY <1>1, <1>2, <1>3, <1>4, <1>5, <1>6, CalmBody DEF Fits, Marked

LEMMA CompileKeeps ==
  ASSUME WellFormed, TypeOK, Places, Body, NEW p \in Commands, Target(p) \/ Compile(p)
  PROVE  Body'
<1>1. Fits(p)
  BY CompileFits
<1>2. /\ (pc[p] = "target" /\ pc'[p] = "reconcile") \/ (pc[p] = "compile" /\ pc'[p] = "preview")
      /\ job'[p] = [job[p] EXCEPT !.target = schema]
  BY DEF Target, Compile, TypeOK, Goto, Local
<1>3. job'[p].verb = job[p].verb /\ job'[p].created = job[p].created /\ ~job[p].created
  <2>1. ~job[p].created
    BY <1>2 DEF Places, InPlace, Generates
  <2> QED BY <1>2, <2>1, JobOf DEF Jobs
<1>4. Exclusive'
  BY <1>1, <1>2, <1>3, StillExclusive DEF Body, Fits, Busy
<1>5. SameDirectory /\ UNCHANGED <<drifted, code>>
  BY DEF Target, Compile, SameDirectory, files, database, Quiet, history
<1>6. Pending' = Pending /\ Forward' = Forward
  BY <1>5, SameDerived DEF SameDirectory, Forward
<1>7. Written(p)' /\ Met(p)'
  <2>1. Met(p)
    BY DEF Body
  <2>2. Written(p)'
    BY <1>2, <1>3 DEF Written, Generates
  <2>3. Met(p)'
    BY <1>2, <1>3, <1>6, <2>1 DEF Met, Generates
  <2> QED BY <2>2, <2>3
<1> QED BY <1>1, <1>2, <1>4, <1>5, <1>7, CalmBody DEF Fits, Marked

LEMMA PreviewKeeps ==
  ASSUME WellFormed, TypeOK, Places, Body, NEW p \in Commands, Preview(p)
  PROVE  Body'
<1> DEFINE sql == Diff(Known(snapshot), job[p].target)
           written == IF Blocked(p, sql) THEN Nothing ELSE sql
<1>1. Fits(p)
  BY PreviewFits
<1>2. /\ pc[p] = "preview" /\ pc'[p] \in {"prompt", "code"}
      /\ job'[p] = [job[p] EXCEPT !.prev = snapshot, !.sql = written]
  BY DEF Preview, TypeOK, Goto, Local
<1>3. /\ job'[p].verb = job[p].verb /\ job'[p].created = job[p].created /\ job'[p].accept = job[p].accept
      /\ job'[p].target = job[p].target /\ job'[p].prev = snapshot /\ job'[p].sql = written
      /\ job'[p].file = 1 /\ ~job[p].created
  <2>1. ~job[p].created /\ job[p].file = 1
    BY <1>2 DEF Places, InPlace, Generates
  <2> HIDE DEF written
  <2> QED BY <1>2, <2>1, JobOf DEF Jobs
<1>4. Exclusive'
  BY <1>1, <1>2, <1>3, StillExclusive DEF Body, Fits, Busy
<1>5. SameDirectory /\ UNCHANGED <<drifted, code>>
  BY DEF Preview, SameDirectory, files, database, Quiet, history
<1>6. Pending' = Pending /\ Forward' = Forward
  BY <1>5, SameDerived DEF SameDirectory, Forward
<1>7. Change(p)' = sql /\ Blocked(p, Change(p))' = Blocked(p, sql)
  BY <1>3, <1>5 DEF Change, Blocked, SameDirectory, Known
<1>8. Written(p)'
  <2>1. \A f \in 1 .. job'[p].file - 1 : code'[f] = job'[p].target
    BY <1>3
  <2>2. job'[p].prev = snapshot' /\ (job[p].sql)' = IF Blocked(p, Change(p))' THEN Nothing ELSE Change(p)'
    BY <1>3, <1>5, <1>7 DEF SameDirectory
  <2> QED BY <1>2, <1>3, <2>1, <2>2 DEF Written, Generates
<1>9. Met(p)'
  <2>1. Met(p)
    BY DEF Body
  <2> QED BY <1>2, <1>3, <1>6, <2>1 DEF Met, Generates
<1> QED BY <1>1, <1>2, <1>4, <1>5, <1>8, <1>9, CalmBody DEF Fits, Marked

LEMMA PromptKeeps ==
  ASSUME WellFormed, TypeOK, Places, Body, NEW p \in Commands, Prompt(p)
  PROVE  Body'
<1>1. Fits(p)
  BY PromptFits
<1>2. /\ pc[p] = "prompt" /\ pc'[p] \in {"compile", "failed"}
      /\ job'[p] = job[p] \/ job'[p] = [job[p] EXCEPT !.named = TRUE]
  BY DEF Prompt, TypeOK, Goto, Local
<1>3. job'[p].verb = job[p].verb /\ job'[p].created = job[p].created /\ ~job[p].created
  <2>1. ~job[p].created
    BY <1>2 DEF Places, InPlace, Generates
  <2> QED BY <1>2, <2>1, JobOf DEF Jobs
<1>4. Exclusive'
  BY <1>1, <1>2, <1>3, StillExclusive DEF Body, Fits, Busy
<1>5. SameDirectory /\ UNCHANGED <<drifted, code>>
  BY DEF Prompt, SameDirectory, files, database, Quiet, history
<1>6. Pending' = Pending /\ Forward' = Forward
  BY <1>5, SameDerived DEF SameDirectory, Forward
<1>7. Written(p)'
  BY <1>2, <1>3 DEF Written, Generates
<1>8. Met(p)'
  <2>1. Met(p)
    BY DEF Body
  <2> QED BY <1>2, <1>3, <1>6, <2>1 DEF Met, Generates
<1> QED BY <1>1, <1>2, <1>4, <1>5, <1>7, <1>8, CalmBody DEF Fits, Marked

LEMMA GeneratedKeeps ==
  ASSUME WellFormed, TypeOK, Places, Body, NEW p \in Commands, Generated(p)
  PROVE  Body'
<1>1. Fits(p)
  BY GeneratedFits
<1>2. /\ pc[p] = "generated" /\ pc'[p] \in {"reconcile", "done"} /\ job'[p] = job[p]
      /\ pc'[p] = "reconcile" => job[p].verb = "dev" /\ job[p].created
  BY DEF Generated, TypeOK, Goto
<1>3. Exclusive'
  BY <1>1, <1>2, StillExclusive DEF Body, Fits, Busy
<1>4. SameDirectory /\ UNCHANGED <<drifted, code>>
  BY DEF Generated, SameDirectory, files, database, Quiet, history
<1>5. Written(p)'
  <2>1. Written(p)
    BY DEF Body
  <2> QED BY <1>2, <1>4, <2>1 DEF Written, Generates, SameDirectory, CodeIs
<1>6. Met(p)'
  BY <1>2 DEF Met, Generates
<1> QED BY <1>1, <1>2, <1>3, <1>4, <1>5, <1>6, CalmBody DEF Fits, Marked

LEMMA ReconcileKeeps ==
  ASSUME WellFormed, TypeOK, Places, Body, NEW p \in Commands, Reconcile(p)
  PROVE  Body'
<1> DEFINE fix == Diff(db, job[p].target)
           record == [job[p] EXCEPT !.sql = fix, !.todo = Sorted(Pending)]
<1>1. Fits(p)
  BY ReconcileFits
<1>2. /\ pc[p] = "reconcile"
      /\ \/ pc'[p] = "failed" /\ job'[p] = job[p]
         \/ pc'[p] = "deploy" /\ job'[p] = job[p] /\ ~Collides
         \/ pc'[p] = "catch-up" /\ job'[p] = record /\ Collides
  BY DEF Reconcile, TypeOK, Goto, Local
<1>3. /\ record.verb = job[p].verb /\ record.target = job[p].target
      /\ record.sql = fix /\ record.todo = Sorted(Pending)
  <2> HIDE DEF fix
  <2> QED BY JobOf DEF Jobs
<1> HIDE DEF record
<1>4. Exclusive'
  BY <1>1, <1>2, <1>3, StillExclusive DEF Body, Fits, Busy
<1>5. SameDirectory /\ UNCHANGED <<drifted, code>>
  BY DEF Reconcile, SameDirectory, files, database, Quiet, history
<1>6. Pending' = Pending /\ Collides' = Collides /\ db' = db
  BY <1>5, SameDerived DEF SameDirectory
<1>7. Written(p)'
  <2>1. Written(p)
    BY DEF Body
  <2> QED BY <1>2, <1>5, <2>1 DEF Written, Generates, SameDirectory, CodeIs
<1>8. Met(p)'
  BY <1>2, <1>3, <1>6 DEF Met, Generates
<1> QED BY <1>1, <1>2, <1>4, <1>5, <1>7, <1>8, CalmBody DEF Fits, Marked

LEMMA DownKeeps ==
  ASSUME WellFormed, TypeOK, Places, Body, NEW p \in Commands, Down(p)
  PROVE  Body'
<1>1. Fits(p)
  BY DownFits
<1>2. /\ pc[p] = "down" /\ job'[p].verb = job[p].verb
      /\ \/ pc'[p] = "failed"
         \/ /\ pc'[p] = "revert" /\ Len(job'[p].todo) <= Len(ledger)
            /\ \A i \in DOMAIN job'[p].todo : job'[p].todo[i] = ledger[Len(ledger) - i + 1].name
  <2>1. CASE UNCHANGED job /\ Goto(p, "failed")
    BY <2>1 DEF Down, TypeOK, Goto
  <2>2. ASSUME NEW names \in Seq(Names), Len(names) <= Len(ledger),
               \A i \in DOMAIN names : names[i] = ledger[Len(ledger) - i + 1].name,
               Local(p, [job[p] EXCEPT !.todo = names, !.name = Last(names)]), Goto(p, "revert")
        PROVE  /\ pc'[p] = "revert" /\ Len(job'[p].todo) <= Len(ledger) /\ job'[p].verb = job[p].verb
               /\ \A i \in DOMAIN job'[p].todo : job'[p].todo[i] = ledger[Len(ledger) - i + 1].name
    <3>1. pc'[p] = "revert" /\ job'[p] = [job[p] EXCEPT !.todo = names, !.name = Last(names)]
      BY <2>2 DEF TypeOK, Goto, Local
    <3>2. job'[p].todo = names /\ job'[p].verb = job[p].verb
      BY <3>1, JobOf DEF Jobs
    <3> QED BY <2>2, <3>1, <3>2
  <2> QED BY <2>1, <2>2, DownTakes DEF Down
<1>3. Exclusive'
  BY <1>1, <1>2, StillExclusive DEF Body, Fits, Busy
<1>4. SameDirectory /\ UNCHANGED <<drifted, code>>
  BY DEF Down, SameDirectory, files, database, Quiet, history
<1>5. Written(p)'
  BY <1>2 DEF Written, Generates
<1>6. Met(p)'
  BY <1>2, <1>4 DEF Met, Generates, SameDirectory
<1> QED BY <1>1, <1>2, <1>3, <1>4, <1>5, <1>6, CalmBody DEF Fits, Marked

LEMMA PushKeeps ==
  ASSUME WellFormed, TypeOK, Places, Body, NEW p \in Commands, Push(p)
  PROVE  Body'
<1> DEFINE sql == Diff(db, schema)
           kept == IF Blocked(p, sql) THEN [sql EXCEPT !.drop = {}] ELSE sql
           record == [job[p] EXCEPT !.target = schema, !.created = Blocked(p, sql), !.sql = kept]
<1>1. Fits(p)
  BY PushFits
<1>2. pc[p] = "push" /\ pc'[p] = "pushing" /\ job'[p] = record
  BY DEF Push, TypeOK, Goto, Local
<1>3. /\ record.verb = job[p].verb /\ record.target = schema /\ record.created = Blocked(p, sql)
      /\ ~record.created => record.sql = sql
  <2> HIDE DEF sql
  <2> QED BY JobOf DEF Jobs
<1> HIDE DEF record
<1>4. Exclusive'
  BY <1>1, <1>2, <1>3, StillExclusive DEF Body, Fits, Busy
<1>5. SameDirectory /\ UNCHANGED <<drifted, code>>
  BY DEF Push, SameDirectory, files, database, Quiet, history
<1>6. Written(p)'
  BY <1>2 DEF Written, Generates
<1>7. Met(p)'
  BY <1>2, <1>3, <1>5 DEF Met, Generates, SameDirectory
<1> QED BY <1>1, <1>2, <1>4, <1>5, <1>6, <1>7, CalmBody DEF Fits, Marked
---------------------------------------------------------------------------
(* Steps that write. *)

\* Beside a command that works there are at most deploys: what one can say of
\* the commands is said of it.
LEMMA OnlyOne ==
  ASSUME Places, Exclusive, NEW p \in Commands, pc[p] \in Works, StepOf(p)
  PROVE  /\ \A q \in Commands \ {p} : /\ pc[q] \notin Works /\ pc'[q] = pc[q] /\ job'[q] = job[q]
                                      /\ job[q].verb = "dev" => pc[q] # "deploy"
         /\ \A n : Writing(n) <=> pc[p] \in {"down.sql", "before"} /\ job[p].name = n
         /\ \A n : Writing(n)' <=> pc'[p] \in {"down.sql", "before"} /\ job'[p].name = n
         /\ \A places \in SUBSET Works : (None(places) <=> pc[p] \notin places) /\ (None(places)' <=> pc'[p] \notin places)
<1>1. ASSUME NEW q \in Commands \ {p}
      PROVE  /\ pc[q] \notin Works /\ pc'[q] = pc[q] /\ job'[q] = job[q]
             /\ job[q].verb = "dev" => pc[q] # "deploy"
  <2>1. Busy(p) /\ job[p].verb # "deploy"
    BY WorksBusy
  <2> QED BY <2>1, Alone DEF StepOf
<1>2. "down.sql" \in Works /\ "before" \in Works
  BY DEF Works, Generates
<1>3. ASSUME NEW n
      PROVE  /\ Writing(n) <=> pc[p] \in {"down.sql", "before"} /\ job[p].name = n
             /\ Writing(n)' <=> pc'[p] \in {"down.sql", "before"} /\ job'[p].name = n
  <2>1. ASSUME NEW q \in Commands, q # p PROVE pc[q] \notin {"down.sql", "before"} /\ pc'[q] \notin {"down.sql", "before"}
    BY <1>1, <1>2, <2>1
  <2> QED BY <2>1 DEF Writing
<1>4. ASSUME NEW places \in SUBSET Works
      PROVE  (None(places) <=> pc[p] \notin places) /\ (None(places)' <=> pc'[p] \notin places)
  <2>1. ASSUME NEW q \in Commands, q # p PROVE pc[q] \notin places /\ pc'[q] \notin places
    BY <1>1, <2>1
  <2> QED BY <2>1 DEF None
<1> QED BY <1>1, <1>3, <1>4

\* What the folders stand for is what that command says.
LEMMA OnlyStands ==
  ASSUME Places, Exclusive, NEW p \in Commands, pc[p] \in Works, StepOf(p), NEW state
  PROVE  /\ Stands(state) <=> state = IF pc[p] \in {"resolve", "sql"} THEN Known(job[p].prev) ELSE Known(snapshot)
         /\ Stands(state)' <=> state = IF pc'[p] \in {"resolve", "sql"} THEN Known(job'[p].prev) ELSE Known(snapshot')
<1>1. "resolve" \in Works /\ "sql" \in Works
  BY DEF Works, Generates
<1>2. ASSUME NEW q \in Commands, q # p PROVE pc[q] \notin {"resolve", "sql"} /\ pc'[q] \notin {"resolve", "sql"}
  BY OnlyOne, <1>1, <1>2
<1> QED BY <1>2 DEF Stands, Known

LEMMA AloneBody ==
  ASSUME Places, Body, NEW p \in Commands, pc[p] \in Works, StepOf(p),
         ~Busy(p)' \/ job'[p].verb = job[p].verb,
         LedgerOnce', "redo" \in drifted' => "down" \in drifted', Written(p)', Met(p)', Agreed'
  PROVE  Body'
<1>1. Exclusive'
  BY WorksBusy, StillExclusive DEF Body
<1>2. ASSUME NEW q \in Commands \ {p} PROVE Written(q)' /\ Met(q)'
  <2>1. pc'[q] \notin Works /\ (job'[q].verb = "dev" => pc'[q] # "deploy")
    BY OnlyOne DEF Body
  <2>2. pc'[q] \notin Generates /\ "generated" \in Generates /\ "reconcile" \in Works
    BY <2>1 DEF Works, Generates
  <2>3. Written(q)'
    BY <2>1, <2>2 DEF Written, Works, Generates
  <2>4. Met(q)'
    BY <2>1, <2>2 DEF Met, Works, Generates
  <2> QED BY <2>3, <2>4
<1> QED BY <1>1, <1>2 DEF Body

LEMMA CodeMet ==
  ASSUME TypeOK, Places, Body, NEW p \in Commands, StepOf(p), SameDirectory, UNCHANGED drifted,
         pc[p] = "code", pc'[p] \in {"code", "snapshot", "generated"}, job'[p].verb = job[p].verb,
         ~job[p].created, job'[p].created = job[p].created, Met(p), Written(p)'
  PROVE  Body'
<1>1. Pending' = Pending /\ Forward' = Forward
  BY SameDerived DEF SameDirectory, Forward
<1>2. Met(p)'
  BY <1>1 DEF Met, Generates
<1>3. Agreed'
  BY CalmAgrees DEF Body, Marked
<1>4. LedgerOnce'
  BY SameDerived DEF Body, SameDirectory
<1> QED BY <1>2, <1>3, <1>4, AloneBody DEF Body, Works, Generates

LEMMA WriteCodeKeeps ==
  ASSUME WellFormed, TypeOK, Places, Body, NEW p \in Commands, WriteCode(p)
  PROVE  Body'
<1> DEFINE n == job[p].file
<1>1. Fits(p)
  BY WriteCodeFits
<1>2. /\ pc[p] = "code" /\ job'[p] = [job[p] EXCEPT !.file = IF n < LastFile THEN n + 1 ELSE 1]
      /\ pc'[p] = IF n < LastFile THEN "code" ELSE AfterCode(p)
      /\ code' = [code EXCEPT ![n] = job[p].target]
  BY DEF WriteCode, TypeOK, Goto, Local
<1>3. SameDirectory /\ UNCHANGED drifted
  BY DEF WriteCode, SameDirectory, database, Quiet, history
<1>4. /\ job'[p].verb = job[p].verb /\ job'[p].created = job[p].created /\ job'[p].accept = job[p].accept
      /\ job'[p].target = job[p].target /\ job'[p].prev = job[p].prev /\ job'[p].sql = job[p].sql
      /\ job'[p].file = (IF n < LastFile THEN n + 1 ELSE 1) /\ ~job[p].created
  <2>1. ~job[p].created
    BY <1>2 DEF Places, InPlace, Generates
  <2>2. job[p] \in Jobs
    BY JobOf
  <2> DEFINE next == IF n < LastFile THEN n + 1 ELSE 1
  <2> HIDE DEF next
  <2>3. job'[p] = [job[p] EXCEPT !.file = next]
    BY <1>2 DEF next
  <2>4. /\ job'[p].verb = job[p].verb /\ job'[p].created = job[p].created /\ job'[p].accept = job[p].accept
        /\ job'[p].target = job[p].target /\ job'[p].prev = job[p].prev /\ job'[p].sql = job[p].sql
        /\ job'[p].file = next
    BY <2>2, <2>3 DEF Jobs
  <2> QED BY <2>1, <2>4 DEF next
<1>5. n \in 1 .. LastFile /\ LastFile \in Nat /\ code \in [1 .. LastFile -> Manifests]
  BY JobOf DEF WellFormed, TypeOK
<1>6. pc'[p] \in {"code", "snapshot", "generated"} /\ (pc'[p] = "code" <=> n < LastFile)
      /\ (pc'[p] = "generated" => Blocked(p, Change(p))) /\ (pc'[p] = "snapshot" => ~Blocked(p, Change(p)))
  BY <1>2 DEF AfterCode, Change
<1>7. Change(p)' = Change(p) /\ Blocked(p, Change(p))' = Blocked(p, Change(p))
  BY <1>4 DEF Change, Blocked, Known
<1>8. Written(p) /\ Met(p)
  BY DEF Body
<1>9. \A f \in 1 .. n : code'[f] = job[p].target
  <2>1. \A f \in 1 .. n - 1 : code[f] = job[p].target
    BY <1>2, <1>8 DEF Written
  <2> QED BY <2>1, <1>2, <1>5
<1>10. CASE n < LastFile
  <2>1. \A f \in 1 .. job'[p].file - 1 : code'[f] = job'[p].target
    BY <1>4, <1>5, <1>9, <1>10
  <2>2. Written(p)'
    BY <1>2, <1>3, <1>4, <1>6, <1>7, <1>8, <1>10, <2>1 DEF Written, SameDirectory
  <2> QED BY <2>2, <1>1, <1>2, <1>3, <1>4, <1>6, <1>8, CodeMet DEF Fits
<1>11. CASE ~(n < LastFile)
  <2>1. CodeIs(p)'
    BY <1>4, <1>5, <1>9, <1>11 DEF CodeIs
  <2>2. job'[p].prev = snapshot' /\ job[p].sql = (IF Blocked(p, Change(p)) THEN Nothing ELSE Change(p))
    BY <1>2, <1>3, <1>4, <1>8 DEF Written, SameDirectory
  <2>3. Written(p)'
    BY <1>3, <1>4, <1>6, <1>7, <1>11, <2>1, <2>2 DEF Written, SameDirectory, Known
  <2> QED BY <2>3, <1>1, <1>2, <1>3, <1>4, <1>6, <1>8, CodeMet DEF Fits
<1> QED BY <1>10, <1>11

\* The snapshot is written: nothing had changed, or a migration will follow.
LEMMA WriteSnapshotKeeps ==
  ASSUME WellFormed, TypeOK, Places, Body, NEW p \in Commands, WriteSnapshot(p)
  PROVE  Body'
<1>1. Fits(p) /\ pc[p] \in Works
  BY SnapshotFits DEF WriteSnapshot, Works, Generates
<1>2. /\ pc[p] = "snapshot" /\ pc'[p] = (IF job[p].sql = Nothing THEN "generated" ELSE "resolve") /\ job' = job
      /\ snapshot' = job[p].target
  BY DEF WriteSnapshot, TypeOK, Goto
<1>3. UNCHANGED <<folder, db, ledger, code, drifted>>
  BY DEF WriteSnapshot, database, Quiet, history
<1>4. Written(p) /\ Met(p) /\ ~job[p].created
  BY <1>2 DEF Body, Places, InPlace, Generates
<1>5. job[p].prev = snapshot /\ job[p].sql = Change(p) /\ CodeIs(p)
  BY <1>2, <1>4 DEF Written
<1>6. job[p].target \in SUBSET Items /\ Known(snapshot') = job[p].target /\ Known(job[p].prev) \in SUBSET Items
  BY <1>2, JobOf DEF Known, WellFormed
<1>7. job[p].sql = Nothing => job[p].target = Known(job[p].prev)
  BY <1>5, <1>6 DEF Nothing, Change, Diff
<1>8. Change(p)' = Change(p) /\ CodeIs(p)' = CodeIs(p)
  BY <1>2, <1>3 DEF Change, CodeIs, Known
<1>9. Known(job'[p].prev) = Known(job[p].prev)
  BY <1>2
<1>10. Written(p)'
  BY <1>2, <1>4, <1>5, <1>6, <1>7, <1>8, <1>9 DEF Written
<1>11. OnDisk' = OnDisk /\ Pending' = Pending /\ LedgerOnce' = LedgerOnce /\ LedgerAgrees' = LedgerAgrees
       /\ Recorded' = Recorded /\ Build(OnDisk)' = Build(OnDisk)
       /\ (\A n : Made(n)' = Made(n) /\ CanUndo(n)' = CanUndo(n))
  BY <1>3, SameDerived
<1>12. Forward' = Forward /\ Followed' = Followed /\ Adopted' = Adopted
  BY <1>3 DEF Forward, Followed, Adopted
<1>13. Met(p)'
  BY <1>2, <1>4, <1>11, <1>12 DEF Met, Generates
<1>14. Agreed'
  <2>1. Exclusive /\ StepOf(p)
    BY <1>1 DEF Body, Fits
  <2>2. ASSUME NEW state, Stands(state) PROVE Stands(state)'
    <3>1. state = Known(job[p].prev)
      BY <1>1, <1>2, <1>5, <2>1, <2>2, OnlyStands
    <3> QED BY <1>1, <1>2, <1>6, <1>7, <2>1, <3>1, OnlyStands
  <2>3. \A n : Writing(n)' = Writing(n)
    BY <1>1, <1>2, <2>1, SameWriting
  <2>4. FilesAgree' = FilesAgree
    BY <1>11, <2>3 DEF FilesAgree
  <2>5. FilesStand => FilesStand'
    BY <1>11, <2>2 DEF FilesStand
  <2>6. DatabaseStands => DatabaseStands'
    <3>1. Applied(folder, Pending, db)' = Applied(folder, Pending, db) /\ AllRun(folder, Pending, db)' = AllRun(folder, Pending, db)
      <4> HIDE DEF Applied, AllRun
      <4> QED BY <1>3, <1>11
    <3> QED BY <2>2, <3>1 DEF DatabaseStands
  <2>7. None({"record", "adopt", "pushed"})
    BY <1>1, <1>2, <2>1, OnlyOne DEF Works
  <2>8. None({"revert", "restore", "resolve"})
    BY <1>1, <1>2, <2>1, OnlyOne DEF Works, Generates
  <2>9. None({"revert", "restore", "resolve"})' => Known(snapshot') = Known(snapshot)
    <3>1. None({"revert", "restore", "resolve"})' => pc'[p] # "resolve"
      BY DEF None
    <3> QED BY <1>2, <1>5, <1>6, <1>7, <3>1
  <2> QED BY <1>3, <1>11, <1>12, <2>4, <2>5, <2>6, <2>7, <2>8, <2>9 DEF Agreed, Body
<1> QED BY <1>1, <1>2, <1>3, <1>10, <1>11, <1>13, <1>14, AloneBody DEF Fits, Body

\* A name in order is newer than every other.
LEMMA ResolveNameKeeps ==
  ASSUME WellFormed, TypeOK, Places, Body, NEW p \in Commands, ResolveName(p), Orderly'
  PROVE  Body'
<1>1. Fits(p) /\ pc[p] \in Works
  BY ResolveNameFits DEF ResolveName, Works, Generates
<1>2. PICK t \in Seconds, k \in 0 .. MaxRuns :
         /\ FirstFree(t, k)
         /\ Local(p, [job[p] EXCEPT !.name = 10 * t + k])
         /\ jumbled' = (jumbled \/ \E other \in OnDisk : 10 * t + k < other)
  BY DEF ResolveName
<1> DEFINE n == 10 * t + k
<1>3. n \in Names /\ folder[n].sql = NoFile /\ \A other \in OnDisk : ~(n < other)
  <2>1. n \in Names
    BY DEF Names
  <2>2. folder[n].sql = NoFile
    BY <1>2 DEF FirstFree
  <2>3. ~jumbled'
    BY DEF Orderly
  <2> QED BY <1>2, <2>1, <2>2, <2>3
<1>4. job'[p] = [job[p] EXCEPT !.name = n]
  BY <1>2 DEF TypeOK, Local
<1> HIDE DEF n
<1>5. /\ pc[p] = "resolve" /\ pc'[p] = "sql"
      /\ drifted' = IF "down" \in drifted THEN drifted \cup {"fork"} ELSE drifted
  BY DEF ResolveName, TypeOK, Goto
<1>6. SameDirectory /\ UNCHANGED code
  BY DEF ResolveName, SameDirectory, database, files
<1>7. /\ job'[p].verb = job[p].verb /\ job'[p].created = job[p].created /\ job'[p].accept = job[p].accept
      /\ job'[p].target = job[p].target /\ job'[p].prev = job[p].prev /\ job'[p].sql = job[p].sql
      /\ job'[p].name = n
  BY <1>4, JobOf DEF Jobs
<1>8. n \notin OnDisk /\ \A m \in OnDisk : m < n
  <2>1. n \notin OnDisk
    BY <1>3 DEF OnDisk
  <2>2. OnDisk \subseteq Nat /\ n \in Nat
    BY <1>3, NamesAreNumbers DEF OnDisk
  <2>3. ASSUME NEW m \in OnDisk PROVE m < n
    <3>1. m \in Nat /\ m # n /\ ~(n < m)
      BY <2>1, <2>2, <1>3
    <3> QED BY <3>1, <2>2
  <2> QED BY <2>1, <2>3
<1>9. /\ OnDisk' = OnDisk /\ Pending' = Pending /\ LedgerOnce' = LedgerOnce /\ LedgerAgrees' = LedgerAgrees
      /\ Recorded' = Recorded /\ Build(OnDisk)' = Build(OnDisk)
      /\ (\A m : Made(m)' = Made(m) /\ CanUndo(m)' = CanUndo(m))
  BY <1>6, SameDerived DEF SameDirectory
<1>10. Written(p) /\ Met(p)
  BY DEF Body
<1>11. Change(p)' = Change(p) /\ CodeIs(p)' = CodeIs(p)
  BY <1>6, <1>7 DEF Change, CodeIs, Known
<1>12. Written(p)'
  <2>1. snapshot' = job'[p].target /\ job'[p].sql = Change(p)' /\ CodeIs(p)'
    BY <1>5, <1>6, <1>7, <1>10, <1>11 DEF Written, SameDirectory
  <2> QED BY <1>5, <1>7, <1>8, <1>9, <2>1 DEF Written
<1>13. drifted' = drifted \/ ("down" \in drifted /\ drifted' = drifted \cup {"fork"})
  BY <1>5
<1>14. /\ Forward' => Forward /\ drifted' = drifted
       /\ Followed' => Followed /\ drifted' = drifted
       /\ Adopted' => Adopted /\ drifted' = drifted
       /\ drifted' # {"down"}
       /\ "redo" \in drifted' => "down" \in drifted'
  <2>1. "redo" \in drifted => "down" \in drifted
    BY DEF Body
  <2>2. drifted' # {"down"}
    BY <1>5
  <2> QED BY <1>13, <2>1, <2>2 DEF Forward, Followed, Adopted
<1>15. Met(p)'
  BY <1>5, <1>7, <1>9, <1>10, <1>14 DEF Met, Generates
<1>16. Agreed'
  <2>1. Exclusive /\ StepOf(p)
    BY <1>1 DEF Body, Fits
  <2>2. ASSUME NEW state PROVE Stands(state)' = Stands(state)
    <3>1. Stands(state) \in BOOLEAN /\ Stands(state)' \in BOOLEAN
      BY DEF Stands
    <3> QED BY <1>1, <1>5, <1>7, <2>1, <3>1, OnlyStands
  <2>3. \A m : Writing(m)' = Writing(m)
    BY <1>1, <1>5, <2>1, SameWriting
  <2>4. FilesAgree' = FilesAgree
    BY <1>9, <2>3 DEF FilesAgree
  <2>5. FilesStand => FilesStand'
    BY <1>9, <2>2 DEF FilesStand
  <2>6. DatabaseStands => DatabaseStands'
    <3>1. Applied(folder, Pending, db)' = Applied(folder, Pending, db) /\ AllRun(folder, Pending, db)' = AllRun(folder, Pending, db)
      <4> HIDE DEF Applied, AllRun
      <4> QED BY <1>6, <1>9 DEF SameDirectory
    <3> QED BY <2>2, <3>1 DEF DatabaseStands
  <2>7. None({"record", "adopt", "pushed"})
    BY <1>1, <1>5, <2>1, OnlyOne DEF Works
  <2> QED BY <1>9, <1>14, <2>4, <2>5, <2>6, <2>7 DEF Agreed, Body
<1> QED BY <1>1, <1>7, <1>9, <1>12, <1>14, <1>15, <1>16, AloneBody DEF Fits, Body

LEMMA FileOf ==
  ASSUME TypeOK, NEW n \in Names
  PROVE  /\ folder[n] \in Folders /\ folder[n].sql \in SqlFiles \cup {NoFile} /\ folder[n].down \in SqlFiles \cup {NoFile}
         /\ folder[n].before \in Manifests
BY DEF TypeOK, Folders

LEMMA SqlIsSome ==
  ASSUME WellFormed, NEW sql \in SqlFiles
  PROVE  sql # NoFile
BY DEF WellFormed, SqlFiles

LEMMA PendingOnDisk ==
  ASSUME WellFormed, TypeOK
  PROVE  /\ OnDisk \in SUBSET Names /\ OnDisk \in SUBSET Nat /\ Pending \in SUBSET Nat /\ Pending \subseteq OnDisk
         /\ \A n \in OnDisk : folder[n].sql \in SqlFiles
  BY NamesAreNumbers, FileOf DEF OnDisk, Pending

\* migration.sql is there: the migration is the newest, and pending.
LEMMA WriteSqlKeeps ==
  ASSUME WellFormed, TypeOK, Places, Body, NEW p \in Commands, WriteSql(p)
  PROVE  Body'
<1> DEFINE n == job[p].name
<1>1. Fits(p) /\ pc[p] \in Works
  BY WriteFileFits DEF WriteSql, Works, Generates
<1>2. pc[p] = "sql" /\ pc'[p] = "down.sql" /\ job' = job /\ folder' = [folder EXCEPT ![n]["sql"] = job[p].sql]
  BY DEF WriteSql, WriteFile, TypeOK, Goto
<1>3. UNCHANGED <<snapshot, db, ledger, code, drifted>>
  BY DEF WriteSql, WriteFile, database, Quiet, history
<1>4. Written(p) /\ Met(p) /\ n \in Names /\ ~job[p].created /\ LedgerOnce
  BY <1>2 DEF Body, Places, InPlace, Generates
<1>5. /\ snapshot = job[p].target /\ job[p].sql = Change(p) /\ CodeIs(p)
      /\ n \notin OnDisk /\ \A m \in OnDisk : m < n
      /\ "down" \in drifted => "fork" \in drifted
  BY <1>2, <1>4 DEF Written
<1>6. folder'[n] = [folder[n] EXCEPT !["sql"] = job[p].sql] /\ \A m \in Names : m # n => folder'[m] = folder[m]
  BY <1>2, <1>4 DEF TypeOK
<1>7. folder'[n].sql = job[p].sql /\ job[p].sql \in SqlFiles /\ job[p].sql # NoFile
  <2>1. folder[n] \in Folders
    BY <1>4, FileOf
  <2>2. folder'[n].sql = job[p].sql
    BY <1>6, <2>1 DEF Folders
  <2> QED BY <2>2, JobOf, SqlIsSome
<1>8. /\ job[p].target \in SUBSET Items /\ Known(snapshot) = job[p].target /\ Known(job[p].prev) \in SUBSET Items
      /\ Known(snapshot') = job[p].target
  BY <1>3, <1>5, JobOf DEF Known, WellFormed
<1>9. /\ OnDisk \in SUBSET Names /\ OnDisk \in SUBSET Nat /\ Pending \in SUBSET Nat /\ Pending \subseteq OnDisk /\ n \in Nat
      /\ Recorded \subseteq OnDisk
  BY <1>4, PendingOnDisk, NamesAreNumbers DEF LedgerOnce
<1>10. OnDisk' = OnDisk \cup {n}
  <2>1. ASSUME NEW m \in Names PROVE m \in OnDisk' <=> m \in OnDisk \/ m = n
    BY <1>6, <1>7, <2>1 DEF OnDisk
  <2>2. OnDisk' \subseteq Names
    BY DEF OnDisk
  <2> QED BY <1>4, <1>9, <2>1, <2>2
<1> HIDE DEF n
<1>11. Recorded' = Recorded /\ n \notin Recorded /\ Pending' = Pending \cup {n}
  <2>1. Recorded' = Recorded
    BY <1>3 DEF Recorded
  <2> QED BY <2>1, <1>5, <1>9, <1>10 DEF Pending
<1>12. \A m \in OnDisk : folder'[m] = folder[m] /\ folder[m].sql = folder'[m].sql
  BY <1>5, <1>6, <1>9
<1>13. ASSUME NEW some \in SUBSET OnDisk, NEW state
       PROVE  /\ Applied(folder', some, state) = Applied(folder, some, state)
              /\ AllRun(folder', some, state) <=> AllRun(folder, some, state)
  <2>1. \A m \in some : folder[m].sql = folder'[m].sql
    BY <1>12
  <2> HIDE DEF Applied, AllRun
  <2> QED BY <2>1, SameApplied
<1>14. ASSUME NEW some \in SUBSET OnDisk PROVE Applied(folder', some, {}) = Build(some)
  BY <1>13 DEF Build
<1>15. ASSUME NEW some \in SUBSET OnDisk, NEW state, Applied(folder, some, state) = Known(job[p].prev)
       PROVE  Applied(folder', some \cup {n}, state) = job[p].target
  <2>1. some \in SUBSET Nat /\ \A m \in some : m < n
    BY <1>5, <1>9 DEF n
  <2>2. folder'[n].sql.add \subseteq Items
    BY <1>7 DEF SqlFiles
  <2>3. Applied(folder', some \cup {n}, state) = Perform(folder'[n].sql, Applied(folder', some, state))
    <3> HIDE DEF Applied, Perform
    <3>1. ASSUME NEW dir, dir[n].sql.add \subseteq Items
          PROVE  Applied(dir, some \cup {n}, state) = Perform(dir[n].sql, Applied(dir, some, state))
      BY <1>9, <2>1, <3>1, NewestApplied
    <3> QED BY <2>2, <3>1
  <2>4. Perform(Change(p), Known(job[p].prev)) = job[p].target
    BY <1>8, DiffLeads DEF Change
  <2> HIDE DEF Applied, Perform
  <2> QED BY <1>5, <1>7, <1>13, <1>15, <2>3, <2>4
<1>16. ASSUME NEW m \in OnDisk
       PROVE  /\ {k \in OnDisk' : k < m} = Before(m) /\ {k \in OnDisk' : k <= m} = UpTo(m)
              /\ Before(m) \subseteq OnDisk /\ UpTo(m) \subseteq OnDisk
  <2>1. ~(n < m) /\ ~(n <= m)
    <3>1. m < n /\ m \in Nat /\ n \in Nat
      BY <1>5, <1>9 DEF n
    <3> QED BY <3>1
  <2> QED BY <1>10, <2>1 DEF Before, UpTo
<1>17. {k \in OnDisk' : k < n} = OnDisk /\ {k \in OnDisk' : k <= n} = OnDisk \cup {n}
  <2>1. \A k \in OnDisk : k < n /\ k <= n
    <3> SUFFICES ASSUME NEW k \in OnDisk PROVE k < n /\ k <= n
      OBVIOUS
    <3>1. k < n /\ k \in Nat /\ n \in Nat
      BY <1>5, <1>9 DEF n
    <3> QED BY <3>1
  <2>2. ~(n < n) /\ n <= n
    BY <1>9
  <2> QED BY <1>10, <2>1, <2>2
<1>18. \A m \in OnDisk : Made(m)' = Made(m) /\ CanUndo(m)' = CanUndo(m)
  <2> SUFFICES ASSUME NEW m \in OnDisk PROVE Made(m)' = Made(m) /\ CanUndo(m)' = CanUndo(m)
    OBVIOUS
  <2>1. Build(Before(m))' = Build(Before(m)) /\ Build(UpTo(m))' = Build(UpTo(m))
    <3>1. Before(m)' = Before(m) /\ UpTo(m)' = UpTo(m)
      BY <1>16 DEF Before, UpTo
    <3>2. Applied(folder', Before(m), {}) = Build(Before(m)) /\ Applied(folder', UpTo(m), {}) = Build(UpTo(m))
      BY <1>14, <1>16
    <3> HIDE DEF Applied
    <3> QED BY <3>1, <3>2 DEF Build
  <2> QED BY <1>12, <2>1 DEF Made, CanUndo
<1>19. Forward => Build(OnDisk) = Known(job[p].prev)
  <2>1. Exclusive /\ StepOf(p) /\ (Forward => FilesStand)
    BY <1>1 DEF Body, Agreed, Fits
  <2> QED BY <1>1, <1>2, <2>1, OnlyStands DEF FilesStand
<1>20. Followed => Forward
  <2>1. "redo" \in drifted => "down" \in drifted
    BY DEF Body
  <2> QED BY <1>5, <2>1 DEF Followed, Forward
<1>21. Forward' = Forward /\ Followed' = Followed /\ Adopted' = Adopted
  BY <1>3 DEF Forward, Followed, Adopted
<1>22. Forward => /\ Applied(folder', OnDisk, {}) = Known(job[p].prev)
                  /\ Applied(folder', OnDisk \cup {n}, {}) = job[p].target
  <2> SUFFICES ASSUME Forward
               PROVE  /\ Applied(folder', OnDisk, {}) = Known(job[p].prev)
                      /\ Applied(folder', OnDisk \cup {n}, {}) = job[p].target
    OBVIOUS
  <2>1. Applied(folder', OnDisk, {}) = Known(job[p].prev)
    BY <1>14, <1>19
  <2>2. Applied(folder', OnDisk \cup {n}, {}) = job[p].target
    BY <1>15, <1>19 DEF Build
  <2> QED BY <2>1, <2>2
<1>23. Written(p)'
  <2>1. job'[p].name \in Pending' /\ folder'[job'[p].name].sql = Change(p)' /\ CodeIs(p)'
    BY <1>2, <1>3, <1>5, <1>7, <1>11 DEF n, Change, CodeIs, Known
  <2>2. \A m \in OnDisk' : m <= job'[p].name
    BY <1>2, <1>9, <1>10, <1>17 DEF n
  <2>3. snapshot' = job'[p].target /\ job'[p].sql = Change(p)' /\ ("down" \in drifted' => "fork" \in drifted')
    BY <1>2, <1>3, <1>5 DEF Change, Known
  <2> QED BY <1>2, <2>1, <2>2, <2>3 DEF Written
<1>24. Met(p)'
  <2>1. Build(Before(job[p].name))' = Applied(folder', OnDisk, {})
    <3>1. Before(job[p].name)' = OnDisk
      BY <1>2, <1>17 DEF Before, n
    <3> HIDE DEF Applied
    <3> QED BY <3>1 DEF Build
  <2>2. Forward' => Known(job[p].prev)' = Build(Before(job[p].name))'
    BY <1>2, <1>21, <1>22, <2>1 DEF Known
  <2> QED BY <1>2, <2>2 DEF Met, Generates
<1>25. Agreed'
  <2>1. Exclusive /\ StepOf(p) /\ Agreed
    BY <1>1 DEF Body, Fits
  <2>2. \A state : Stands(state)' <=> state = job[p].target
    BY <1>1, <1>2, <1>8, <2>1, OnlyStands
  <2>3. \A m : Writing(m)' <=> m = n
    BY <1>1, <1>2, <2>1, OnlyOne DEF n
  <2>4. \A m : ~Writing(m)
    BY <1>1, <1>2, <2>1, OnlyOne
  <2>5. Followed => FilesAgree'
    <3> SUFFICES ASSUME Followed, NEW m \in OnDisk' PROVE Made(m)' /\ (CanUndo(m)' \/ (Writing(m)' /\ m \notin Recorded'))
      BY DEF FilesAgree
    <3>1. CASE m = n
      <4>1. Before(m)' = OnDisk /\ UpTo(m)' = OnDisk \cup {n}
        BY <1>17, <3>1 DEF Before, UpTo
      <4>2. Build(Before(m))' = Known(job[p].prev) /\ Build(UpTo(m))' = job[p].target
        <5> HIDE DEF Applied
        <5> QED BY <1>20, <1>22, <4>1 DEF Build
      <4>3. Made(m)'
        BY <1>5, <1>7, <3>1, <4>2 DEF Made, Change
      <4> QED BY <4>3, <3>1, <2>3, <1>11
    <3>2. CASE m # n
      <4>1. m \in OnDisk
        BY <1>10, <3>2
      <4>2. Made(m) /\ CanUndo(m)
        BY <4>1, <2>1, <2>4 DEF Agreed, FilesAgree
      <4> QED BY <4>1, <4>2, <1>18
    <3> QED BY <3>1, <3>2
  <2>6. Followed => LedgerAgrees'
    <3> SUFFICES ASSUME Followed PROVE LedgerAgrees'
      OBVIOUS
    <3>1. LedgerAgrees
      BY <2>1 DEF Agreed
    <3>2. \A i \in DOMAIN ledger : ledger'[i] = Row(ledger[i].name)'
      <4> SUFFICES ASSUME NEW i \in DOMAIN ledger PROVE ledger[i] = Row(ledger[i].name)'
        BY <1>3
      <4>1. ledger[i].name \in OnDisk
        BY <1>9 DEF Recorded
      <4>2. folder'[ledger[i].name] = folder[ledger[i].name]
        BY <1>12, <4>1
      <4> QED BY <3>1, <4>2, <1>3 DEF LedgerAgrees, Row
    <3>3. \A m \in OnDisk' \ Recorded' : \A k \in Recorded' : k < m
      <4> SUFFICES ASSUME NEW m \in OnDisk', m \notin Recorded, NEW k \in Recorded PROVE k < m
        BY <1>11
      <4>1. CASE m = n
        BY <4>1, <1>5, <1>9 DEF n
      <4>2. CASE m # n
        BY <4>2, <1>10, <3>1 DEF LedgerAgrees
      <4> QED BY <4>1, <4>2
    <3>4. db' = Build(Recorded)'
      <4>1. Applied(folder', Recorded, {}) = Build(Recorded)
        BY <1>9, <1>14
      <4> HIDE DEF Applied
      <4> QED BY <1>3, <1>11, <4>1, <3>1 DEF LedgerAgrees, Build
    <3> QED BY <3>1, <3>2, <3>3, <3>4, <1>3 DEF LedgerAgrees
  <2>7. Forward => FilesStand'
    <3>1. ASSUME Forward PROVE Build(OnDisk)' = job[p].target
      <4> HIDE DEF Applied
      <4> QED BY <1>10, <1>22, <3>1 DEF Build
    <3> QED BY <2>2, <3>1 DEF FilesStand
  <2>8. DatabaseStands => DatabaseStands'
    <3> SUFFICES ASSUME DatabaseStands PROVE DatabaseStands'
      OBVIOUS
    <3>1. Applied(folder, Pending, db) = Known(job[p].prev) /\ AllRun(folder, Pending, db)
      BY <1>1, <1>2, <2>1, OnlyStands DEF DatabaseStands
    <3>2. Applied(folder', Pending \cup {n}, db) = job[p].target
      BY <1>9, <1>15, <3>1
    <3>3. AllRun(folder', Pending \cup {n}, db)
      <4>1. AllRun(folder', Pending, db) /\ Applied(folder', Pending, db) = Known(job[p].prev)
        BY <1>9, <1>13, <3>1
      <4>2. Runs(folder'[n].sql, Known(job[p].prev))
        BY <1>5, <1>7, <1>8, DiffLeads DEF Change
      <4>3. \A m \in Pending : m < n
        BY <1>5, <1>9 DEF n
      <4> HIDE DEF Applied, AllRun, Runs
      <4> QED BY <1>9, <4>1, <4>2, <4>3, NewestRuns
    <3>4. Applied(folder, Pending, db)' = Applied(folder', Pending \cup {n}, db)
          /\ (AllRun(folder, Pending, db)' <=> AllRun(folder', Pending \cup {n}, db))
      <4> HIDE DEF Applied, AllRun
      <4> QED BY <1>3, <1>11
    <3> QED BY <2>2, <3>2, <3>3, <3>4 DEF DatabaseStands
  <2>9. None({"record", "adopt", "pushed"})
    BY <1>1, <1>2, <2>1, OnlyOne DEF Works
  <2>10. drifted # {"down"}
    BY <1>5
  <2> QED BY <1>3, <1>20, <1>21, <2>1, <2>5, <2>6, <2>7, <2>8, <2>9, <2>10 DEF Agreed
<1>26. LedgerOnce'
  BY <1>3, <1>4, <1>10, <1>11 DEF LedgerOnce
<1> QED BY <1>1, <1>2, <1>3, <1>23, <1>24, <1>25, <1>26, AloneBody DEF Fits, Body

\* Scripts beside migration.sql: what files make of a database is as it was.
LEMMA SameSql ==
  ASSUME WellFormed, TypeOK, \A m \in Names : folder'[m].sql = folder[m].sql, UNCHANGED <<ledger, db>>
  PROVE  /\ OnDisk' = OnDisk /\ Recorded' = Recorded /\ Pending' = Pending
         /\ \A n : Before(n)' = Before(n) /\ UpTo(n)' = UpTo(n)
         /\ \A names \in SUBSET Names : Build(names)' = Build(names)
         /\ \A n \in Names : Made(n)' = Made(n) /\ Build(Before(n))' = Build(Before(n)) /\ Build(UpTo(n))' = Build(UpTo(n))
         /\ Build(OnDisk)' = Build(OnDisk)
         /\ Applied(folder, Pending, db)' = Applied(folder, Pending, db)
         /\ AllRun(folder, Pending, db)' = AllRun(folder, Pending, db)
<1>1. OnDisk' = OnDisk /\ Recorded' = Recorded
  BY DEF OnDisk, Recorded
<1>2. Pending' = Pending /\ OnDisk \in SUBSET Names /\ Pending \in SUBSET Names
  BY <1>1 DEF Pending, OnDisk
<1>3. \A n : Before(n)' = Before(n) /\ UpTo(n)' = UpTo(n)
  BY <1>1 DEF Before, UpTo
<1>4. ASSUME NEW names \in SUBSET Names, NEW state
      PROVE  /\ Applied(folder', names, state) = Applied(folder, names, state)
             /\ AllRun(folder', names, state) <=> AllRun(folder, names, state)
  <2>1. \A m \in names : folder'[m].sql = folder[m].sql
    OBVIOUS
  <2> HIDE DEF Applied, AllRun
  <2> QED BY <2>1, SameApplied
<1> HIDE DEF Applied, AllRun
<1>5. \A names \in SUBSET Names : Build(names)' = Build(names)
  BY <1>4 DEF Build
<1>6. ASSUME NEW n \in Names
      PROVE  Made(n)' = Made(n) /\ Build(Before(n))' = Build(Before(n)) /\ Build(UpTo(n))' = Build(UpTo(n))
  <2>1. Before(n) \in SUBSET Names /\ UpTo(n) \in SUBSET Names
    BY <1>2 DEF Before, UpTo
  <2>2. Build(Before(n))' = Build(Before(n)) /\ Build(UpTo(n))' = Build(UpTo(n))
    BY <1>3, <1>4, <2>1 DEF Build
  <2> QED BY <2>2 DEF Made
<1>7. Build(OnDisk)' = Build(OnDisk)
  BY <1>1, <1>2, <1>4 DEF Build
<1>8. Applied(folder, Pending, db)' = Applied(folder, Pending, db)
  BY <1>2, <1>4
<1>9. AllRun(folder, Pending, db) \in BOOLEAN /\ AllRun(folder, Pending, db)' \in BOOLEAN
  BY DEF AllRun
<1>10. AllRun(folder, Pending, db)' = AllRun(folder, Pending, db)
  BY <1>2, <1>4, <1>9
<1> QED BY <1>1, <1>2, <1>3, <1>5, <1>6, <1>7, <1>8, <1>10

\* A script of the newest migration: the others are as they were.
LEMMA ScriptAgrees ==
  ASSUME WellFormed, TypeOK, Places, Body, NEW p \in Commands, StepOf(p), pc[p] \in {"down.sql", "before"},
         pc'[p] \in {"before", "generated"}, job'[p].name = job[p].name,
         \A m \in Names : folder'[m].sql = folder[m].sql,
         \A m \in Names : m # job[p].name => folder'[m] = folder[m],
         UNCHANGED <<snapshot, ledger, db, drifted>>,
         pc'[p] = "before" \/ (Followed => CanUndo(job[p].name)')
  PROVE  Agreed' /\ LedgerOnce'
<1> DEFINE n == job[p].name
<1>1. pc[p] \in Works /\ Exclusive /\ Written(p) /\ Agreed /\ LedgerOnce /\ n \in Names
  BY DEF Body, Works, Generates, Places, InPlace
<1>2. n \in Pending /\ n \notin Recorded /\ ("down" \in drifted => "fork" \in drifted)
  BY <1>1 DEF Written, Pending
<1> HIDE DEF n
<1>3. /\ OnDisk' = OnDisk /\ Recorded' = Recorded /\ Pending' = Pending
      /\ \A m \in Names : Made(m)' = Made(m) /\ Build(Before(m))' = Build(Before(m)) /\ Build(UpTo(m))' = Build(UpTo(m))
      /\ \A names \in SUBSET Names : Build(names)' = Build(names)
      /\ Build(OnDisk)' = Build(OnDisk)
      /\ Applied(folder, Pending, db)' = Applied(folder, Pending, db)
      /\ AllRun(folder, Pending, db)' = AllRun(folder, Pending, db)
  BY SameSql
<1>4. OnDisk \in SUBSET Names /\ Recorded \in SUBSET OnDisk
  BY <1>1 DEF OnDisk, LedgerOnce
<1>5. Forward' = Forward /\ Followed' = Followed /\ Adopted' = Adopted /\ Known(snapshot)' = Known(snapshot)
  BY DEF Forward, Followed, Adopted, Known
<1>6. LedgerOnce'
  BY <1>1, <1>3 DEF LedgerOnce
<1>7. \A state : Stands(state)' = Stands(state)
  BY SameStands
<1>8. \A m : (Writing(m) <=> m = n) /\ (Writing(m)' <=> pc'[p] = "before" /\ m = n)
  BY <1>1, OnlyOne DEF n
<1>9. Followed /\ FilesAgree => FilesAgree'
  <2> SUFFICES ASSUME Followed, FilesAgree, NEW m \in OnDisk
               PROVE  Made(m)' /\ (CanUndo(m)' \/ (Writing(m)' /\ m \notin Recorded'))
    BY <1>3 DEF FilesAgree
  <2>1. Made(m)'
    BY <1>3, <1>4 DEF FilesAgree
  <2>2. CASE m = n
    <3>1. CASE pc'[p] = "before"
      BY <1>2, <1>3, <1>8, <2>1, <2>2, <3>1
    <3>2. CASE pc'[p] # "before"
      <4>1. CanUndo(job[p].name)'
        BY <3>2
      <4>2. n' = n
        BY DEF n
      <4>3. CanUndo(m)'
        BY <2>2, <4>1, <4>2 DEF n, CanUndo
      <4> QED BY <2>1, <4>3
    <3> QED BY <3>1, <3>2
  <2>3. CASE m # n
    <3>1. CanUndo(m)
      BY <1>8, <2>3 DEF FilesAgree
    <3>2. folder'[m] = folder[m]
      BY <1>4, <2>3 DEF n
    <3>3. CanUndo(m)'
      BY <1>3, <1>4, <3>1, <3>2 DEF CanUndo
    <3> QED BY <2>1, <3>3
  <2> QED BY <2>2, <2>3
<1>10. LedgerAgrees => LedgerAgrees'
  <2> SUFFICES ASSUME LedgerAgrees PROVE LedgerAgrees'
    OBVIOUS
  <2>1. \A i \in DOMAIN ledger : ledger'[i] = Row(ledger[i].name)'
    <3> SUFFICES ASSUME NEW i \in DOMAIN ledger PROVE ledger[i] = Row(ledger[i].name)'
      OBVIOUS
    <3>1. ledger[i].name \in Recorded /\ ledger[i].name \in Names
      BY <1>4 DEF Recorded
    <3>2. folder'[ledger[i].name] = folder[ledger[i].name]
      BY <1>2, <3>1 DEF n
    <3> QED BY <3>2 DEF LedgerAgrees, Row
  <2>2. db' = Build(Recorded)'
    <3>1. Recorded \in SUBSET Names
      BY <1>4
    <3>2. \A names \in SUBSET Names : Applied(folder', names, {}) = Applied(folder, names, {})
      BY <1>3 DEF Build
    <3> HIDE DEF Applied
    <3>3. Build(Recorded)' = Build(Recorded)
      BY <1>3, <3>1, <3>2 DEF Build
    <3> QED BY <3>3 DEF LedgerAgrees
  <2> QED BY <1>3, <2>1, <2>2 DEF LedgerAgrees
<1>11. FilesStand' = FilesStand /\ DatabaseStands' = DatabaseStands
  <2> HIDE DEF Applied, AllRun
  <2> QED BY <1>3, <1>7 DEF FilesStand, DatabaseStands
<1>12. None({"record", "adopt", "pushed"})
  BY <1>1, OnlyOne DEF Works
<1>13. drifted # {"down"}
  BY <1>2
<1> QED BY <1>1, <1>5, <1>6, <1>9, <1>10, <1>11, <1>12, <1>13 DEF Agreed

LEMMA WriteDownKeeps ==
  ASSUME WellFormed, TypeOK, Places, Body, NEW p \in Commands, WriteDown(p)
  PROVE  Body'
<1> DEFINE n == job[p].name
           script == Diff(job[p].target, Known(job[p].prev))
<1>1. Fits(p) /\ pc[p] \in Works
  BY WriteFileFits DEF WriteDown, Works, Generates
<1>2. pc[p] = "down.sql" /\ pc'[p] = "before" /\ job' = job /\ folder' = [folder EXCEPT ![n]["down"] = script]
  BY DEF WriteDown, WriteFile, TypeOK, Goto
<1>3. UNCHANGED <<snapshot, db, ledger, code, drifted>>
  BY DEF WriteDown, WriteFile, database, Quiet, history
<1>4. Written(p) /\ Met(p) /\ n \in Names
  BY <1>2 DEF Body, Places, InPlace, Generates
<1> HIDE DEF script
<1>5. /\ folder'[n] = [folder[n] EXCEPT !["down"] = script] /\ \A m \in Names : m # n => folder'[m] = folder[m]
  BY <1>2, <1>4 DEF TypeOK
<1>6. folder'[n].sql = folder[n].sql /\ folder'[n].down = script
  BY <1>4, <1>5, FileOf DEF Folders
<1>7. \A m \in Names : folder'[m].sql = folder[m].sql
  BY <1>5, <1>6
<1>8. Agreed' /\ LedgerOnce'
  BY <1>1, <1>2, <1>3, <1>5, <1>7, ScriptAgrees DEF Fits
<1>9. /\ OnDisk' = OnDisk /\ Pending' = Pending /\ Forward' = Forward
      /\ Build(Before(n))' = Build(Before(n))
  <2>1. n' = n
    BY <1>2
  <2> HIDE DEF n
  <2>2. Before(n)' = Before(n)
    BY <1>3, <1>7, <2>1, SameSql DEF Before
  <2>3. Before(n) \in SUBSET Names /\ \A names \in SUBSET Names : Applied(folder', names, {}) = Applied(folder, names, {})
    BY <1>3, <1>7, SameSql DEF Before, OnDisk, Build
  <2> HIDE DEF Applied
  <2>4. Build(Before(n))' = Build(Before(n))
    BY <2>2, <2>3 DEF Build
  <2> QED BY <1>3, <1>7, <2>4, SameSql DEF Forward
<1>10. Written(p)'
  <2>1. Change(p)' = Change(p) /\ CodeIs(p)' = CodeIs(p)
    BY <1>2, <1>3 DEF Change, CodeIs, Known
  <2>2. folder'[job'[p].name].down = Diff(job'[p].target, Known(job'[p].prev))
    BY <1>2, <1>6 DEF script
  <2>3. /\ snapshot = job[p].target /\ job[p].sql = Change(p) /\ CodeIs(p)
        /\ job[p].name \in Pending /\ folder[job[p].name].sql = Change(p)
        /\ \A m \in OnDisk : m <= job[p].name
        /\ "down" \in drifted => "fork" \in drifted
    BY <1>2, <1>4 DEF Written
  <2>4. /\ snapshot' = job'[p].target /\ job'[p].sql = Change(p)' /\ CodeIs(p)'
        /\ job'[p].name \in Pending' /\ folder'[job'[p].name].sql = Change(p)'
        /\ \A m \in OnDisk' : m <= job'[p].name
        /\ "down" \in drifted' => "fork" \in drifted'
    BY <1>2, <1>3, <1>6, <1>9, <2>1, <2>3
  <2>5. Known(job[p].prev)' = Known(job'[p].prev)
    BY DEF Known
  <2> QED BY <1>2, <2>2, <2>4, <2>5 DEF Written
<1>11. Met(p)'
  <2>1. Forward => Known(job[p].prev) = Build(Before(n))
    BY <1>2, <1>4 DEF Met
  <2>2. Forward' => Known(job[p].prev)' = Build(Before(job[p].name))'
    BY <1>2, <1>9, <2>1 DEF Known
  <2> QED BY <1>2, <2>2 DEF Met, Generates
<1>12. "redo" \in drifted' => "down" \in drifted'
  BY <1>3 DEF Body
<1> QED BY <1>1, <1>2, <1>8, <1>10, <1>11, <1>12, AloneBody DEF Fits

LEMMA WriteBeforeKeeps ==
  ASSUME WellFormed, TypeOK, Places, Body, NEW p \in Commands, WriteBefore(p)
  PROVE  Body'
<1> DEFINE n == job[p].name
           script == Known(job[p].prev)
<1>1. Fits(p) /\ pc[p] \in Works
  BY WriteFileFits DEF WriteBefore, Works, Generates
<1>2. /\ pc[p] = "before" /\ pc'[p] = "generated" /\ job'[p] = [job[p] EXCEPT !.created = TRUE]
      /\ folder' = [folder EXCEPT ![n]["before"] = script]
  BY DEF WriteBefore, WriteFile, TypeOK, Goto, Local
<1>3. UNCHANGED <<snapshot, db, ledger, code, drifted>>
  BY DEF WriteBefore, WriteFile, database, Quiet, history
<1>4. Written(p) /\ Met(p) /\ n \in Names
  BY <1>2 DEF Body, Places, InPlace, Generates
<1>5. /\ job'[p].verb = job[p].verb /\ job'[p].target = job[p].target /\ job'[p].prev = job[p].prev
      /\ job'[p].name = job[p].name /\ job'[p].created
  BY <1>2, JobOf DEF Jobs
<1>6. script \in SUBSET Items
  BY JobOf
<1> HIDE DEF script
<1>7. /\ folder'[n] = [folder[n] EXCEPT !["before"] = script] /\ \A m \in Names : m # n => folder'[m] = folder[m]
  BY <1>2, <1>4 DEF TypeOK
<1>8. folder'[n].sql = folder[n].sql /\ folder'[n].down = folder[n].down /\ folder'[n].before = script
  BY <1>4, <1>7, FileOf DEF Folders
<1>9. \A m \in Names : folder'[m].sql = folder[m].sql
  BY <1>7, <1>8
<1>10. Followed => CanUndo(job[p].name)'
  <2> SUFFICES ASSUME Followed PROVE CanUndo(job[p].name)'
    OBVIOUS
  <2>1. Forward
    <3>1. "redo" \in drifted => "down" \in drifted
      BY DEF Body
    <3>2. "down" \in drifted => "fork" \in drifted
      BY <1>2, <1>4 DEF Written
    <3> QED BY <3>1, <3>2 DEF Followed, Forward
  <2>2. script = Build(Before(n))
    BY <1>2, <1>4, <2>1 DEF Met, script
  <2>3. Build(OnDisk) = job[p].target
    <3>1. Exclusive /\ FilesStand /\ StepOf(p)
      BY <1>1, <2>1 DEF Body, Agreed, Fits
    <3>2. snapshot = job[p].target
      BY <1>2, <1>4 DEF Written
    <3>3. Known(snapshot) = job[p].target
      BY <3>2, JobOf DEF Known, WellFormed
    <3> QED BY <1>1, <1>2, <3>1, <3>3, OnlyStands DEF FilesStand
  <2>4. UpTo(n) = OnDisk
    BY <1>2, <1>4 DEF Written, UpTo
  <2>5. folder[n].down = Diff(job[p].target, Known(job[p].prev))
    BY <1>2, <1>4 DEF Written
  <2>6. \A m \in Names : Build(Before(m))' = Build(Before(m)) /\ Build(UpTo(m))' = Build(UpTo(m))
    BY <1>3, <1>9, SameSql
  <2>7. \A m \in Names : m = n => CanUndo(m)'
    <3> SUFFICES ASSUME NEW m \in Names, m = n PROVE CanUndo(m)'
      OBVIOUS
    <3>1. Build(Before(m))' = script /\ Build(UpTo(m))' = job[p].target
      BY <2>2, <2>3, <2>4, <2>6
    <3> QED BY <1>8, <2>5, <3>1 DEF CanUndo, script
  <2>8. \A m \in Names : m = n => (CanUndo(m)' <=> CanUndo(job[p].name)')
    <3> SUFFICES ASSUME NEW m \in Names, m = n PROVE CanUndo(m)' <=> CanUndo(job[p].name)'
      OBVIOUS
    <3>1. m = job'[p].name
      BY <1>5
    <3> QED BY <3>1 DEF CanUndo
  <2> QED BY <1>4, <2>7, <2>8
<1>11. Agreed' /\ LedgerOnce'
  BY <1>1, <1>2, <1>3, <1>5, <1>7, <1>9, <1>10, ScriptAgrees DEF Fits
<1>12. Written(p)'
  <2>1. CodeIs(p)' = CodeIs(p)
    BY <1>3, <1>5 DEF CodeIs
  <2>2. CodeIs(p)' /\ snapshot' = job'[p].target
    BY <1>2, <1>3, <1>4, <1>5, <2>1 DEF Written
  <2> QED BY <1>2, <1>5, <2>2 DEF Written
<1>13. Met(p)'
  BY <1>2, <1>5 DEF Met, Generates
<1>14. "redo" \in drifted' => "down" \in drifted'
  BY <1>3 DEF Body
<1> QED BY <1>1, <1>5, <1>11, <1>12, <1>13, <1>14, AloneBody DEF Fits

\* Rows of names that are on disk and not recorded.
LEMMA Recording ==
  ASSUME WellFormed, TypeOK, LedgerOnce, NEW names \in SUBSET OnDisk, names \cap Recorded = {},
         ledger' = ledger \o Rows(names), folder' = folder
  PROVE  /\ Recorded' = Recorded \cup names
         /\ LedgerOnce'
         /\ (\A i \in DOMAIN ledger : ledger[i] = Row(ledger[i].name))
              => \A i \in DOMAIN ledger' : ledger'[i] = Row(ledger'[i].name)
         /\ ((\A i, j \in DOMAIN ledger : i < j => ledger[i].name < ledger[j].name) /\ \A m \in Recorded, n \in names : m < n)
              => \A i, j \in DOMAIN ledger' : i < j => ledger'[i].name < ledger'[j].name
<1> DEFINE size == Cardinality(names)
           sorted == Sorted(names)
           rows == Rows(names)
           old == Len(ledger)
<1>1. /\ size \in Nat /\ rows \in Seq(LedgerRows) /\ Len(rows) = size
      /\ \A i \in 1 .. size : sorted[i] \in names /\ rows[i] = Row(sorted[i])
      /\ \A i, j \in 1 .. size : i < j => sorted[i] < sorted[j]
      /\ \A n \in names : \E i \in 1 .. size : sorted[i] = n
  BY RowsAre
<1>2. OnDisk \in SUBSET Nat
  BY PendingOnDisk
<1> HIDE DEF size, sorted, rows
<1>3. ledger \in Seq(LedgerRows) /\ old \in Nat /\ DOMAIN ledger = 1 .. old
  BY DEF TypeOK
<1>4. /\ ledger' = ledger \o rows /\ DOMAIN ledger' = 1 .. old + size
      /\ \A i \in 1 .. old + size : ledger'[i] = IF i <= old THEN ledger[i] ELSE rows[i - old]
  <2>1. ledger' = ledger \o rows
    BY DEF rows
  <2>2. /\ ledger \o rows \in Seq(LedgerRows) /\ Len(ledger \o rows) = old + size
        /\ \A i \in 1 .. old + size : (ledger \o rows)[i] = IF i <= old THEN ledger[i] ELSE rows[i - old]
    <3>1. /\ ledger \o rows \in Seq(LedgerRows) /\ Len(ledger \o rows) = Len(ledger) + Len(rows)
          /\ \A i \in 1 .. Len(ledger) + Len(rows) :
               (ledger \o rows)[i] = IF i <= Len(ledger) THEN ledger[i] ELSE rows[i - Len(ledger)]
      <4>1. ledger \in Seq(LedgerRows) /\ rows \in Seq(LedgerRows)
        BY <1>1, <1>3
      <4> HIDE DEF old
      <4> QED BY <4>1, ConcatProperties
    <3> QED BY <1>1, <3>1
  <2>3. DOMAIN (ledger \o rows) = 1 .. old + size
    BY <2>2
  <2> QED BY <2>1, <2>2, <2>3
<1> HIDE DEF old
<1>5. ASSUME NEW i \in 1 .. old + size
      PROVE  \/ i \in 1 .. old /\ i <= old /\ ledger'[i] = ledger[i] /\ ledger[i].name \in Recorded
             \/ /\ i - old \in 1 .. size /\ ~(i <= old)
                /\ ledger'[i] = Row(sorted[i - old]) /\ ledger'[i].name = sorted[i - old] /\ sorted[i - old] \in names
  <2>1. CASE i <= old
    <3>1. i \in 1 .. old
      BY <1>1, <1>3, <2>1
    <3> QED BY <1>3, <1>4, <2>1, <3>1 DEF Recorded
  <2>2. CASE ~(i <= old)
    <3>1. i - old \in 1 .. size
      BY <1>1, <1>3, <2>2
    <3>2. ledger'[i] = Row(sorted[i - old]) /\ sorted[i - old] \in names
      BY <1>1, <1>4, <2>2, <3>1
    <3> QED BY <2>2, <3>1, <3>2 DEF Row
  <2> QED BY <2>1, <2>2
<1>6. Recorded' = Recorded \cup names
  <2>1. Recorded' = {ledger'[i].name : i \in 1 .. old + size}
    BY <1>4 DEF Recorded
  <2>2. ASSUME NEW i \in 1 .. old + size PROVE ledger'[i].name \in Recorded \cup names
    BY <1>5
  <2>3. ASSUME NEW n \in Recorded PROVE \E i \in 1 .. old + size : ledger'[i].name = n
    <3>1. PICK i \in 1 .. old : ledger[i].name = n
      BY <1>3 DEF Recorded
    <3>2. i \in 1 .. old + size /\ i <= old
      BY <1>1, <1>3
    <3> QED BY <1>4, <3>1, <3>2
  <2>4. ASSUME NEW n \in names PROVE \E i \in 1 .. old + size : ledger'[i].name = n
    <3>1. PICK i \in 1 .. size : sorted[i] = n
      BY <1>1
    <3> DEFINE k == i + old
    <3>2. k \in 1 .. old + size /\ ~(k <= old) /\ k - old = i
      BY <1>1, <1>3
    <3> HIDE DEF k
    <3>3. ledger'[k] = Row(n)
      BY <1>1, <1>4, <3>1, <3>2
    <3>4. ledger'[k].name = n
      BY <3>3 DEF Row
    <3> QED BY <3>2, <3>4
  <2> QED BY <2>1, <2>2, <2>3, <2>4
<1>7. LedgerOnce'
  <2>1. OnDisk' = OnDisk /\ Recorded \subseteq OnDisk
    BY DEF OnDisk, LedgerOnce
  <2>2. ASSUME NEW i \in 1 .. old + size, NEW j \in 1 .. old + size, ledger'[i].name = ledger'[j].name PROVE i = j
    <3>1. CASE i <= old /\ j <= old
      <4>1. i \in DOMAIN ledger /\ j \in DOMAIN ledger /\ ledger[i].name = ledger[j].name
        BY <1>3, <1>5, <2>2, <3>1
      <4> QED BY <4>1 DEF LedgerOnce
    <3>2. CASE ~(i <= old) /\ ~(j <= old)
      <4>1. i - old \in 1 .. size /\ j - old \in 1 .. size /\ sorted[i - old] = sorted[j - old]
            /\ sorted[i - old] \in Nat /\ sorted[j - old] \in Nat
        BY <1>2, <1>5, <2>2, <3>2
      <4>2. ~(i - old < j - old) /\ ~(j - old < i - old)
        <5> DEFINE a == i - old
                   b == j - old
        <5>1. a \in 1 .. size /\ b \in 1 .. size /\ sorted[a] = sorted[b] /\ sorted[a] \in Nat /\ sorted[b] \in Nat
          BY <4>1
        <5> HIDE DEF a, b
        <5>2. ~(a < b) /\ ~(b < a)
          BY <5>1, <1>1
        <5> QED BY <5>2 DEF a, b
      <4>3. i \in Int /\ j \in Int /\ old \in Int
        BY <1>1, <1>3
      <4> QED BY <4>2, <4>3
    <3>3. CASE i <= old /\ ~(j <= old)
      BY <1>5, <2>2, <3>3
    <3>4. CASE ~(i <= old) /\ j <= old
      BY <1>5, <2>2, <3>4
    <3> QED BY <3>1, <3>2, <3>3, <3>4
  <2> QED BY <1>4, <1>6, <2>1, <2>2 DEF LedgerOnce
<1>8. ASSUME \A i \in DOMAIN ledger : ledger[i] = Row(ledger[i].name)
      PROVE  \A i \in DOMAIN ledger' : ledger'[i] = Row(ledger'[i].name)
  <2> SUFFICES ASSUME NEW i \in 1 .. old + size PROVE ledger'[i] = Row(ledger'[i].name)
    BY <1>4
  <2> QED BY <1>3, <1>5, <1>8
<1>9. ASSUME \A i, j \in DOMAIN ledger : i < j => ledger[i].name < ledger[j].name, \A m \in Recorded, n \in names : m < n
      PROVE  \A i, j \in DOMAIN ledger' : i < j => ledger'[i].name < ledger'[j].name
  <2> SUFFICES ASSUME NEW i \in 1 .. old + size, NEW j \in 1 .. old + size, i < j
               PROVE  ledger'[i].name < ledger'[j].name
    BY <1>4
  <2>1. CASE j <= old
    <3>1. i <= old
      BY <1>1, <1>3, <2>1
    <3> QED BY <1>3, <1>5, <1>9, <2>1, <3>1
  <2>2. CASE i <= old /\ ~(j <= old)
    BY <1>5, <1>9, <2>2
  <2>3. CASE ~(i <= old)
    <3>1. ~(j <= old)
      BY <1>1, <1>3, <2>3
    <3> DEFINE a == i - old
               b == j - old
    <3>2. a \in 1 .. size /\ b \in 1 .. size /\ a < b /\ ledger'[i].name = sorted[a] /\ ledger'[j].name = sorted[b]
      <4>1. i - old < j - old
        BY <1>1, <1>3
      <4> QED BY <1>5, <2>3, <3>1, <4>1
    <3> HIDE DEF a, b
    <3> QED BY <1>1, <3>2
  <2> QED BY <2>1, <2>2, <2>3
<1> QED BY <1>6, <1>7, <1>8, <1>9

\* A deploy that is refused changes nothing, and a dev of a forward history is not.
LEMMA DeployRefused ==
  ASSUME WellFormed, TypeOK, Places, Body, NEW p \in Commands, MigrateDeploy(p),
         ~(Sound /\ ~Collides /\ AllRun(folder, Pending, db))
  PROVE  Body'
<1>1. Fits(p)
  BY MigrateDeployFits
<1>2. pc[p] = "deploy" /\ pc'[p] = "failed" /\ job' = job
  BY DEF MigrateDeploy, TypeOK, Goto
<1>3. SameDirectory /\ UNCHANGED <<drifted, code>>
  BY DEF MigrateDeploy, SameDirectory, files, database
<1>4. Exclusive'
  BY <1>1, <1>2, StillExclusive DEF Body, Fits, Busy
<1>5. Written(p)' /\ Met(p)'
  BY <1>2 DEF Written, Met, Generates
<1> QED BY <1>1, <1>2, <1>3, <1>4, <1>5, CalmBody DEF Fits, Marked

\* No pending file drops first what another creates, when the pending files run
\* and none creates a table there is.
LEMMA NotBarred ==
  ASSUME WellFormed, TypeOK, ~Collides, AllRun(folder, Pending, db)
  PROVE  ~Barred
<1> SUFFICES ASSUME Barred PROVE FALSE
  OBVIOUS
<1>1. PICK x \in Tables :
        /\ \E n \in Pending : x \in folder[n].sql.add
        /\ \E m \in Pending : x \in folder[m].sql.drop /\ \A k \in Pending : k < m => x \notin folder[k].sql.add
  BY DEF Barred
<1>2. PICK m \in Pending : x \in folder[m].sql.drop /\ \A k \in Pending : k < m => x \notin folder[k].sql.add
  BY <1>1
<1>3. Pending \in SUBSET Nat
  BY PendingOnDisk
<1>4. x \in db
  <2> HIDE DEF AllRun
  <2> QED BY <1>2, <1>3, RunsWithDropped
<1> QED BY <1>1, <1>4 DEF Collides

\* All that was pending is applied.
LEMMA DeployKeeps ==
  ASSUME WellFormed, TypeOK, Places, Body, NEW p \in Commands, MigrateDeploy(p), Orderly',
         Sound, ~Collides, AllRun(folder, Pending, db)
  PROVE  Body'
<1>1. Fits(p) /\ InPlace(p)
  BY MigrateDeployFits DEF Places
<1>2. pc[p] = "deploy" /\ pc'[p] \in {"compile", "done"} /\ job' = job
  BY DEF MigrateDeploy, AfterDeploy, TypeOK, Goto
<1>3. /\ db' = Applied(folder, Pending, db) /\ ledger' = ledger \o Rows(Pending)
      /\ drifted' = IF "down" \in drifted /\ Pending # {} THEN drifted \cup {"redo"} ELSE drifted
      /\ UNCHANGED <<snapshot, folder, code>> /\ ~HalfWritten
  <2>1. ~raced'
    BY DEF Orderly
  <2> HIDE DEF Applied, Rows
  <2> QED BY <2>1 DEF MigrateDeploy, files
<1>4. LedgerOnce /\ Exclusive /\ Agreed /\ ("redo" \in drifted => "down" \in drifted)
      /\ Recorded \subseteq OnDisk
  BY DEF Body, LedgerOnce
<1>5. /\ Pending \in SUBSET OnDisk /\ Pending \cap Recorded = {} /\ OnDisk = Recorded \cup Pending
      /\ OnDisk \in SUBSET Nat /\ Recorded \in SUBSET Nat /\ Pending \in SUBSET Nat
      /\ db \in SUBSET Items
  BY <1>4, PendingOnDisk DEF Pending, TypeOK
<1>6. /\ Recorded' = OnDisk /\ LedgerOnce' /\ OnDisk' = OnDisk
      /\ (\A i \in DOMAIN ledger : ledger[i] = Row(ledger[i].name))
              => \A i \in DOMAIN ledger' : ledger'[i] = Row(ledger'[i].name)
      /\ ((\A i, j \in DOMAIN ledger : i < j => ledger[i].name < ledger[j].name) /\ \A m \in Recorded, n \in Pending : m < n)
              => \A i, j \in DOMAIN ledger' : i < j => ledger'[i].name < ledger'[j].name
  <2> HIDE DEF Rows, Row
  <2>1. OnDisk' = OnDisk
    BY <1>3 DEF OnDisk
  <2> QED BY <1>3, <1>4, <1>5, <2>1, Recording
<1>7. Pending' = {} /\ ~Collides'
  <2>1. Pending' = {}
    BY <1>6 DEF Pending
  <2> QED BY <2>1 DEF Collides
<1>8. ~Barred
  BY NotBarred
<1>9. Pending = {} => db' = db
  BY <1>3, <1>5, NothingApplied
<1> HIDE DEF Applied, AllRun
<1>10. /\ (Forward' => Forward) /\ (Followed' => Followed) /\ (Adopted' => Adopted)
       /\ ("down" \in drifted') = ("down" \in drifted)
       /\ ("fork" \in drifted') = ("fork" \in drifted)
       /\ ("catch-up" \in drifted') = ("catch-up" \in drifted)
       /\ "redo" \in drifted' => "down" \in drifted'
       /\ drifted' = {"down"} => drifted = {"down"} /\ Pending = {}
       /\ drifted \subseteq drifted'
  <2>1. CASE "down" \in drifted /\ Pending # {}
    BY <1>3, <1>4, <2>1 DEF Forward, Followed, Adopted
  <2>2. CASE ~("down" \in drifted /\ Pending # {})
    <3>1. drifted' = drifted
      BY <1>3, <2>2
    <3> QED BY <1>4, <2>2, <3>1 DEF Forward, Followed, Adopted
  <2> QED BY <2>1, <2>2
<1>11. Exclusive' /\ StepOf(p)
  BY <1>1, <1>2, <1>4, StillExclusive DEF Fits, Busy
<1>12. ASSUME NEW q \in Commands PROVE Written(q)' /\ Met(q)'
  <2>1. CASE q = p
    <3>1. Written(p)'
      BY <1>2 DEF Written
    <3>2. Met(p)'
      BY <1>2, <1>7 DEF Met
    <3> QED BY <2>1, <3>1, <3>2
  <2>2. CASE q # p
    <3>1. pc'[q] = pc[q] /\ job'[q] = job[q] /\ Written(q) /\ Met(q) /\ InPlace(q)
      BY <1>11, <2>2 DEF StepOf, Body, Places
    <3>2. pc[q] \notin {"down.sql", "before"}
      BY <1>3 DEF HalfWritten
    <3>3. pc[q] # "catch-up"
      BY <3>1 DEF Met
    <3>4. pc[q] \notin {"pushing", "pushed", "revert", "restore"}
      <4> SUFFICES ASSUME pc[q] \in {"pushing", "pushed", "revert", "restore"} PROVE FALSE
        OBVIOUS
      <4>1. pc[q] \in Works /\ job[q].verb \notin {"generate", "dev"}
        BY <3>1 DEF Works, InPlace
      <4> QED BY <1>2, <1>4, <2>2, <4>1, WorksBusy, Alone
    <3>5. Change(q)' = Change(q) /\ CodeIs(q)' = CodeIs(q) /\ \A sql : Blocked(q, sql)' = Blocked(q, sql)
      BY <1>3, <3>1 DEF Change, CodeIs, Blocked, Known
    <3>6. Written(q)'
      BY <1>3, <1>6, <1>10, <3>1, <3>2, <3>5 DEF Written, Known
    <3>7. Met(q)'
      <4>1. pc[q] = "record" /\ Adopted' => FALSE
        BY <1>8, <1>10, <3>1 DEF Met
      <4>2. pc[q] = "adopt" /\ Adopted' => db' = job[q].target
        BY <1>9, <1>10, <3>1 DEF Met
      <4>3. pc[q] \in {"record", "adopt"} => "catch-up" \in drifted'
        BY <1>10, <3>1 DEF Met
      <4> QED BY <1>7, <3>1, <3>2, <3>3, <3>4, <4>1, <4>2, <4>3 DEF Met
    <3> QED BY <3>6, <3>7
  <2> QED BY <2>1, <2>2
<1>13. Agreed'
  <2>1. \A state : Stands(state)' = Stands(state)
    BY <1>2, <1>3, <1>11, SameStands
  <2>2. Followed => FilesAgree'
    <3> SUFFICES ASSUME Followed, NEW n \in OnDisk PROVE Made(n)' /\ CanUndo(n)'
      BY <1>6 DEF FilesAgree
    <3>1. ~Writing(n)
      BY <1>3 DEF Writing, HalfWritten
    <3>2. Made(n) /\ CanUndo(n)
      BY <1>4, <3>1 DEF Agreed, FilesAgree
    <3>3. Before(n)' = Before(n) /\ UpTo(n)' = UpTo(n)
      BY <1>6 DEF Before, UpTo
    <3>4. Build(Before(n))' = Build(Before(n)) /\ Build(UpTo(n))' = Build(UpTo(n))
      BY <1>3, <3>3 DEF Build
    <3> QED BY <1>3, <3>2, <3>4 DEF Made, CanUndo
  <2>3. Followed => LedgerAgrees'
    <3> SUFFICES ASSUME Followed PROVE LedgerAgrees'
      OBVIOUS
    <3>1. LedgerAgrees
      BY <1>4 DEF Agreed
    <3>2. \A m \in Recorded, n \in Pending : m < n
      BY <3>1 DEF LedgerAgrees, Pending
    <3>3. db' = Applied(folder, OnDisk, {})
      <4>1. db = Applied(folder, Recorded, {})
        BY <3>1 DEF LedgerAgrees, Build
      <4>2. Applied(folder, Recorded \cup Pending, {}) = Applied(folder, Pending, Applied(folder, Recorded, {}))
        BY <1>5, <3>2, BatchesApplied
      <4> QED BY <1>3, <1>5, <4>1, <4>2
    <3>4. db' = Build(Recorded)'
      BY <1>3, <1>6, <3>3 DEF Build
    <3>5. \A i \in DOMAIN ledger' : ledger'[i] = Row(ledger'[i].name)
      BY <1>6, <3>1 DEF LedgerAgrees
    <3>6. \A i, j \in DOMAIN ledger' : i < j => ledger'[i].name < ledger'[j].name
      BY <1>6, <3>1, <3>2 DEF LedgerAgrees
    <3> QED BY <1>3, <1>6, <3>4, <3>5, <3>6 DEF LedgerAgrees, Row
  <2>4. Forward => FilesStand'
    <3>1. Build(OnDisk)' = Build(OnDisk)
      BY <1>3, <1>6 DEF Build
    <3> QED BY <1>4, <2>1, <3>1 DEF Agreed, FilesStand
  <2>5. Adopted /\ None({"record", "adopt", "pushed"})' => DatabaseStands'
    <3> SUFFICES ASSUME Adopted, None({"record", "adopt", "pushed"})' PROVE DatabaseStands'
      OBVIOUS
    <3>1. None({"record", "adopt", "pushed"})
      BY <1>2, <1>11 DEF None, StepOf
    <3>2. Stands(db')
      BY <1>3, <1>4, <3>1 DEF Agreed, DatabaseStands
    <3>3. db' \in SUBSET Items
      BY <1>1 DEF Fits, TypeOK
    <3>4. Applied(folder, {}, db') = db' /\ AllRun(folder, {}, db')
      BY <3>3, NothingApplied
    <3>5. Applied(folder, Pending, db)' = db' /\ AllRun(folder, Pending, db)'
      BY <1>3, <1>7, <3>4
    <3>6. Stands(db)'
      <4>1. \A state : state = db' /\ Stands(state) => Stands(state)'
        BY <2>1
      <4>2. \A state : state = db' /\ Stands(state)' => Stands(db)'
        BY DEF Stands
      <4> QED BY <3>2, <4>1, <4>2
    <3>7. Stands(Applied(folder, Pending, db))'
      BY <3>5, <3>6 DEF Stands
    <3> QED BY <3>5, <3>7 DEF DatabaseStands
  <2>6. drifted = {"down"} /\ Pending = {} /\ None({"revert", "restore", "resolve"})' => Known(snapshot)' = db'
    <3> SUFFICES ASSUME drifted = {"down"}, Pending = {}, None({"revert", "restore", "resolve"})'
                 PROVE  Known(snapshot)' = db'
      OBVIOUS
    <3>1. None({"revert", "restore", "resolve"})
      BY <1>2, <1>11 DEF None, StepOf
    <3> QED BY <1>3, <1>4, <1>9, <3>1 DEF Agreed, Known
  <2> QED BY <1>10, <2>2, <2>3, <2>4, <2>5, <2>6 DEF Agreed
<1> QED BY <1>6, <1>10, <1>11, <1>12, <1>13 DEF Body

\* The database is brought to the target over a pending file that creates what
\* it has: no database that has not can run the pending files.
LEMMA CatchUpKeeps ==
  ASSUME WellFormed, TypeOK, Places, Body, NEW p \in Commands, CatchUp(p)
  PROVE  Body'
<1>1. Fits(p) /\ pc[p] \in Works /\ Met(p) /\ Exclusive /\ Agreed /\ LedgerOnce
  BY CatchUpFits DEF CatchUp, Works, Body
<1>2. pc[p] = "catch-up" /\ pc'[p] \in {"record", "failed"} /\ job' = job
  BY DEF CatchUp, TypeOK, Goto
<1>3. UNCHANGED <<snapshot, folder, code, ledger>>
  BY DEF CatchUp, files
<1>4. OnDisk' = OnDisk /\ Recorded' = Recorded /\ Pending' = Pending /\ LedgerOnce'
  BY <1>1, <1>3 DEF OnDisk, Recorded, Pending, LedgerOnce
<1>5. Written(p)'
  BY <1>2 DEF Written, Generates
<1>6. CASE Runs(job[p].sql, db)
  <2>1. db' = Perform(job[p].sql, db) /\ pc'[p] = "record" /\ drifted' = drifted \cup {"catch-up"}
    BY <1>6 DEF CatchUp, TypeOK, Goto
  <2>2. db' = job[p].target
    <3>1. job[p].sql = Diff(db, job[p].target)
      BY <1>1, <1>2 DEF Met
    <3>2. job[p].target \in SUBSET Items /\ db \in SUBSET Items
      BY JobOf DEF TypeOK
    <3> HIDE DEF Perform
    <3> QED BY <2>1, <3>1, <3>2, DiffLeads
  <2>3. ~Forward' /\ ~Followed' /\ drifted' # {"down"} /\ (Adopted' => Adopted)
    BY <2>1 DEF Forward, Followed, Adopted
  <2>4. Adopted => Barred
    <3> SUFFICES ASSUME Adopted PROVE Barred
      OBVIOUS
    <3>1. None({"record", "adopt", "pushed"})
      BY <1>1, <1>2, OnlyOne DEF Works, Fits
    <3>2. AllRun(folder, Pending, db) /\ Collides
      BY <1>1, <1>2, <3>1 DEF Agreed, DatabaseStands, Met
    <3>3. PICK n \in Pending, x \in Tables : x \in folder[n].sql.add /\ x \in db
      BY <3>2 DEF Collides
    <3>4. Pending \in SUBSET Nat /\ x \in Items
      BY PendingOnDisk DEF Items
    <3>5. \E m \in Pending : x \in folder[m].sql.drop /\ \A k \in Pending : k < m => x \notin folder[k].sql.add
      <4> HIDE DEF AllRun
      <4> QED BY <3>2, <3>3, <3>4, RunsOverCollision
    <3> QED BY <3>3, <3>5 DEF Barred
  <2>5. Barred' = Barred
    BY <1>3, <1>4 DEF Barred
  <2>6. Met(p)'
    <3>1. job[p].todo = Sorted(Pending)
      BY <1>1, <1>2 DEF Met
    <3> QED BY <1>2, <1>4, <2>1, <2>2, <2>3, <2>4, <2>5, <3>1 DEF Met, Generates
  <2>7. Agreed'
    <3>1. ~None({"record", "adopt", "pushed"})'
      BY <2>1 DEF None
    <3> QED BY <2>3, <3>1 DEF Agreed
  <2>8. "redo" \in drifted' => "down" \in drifted'
    BY <2>1 DEF Body
  <2> QED BY <1>1, <1>2, <1>4, <1>5, <2>6, <2>7, <2>8, AloneBody DEF Fits
<1>7. CASE ~Runs(job[p].sql, db)
  <2>1. pc'[p] = "failed" /\ SameDirectory /\ UNCHANGED <<drifted, code>>
    BY <1>3, <1>7 DEF CatchUp, TypeOK, Goto, SameDirectory
  <2>2. Met(p)'
    BY <2>1 DEF Met, Generates
  <2>3. Exclusive'
    BY <1>1, <2>1, StillExclusive DEF Fits, Busy
  <2> QED BY <1>1, <1>2, <1>5, <2>1, <2>2, <2>3, CalmBody DEF Fits, Marked
<1> QED BY <1>6, <1>7

LEMMA RecordPendingKeeps ==
  ASSUME WellFormed, TypeOK, Places, Body, NEW p \in Commands, RecordPending(p)
  PROVE  Body'
<1> DEFINE names == ToSet(job[p].todo)
<1>1. /\ Fits(p) /\ pc[p] \in Works /\ Met(p) /\ Exclusive /\ Agreed /\ LedgerOnce
      /\ "redo" \in drifted => "down" \in drifted
  BY RecordPendingFits DEF RecordPending, Works, Body
<1>2. pc[p] = "record" /\ pc'[p] \in {"adopt", "failed"} /\ job' = job
  BY DEF RecordPending, TypeOK, Goto
<1>3. UNCHANGED <<snapshot, folder, code, db, drifted>>
  BY DEF RecordPending, files, Quiet, history
<1>4. names \in SUBSET OnDisk /\ OnDisk' = OnDisk
  BY <1>2, <1>3 DEF Places, InPlace, OnDisk
<1>5. "catch-up" \in drifted
  BY <1>1, <1>2 DEF Met
<1>6. ~Forward /\ ~Followed /\ drifted # {"down"} /\ ~Forward' /\ ~Followed' /\ drifted' # {"down"} /\ Adopted' = Adopted
  BY <1>3, <1>5 DEF Forward, Followed, Adopted
<1>7. Adopted => names = Pending /\ names \cap Recorded = {} /\ db = job[p].target
  <2>1. Pending \in SUBSET Nat /\ IsFiniteSet(Pending)
    BY PendingOnDisk, NamesAreNumbers, FS_Subset
  <2>2. ToSet(Sorted(Pending)) = Pending
    BY <2>1, SortedIs
  <2>3. Adopted => job[p].todo = Sorted(Pending) /\ db = job[p].target
    BY <1>1, <1>2 DEF Met
  <2> QED BY <2>2, <2>3 DEF Pending
<1> HIDE DEF names
<1>8. Written(p)'
  BY <1>2 DEF Written, Generates
<1>9. CASE names \cap Recorded = {}
  <2>1. pc'[p] = "adopt" /\ ledger' = ledger \o Rows(names)
    <3> HIDE DEF Rows
    <3> QED BY <1>9 DEF RecordPending, TypeOK, Goto, names
  <2>2. Recorded' = Recorded \cup names /\ LedgerOnce'
    <3> HIDE DEF Rows
    <3> QED BY <1>1, <1>3, <1>4, <1>9, <2>1, Recording
  <2>3. Adopted => Pending' = {}
    BY <1>4, <1>7, <2>2 DEF Pending
  <2>4. Met(p)'
    BY <1>2, <1>3, <1>5, <1>6, <1>7, <2>1, <2>3 DEF Met, Generates
  <2>5. Agreed'
    <3>1. ~None({"record", "adopt", "pushed"})'
      BY <2>1 DEF None
    <3> QED BY <1>6, <3>1 DEF Agreed
  <2> QED BY <1>1, <1>2, <1>3, <1>8, <2>2, <2>4, <2>5, AloneBody DEF Fits
<1>10. CASE names \cap Recorded # {}
  <2>1. pc'[p] = "failed" /\ ledger' = ledger
    BY <1>10 DEF RecordPending, TypeOK, Goto, names
  <2>2. LedgerOnce'
    BY <1>1, <1>3, <2>1, SameDerived
  <2>3. Met(p)'
    BY <2>1 DEF Met, Generates
  <2>4. Agreed'
    BY <1>6, <1>7, <1>10 DEF Agreed
  <2> QED BY <1>1, <1>3, <1>8, <2>1, <2>2, <2>3, <2>4, AloneBody DEF Fits, Busy
<1> QED BY <1>9, <1>10

\* What has nothing pending and is what the snapshot says stands.
LEMMA NothingPending ==
  ASSUME TypeOK, Places, Exclusive, NEW p \in Commands, StepOf(p), pc[p] \in Works, pc'[p] \notin {"resolve", "sql"},
         Pending' = {}, db' \in SUBSET Items, Known(snapshot') = db'
  PROVE  DatabaseStands'
<1> HIDE DEF Applied, AllRun
<1>1. \A dir : Applied(dir, {}, db') = db' /\ AllRun(dir, {}, db')
  BY NothingApplied
<1>2. Applied(folder, Pending, db)' = db' /\ AllRun(folder, Pending, db)'
  BY <1>1
<1>3. \A state : state = db' => Stands(state)'
  BY OnlyStands
<1>4. Stands(Applied(folder, Pending, db))'
  BY <1>2, <1>3 DEF Stands
<1> QED BY <1>2, <1>4 DEF DatabaseStands

\* The snapshot is set to what the catch-up made of the database.
LEMMA AdoptKeeps ==
  ASSUME WellFormed, TypeOK, Places, Body, NEW p \in Commands, Adopt(p)
  PROVE  Body'
<1>1. /\ Fits(p) /\ pc[p] \in Works /\ Met(p) /\ Exclusive /\ LedgerOnce
      /\ "redo" \in drifted => "down" \in drifted
  BY SnapshotFits DEF Adopt, Works, Body
<1>2. pc[p] = "adopt" /\ pc'[p] = (IF job[p].created THEN "done" ELSE "deploy") /\ job' = job /\ snapshot' = job[p].target
  BY DEF Adopt, TypeOK, Goto
<1>3. UNCHANGED <<folder, code, db, ledger, drifted>>
  BY DEF Adopt, database, Quiet, history
<1>4. "catch-up" \in drifted /\ (Adopted => db = job[p].target /\ Pending = {})
  BY <1>1, <1>2 DEF Met
<1>5. ~Forward' /\ ~Followed' /\ drifted' # {"down"} /\ Adopted' = Adopted
  BY <1>3, <1>4 DEF Forward, Followed, Adopted
<1>6. Pending' = Pending /\ LedgerOnce'
  BY <1>1, <1>3, SameDerived
<1>7. Written(p)' /\ Met(p)'
  BY <1>2, <1>5 DEF Written, Met, Generates
<1>8. Agreed'
  <2>1. Known(snapshot') = job[p].target /\ db \in SUBSET Items
    BY <1>2, JobOf DEF Known, WellFormed, TypeOK
  <2>2. Adopted => DatabaseStands'
    BY <1>1, <1>2, <1>3, <1>4, <1>6, <2>1, NothingPending DEF Fits
  <2> QED BY <1>5, <2>2 DEF Agreed
<1> QED BY <1>1, <1>2, <1>3, <1>6, <1>7, <1>8, AloneBody DEF Fits

LEMMA PushSqlKeeps ==
  ASSUME WellFormed, TypeOK, Places, Body, NEW p \in Commands, PushSql(p)
  PROVE  Body'
<1>1. /\ Fits(p) /\ pc[p] \in Works /\ Met(p) /\ Exclusive /\ LedgerOnce
      /\ "redo" \in drifted => "down" \in drifted
  BY PushSqlFits DEF PushSql, Works, Body
<1>2. pc[p] = "pushing" /\ job' = job /\ UNCHANGED <<snapshot, folder, code, ledger>> /\ job[p].verb = "push"
  BY DEF PushSql, files, Places, InPlace
<1>3. OnDisk' = OnDisk /\ Recorded' = Recorded /\ Pending' = Pending /\ LedgerOnce'
  BY <1>1, <1>2 DEF OnDisk, Recorded, Pending, LedgerOnce
<1>4. CASE Runs(job[p].sql, db)
  <2> DEFINE way == IF job[p].created \/ Pending # {} THEN "partial" ELSE "push"
  <2>1. /\ db' = Perform(job[p].sql, db) /\ pc'[p] = (IF job[p].created THEN "done" ELSE "pushed")
        /\ drifted' = drifted \cup {way}
    BY <1>4 DEF PushSql, TypeOK, Goto
  <2>2. ~job[p].created => db' = job[p].target
    <3>1. ~job[p].created => job[p].sql = Diff(db, job[p].target)
      BY <1>1, <1>2 DEF Met
    <3>2. job[p].target \in SUBSET Items /\ db \in SUBSET Items
      BY JobOf DEF TypeOK
    <3> HIDE DEF Perform
    <3> QED BY <2>1, <3>1, <3>2, DiffLeads
  <2>3. ~Forward' /\ ~Followed' /\ drifted' # {"down"} /\ (Adopted' => ~job[p].created /\ Pending = {})
        /\ drifted' \cap {"push", "partial"} # {} /\ ("redo" \in drifted' => "down" \in drifted')
    BY <1>1, <2>1 DEF Forward, Followed, Adopted
  <2>4. Written(p)'
    BY <1>2, <2>1 DEF Written, Generates
  <2>5. Met(p)'
    BY <1>2, <1>3, <2>1, <2>2, <2>3 DEF Met, Generates
  <2>6. Agreed'
    <3>1. Adopted' => ~None({"record", "adopt", "pushed"})'
      BY <2>1, <2>3 DEF None
    <3> QED BY <2>3, <3>1 DEF Agreed
  <2> QED BY <1>1, <1>2, <1>3, <2>3, <2>4, <2>5, <2>6, AloneBody DEF Fits
<1>5. CASE ~Runs(job[p].sql, db)
  <2>1. pc'[p] = "failed" /\ SameDirectory /\ UNCHANGED <<drifted, code>>
    BY <1>2, <1>5 DEF PushSql, TypeOK, Goto, SameDirectory
  <2>2. Written(p)' /\ Met(p)'
    BY <2>1 DEF Written, Met, Generates
  <2>3. Exclusive'
    BY <1>1, <2>1, StillExclusive DEF Fits, Busy
  <2> QED BY <1>1, <1>2, <2>1, <2>2, <2>3, CalmBody DEF Fits, Marked
<1> QED BY <1>4, <1>5

\* The snapshot is set to what the push made of the database.
LEMMA PushSnapshotKeeps ==
  ASSUME WellFormed, TypeOK, Places, Body, NEW p \in Commands, PushSnapshot(p)
  PROVE  Body'
<1>1. /\ Fits(p) /\ pc[p] \in Works /\ Met(p) /\ Exclusive /\ LedgerOnce
      /\ "redo" \in drifted => "down" \in drifted
  BY SnapshotFits DEF PushSnapshot, Works, Body
<1>2. pc[p] = "pushed" /\ pc'[p] = "done" /\ job' = job /\ snapshot' = job[p].target /\ job[p].verb = "push"
  BY DEF PushSnapshot, TypeOK, Goto, Places, InPlace
<1>3. UNCHANGED <<folder, code, db, ledger, drifted>>
  BY DEF PushSnapshot, database, Quiet, history
<1>4. drifted \cap {"push", "partial"} # {} /\ (Adopted => db = job[p].target /\ Pending = {})
  BY <1>1, <1>2 DEF Met
<1>5. ~Forward' /\ ~Followed' /\ drifted' # {"down"} /\ Adopted' = Adopted
  BY <1>3, <1>4 DEF Forward, Followed, Adopted
<1>6. Pending' = Pending /\ LedgerOnce'
  BY <1>1, <1>3, SameDerived
<1>7. Written(p)' /\ Met(p)'
  BY <1>2 DEF Written, Met, Generates
<1>8. Agreed'
  <2>1. Known(snapshot') = job[p].target /\ db \in SUBSET Items
    BY <1>2, JobOf DEF Known, WellFormed, TypeOK
  <2>2. Adopted => DatabaseStands'
    BY <1>1, <1>2, <1>3, <1>4, <1>6, <2>1, NothingPending DEF Fits
  <2> QED BY <1>5, <2>2 DEF Agreed
<1> QED BY <1>1, <1>2, <1>3, <1>6, <1>7, <1>8, AloneBody DEF Fits

\* The last row is undone: what is left is what the rows before it made.
LEMMA RevertKeeps ==
  ASSUME WellFormed, TypeOK, Places, Body, NEW p \in Commands, Revert(p)
  PROVE  Body'
<1> DEFINE todo == job[p].todo
           n == job[p].todo[1]
           last == Len(ledger)
<1>1. /\ Fits(p) /\ pc[p] \in Works /\ Met(p) /\ Exclusive /\ LedgerOnce /\ Agreed /\ InPlace(p)
      /\ "redo" \in drifted => "down" \in drifted
  BY RevertFits DEF Revert, Works, Body, Places
<1>2. /\ pc[p] = "revert" /\ job[p].verb = "down" /\ UNCHANGED <<snapshot, folder, code>>
      /\ todo \in Seq(Names) /\ todo # <<>> /\ job[p].name = Last(todo)
  BY <1>1, JobOf DEF Revert, files, InPlace
<1>3. /\ last \in Nat /\ ledger \in Seq(LedgerRows) /\ Len(todo) \in 1 .. last /\ last \in DOMAIN ledger
      /\ \A i \in 1 .. Len(todo) : todo[i] = ledger[last - i + 1].name
      /\ n = ledger[last].name
  <2>1. ledger \in Seq(LedgerRows) /\ last \in Nat /\ DOMAIN ledger = 1 .. last
    BY DEF TypeOK
  <2>2. Len(todo) <= last /\ \A i \in 1 .. Len(todo) : todo[i] = ledger[last - i + 1].name
    BY <1>1, <1>2 DEF Met
  <2>3. Len(todo) \in Nat /\ Len(todo) >= 1
    BY <1>2
  <2>4. todo[1] = ledger[last - 1 + 1].name /\ last - 1 + 1 = last
    <3>1. 1 \in 1 .. Len(todo)
      BY <2>3
    <3> HIDE DEF last, todo
    <3>2. last - 1 + 1 = last
      BY <2>1
    <3> QED BY <2>2, <3>1, <3>2
  <2> QED BY <2>1, <2>2, <2>3, <2>4
<1> HIDE DEF todo, n, last
<1>4. n \in Recorded /\ n \in OnDisk /\ n \in Names /\ Recorded \subseteq OnDisk /\ OnDisk \in SUBSET Nat
  BY <1>1, <1>3, PendingOnDisk DEF Recorded, LedgerOnce
<1>5. \A m : ~Writing(m) /\ ~Writing(m)'
  <2>1. pc'[p] \notin {"down.sql", "before"}
    BY RevertRemoves DEF Goto, TypeOK
  <2> QED BY <1>1, <1>2, <2>1, OnlyOne DEF Fits
<1>6. ASSUME Followed
      PROVE  /\ CanUndo(n) /\ ledger[last] = Row(n) /\ db = Build(UpTo(n)) /\ UpTo(n) = Recorded
             /\ \A m \in Recorded : m <= n
             /\ Runs(folder[n].down, db) /\ Perform(folder[n].down, db) = Build(Before(n)) /\ folder[n].down \in SqlFiles
  <2>1. FilesAgree /\ LedgerAgrees
    BY <1>1, <1>6 DEF Agreed
  <2>2. CanUndo(n) /\ ledger[last] = Row(n)
    BY <1>3, <1>4, <1>5, <2>1 DEF FilesAgree, LedgerAgrees
  <2>3. \A m \in Recorded : m <= n
    <3> SUFFICES ASSUME NEW m \in Recorded PROVE m <= n
      OBVIOUS
    <3>1. PICK i \in DOMAIN ledger : ledger[i].name = m
      BY DEF Recorded
    <3>2. i = last \/ i < last
      <4>1. i \in 1 .. last /\ last \in Nat
        BY <1>3 DEF last
      <4> QED BY <4>1
    <3>3. m \in Nat /\ n \in Nat
      BY <1>4
    <3>4. i < last => m < n
      BY <1>3, <2>1, <3>1 DEF LedgerAgrees
    <3> QED BY <1>3, <3>1, <3>2, <3>3, <3>4
  <2>4. UpTo(n) = Recorded
    <3>1. ASSUME NEW m \in OnDisk, m <= n, m \notin Recorded PROVE FALSE
      <4>1. n < m
        BY <1>4, <2>1, <3>1 DEF LedgerAgrees
      <4>2. m \in Nat /\ n \in Nat
        BY <1>4
      <4> QED BY <3>1, <4>1, <4>2
    <3> QED BY <1>4, <2>3, <3>1 DEF UpTo
  <2>5. db = Build(UpTo(n))
    BY <2>1, <2>4 DEF LedgerAgrees
  <2>6. folder[n].down = Diff(Build(UpTo(n)), Build(Before(n)))
    BY <2>2 DEF CanUndo
  <2>7. Build(UpTo(n)) \in SUBSET Items /\ Build(Before(n)) \in SUBSET Items
    BY AppliedItems DEF Build
  <2>8. Runs(folder[n].down, db) /\ Perform(folder[n].down, db) = Build(Before(n)) /\ folder[n].down \in SqlFiles
    <3> HIDE DEF Runs, Perform, Build
    <3> QED BY <2>5, <2>6, <2>7, DiffLeads
  <2> QED BY <2>2, <2>3, <2>4, <2>5, <2>8
<1>7. CASE Goto(p, "failed") /\ UNCHANGED <<database, job, drifted>>
           /\ ~( /\ \E i \in DOMAIN ledger : ledger[i].name = n /\ ledger[i].down = folder[n].down
                 /\ folder[n].down # NoFile /\ Runs(folder[n].down, db))
  <2>1. pc'[p] = "failed" /\ SameDirectory /\ UNCHANGED <<drifted, code>>
    BY <1>2, <1>7 DEF TypeOK, Goto, SameDirectory, database
  <2>2. drifted # {"down"}
    <3> SUFFICES ASSUME drifted = {"down"} PROVE FALSE
      OBVIOUS
    <3>1. Followed
      BY DEF Followed
    <3>2. ledger[last].down = folder[n].down /\ Runs(folder[n].down, db) /\ folder[n].down # NoFile
      BY <1>6, <3>1, SqlIsSome DEF Row
    <3> QED BY <1>3, <1>7, <3>2
  <2>3. Written(p)' /\ Met(p)'
    BY <2>1 DEF Written, Met, Generates
  <2>4. Exclusive'
    BY <1>1, <2>1, StillExclusive DEF Fits, Busy
  <2> QED BY <1>1, <1>2, <2>1, <2>2, <2>3, <2>4, CalmBody DEF Fits, Marked
<1>8. ASSUME NEW i \in DOMAIN ledger, ledger[i].name = n, folder[n].down \in SqlFiles,
             db' = Perform(folder[n].down, db), ledger' = RemoveAt(ledger, i),
             Local(p, [job[p] EXCEPT !.todo = Tail(todo)]),
             Goto(p, IF Len(todo) = 1 THEN "restore" ELSE "revert"), drifted' = drifted \cup {"down"}
      PROVE  Body'
  <2>1. i = last
    BY <1>1, <1>3, <1>8 DEF LedgerOnce
  <2>2. /\ ledger' \in Seq(LedgerRows) /\ Len(ledger') = last - 1
        /\ \A j \in 1 .. last - 1 : ledger'[j] = ledger[j]
        /\ DOMAIN ledger' = 1 .. last - 1 /\ DOMAIN ledger = 1 .. last
    <3>1. /\ ledger' \in Seq(LedgerRows) /\ Len(ledger') = Len(ledger) - 1
          /\ \A j \in 1 .. Len(ledger) - 1 : ledger'[j] = IF j < i THEN ledger[j] ELSE ledger[j + 1]
      BY <1>3, <1>8, RemovedFrom
    <3>2. DOMAIN ledger = 1 .. Len(ledger) /\ DOMAIN ledger' = 1 .. Len(ledger')
      BY <1>3, <3>1
    <3>3. ASSUME NEW j \in 1 .. last - 1 PROVE ledger'[j] = ledger[j]
      <4>1. j < i /\ j \in 1 .. Len(ledger) - 1
        BY <1>3, <2>1 DEF last
      <4> QED BY <3>1, <4>1
    <3> QED BY <3>1, <3>2, <3>3 DEF last
  <2>3. Recorded' = Recorded \ {n} /\ OnDisk' = OnDisk
    <3>1. \A j \in 1 .. last : (ledger[j].name = n <=> j = last) /\ (j # last <=> j \in 1 .. last - 1)
      <4> SUFFICES ASSUME NEW j \in 1 .. last PROVE (ledger[j].name = n <=> j = last) /\ (j # last <=> j \in 1 .. last - 1)
        OBVIOUS
      <4>1. ledger[j].name = n <=> j = last
        BY <1>1, <1>3, <2>2 DEF LedgerOnce
      <4>2. j # last <=> j \in 1 .. last - 1
        BY <1>3
      <4> QED BY <4>1, <4>2
    <3>2. Recorded = {ledger[j].name : j \in 1 .. last} /\ Recorded' = {ledger'[j].name : j \in 1 .. last - 1}
      BY <2>2 DEF Recorded
    <3>3. Recorded' = {ledger[j].name : j \in 1 .. last - 1}
      BY <2>2, <3>2
    <3>4. \A j \in 1 .. last - 1 : j \in 1 .. last
      BY <1>3
    <3>5. Recorded' = Recorded \ {n}
      BY <3>1, <3>2, <3>3, <3>4
    <3> QED BY <1>2, <3>5 DEF OnDisk
  <2>4. LedgerOnce'
    <3>1. \A j, k \in 1 .. last - 1 : ledger'[j].name = ledger'[k].name => j = k
      <4> SUFFICES ASSUME NEW j \in 1 .. last - 1, NEW k \in 1 .. last - 1, ledger[j].name = ledger[k].name PROVE j = k
        BY <2>2
      <4>1. j \in DOMAIN ledger /\ k \in DOMAIN ledger
        BY <1>3, <2>2
      <4> QED BY <1>1, <4>1 DEF LedgerOnce
    <3> QED BY <1>4, <2>2, <2>3, <3>1 DEF LedgerOnce
  <2>5. /\ job'[p].todo = Tail(todo) /\ job'[p].verb = "down" /\ job'[p].name = job[p].name
        /\ pc'[p] = IF Len(todo) = 1 THEN "restore" ELSE "revert"
    <3>1. job'[p] = [job[p] EXCEPT !.todo = Tail(todo)] /\ pc'[p] = IF Len(todo) = 1 THEN "restore" ELSE "revert"
      BY <1>8 DEF Local, Goto, TypeOK
    <3> QED BY <1>2, <3>1, JobOf DEF Jobs
  <2>6. ~Forward' /\ ~Adopted' /\ (Followed' => Followed) /\ "down" \in drifted'
    BY <1>8 DEF Forward, Followed, Adopted
  <2>7. Followed => db' = Build(Before(n)) /\ Before(n) = Recorded'
    <3> SUFFICES ASSUME Followed PROVE db' = Build(Before(n)) /\ Before(n) = Recorded'
      OBVIOUS
    <3>1. db' = Build(Before(n))
      <4> HIDE DEF Perform, Build
      <4> QED BY <1>6, <1>8
    <3>2. UpTo(n) = Recorded
      BY <1>6
    <3>3. Before(n) = UpTo(n) \ {n}
      <4>1. ASSUME NEW m \in OnDisk PROVE m < n <=> m <= n /\ m # n
        <5>1. m \in Nat /\ n \in Nat
          BY <1>4
        <5> QED BY <5>1
      <4> QED BY <4>1 DEF Before, UpTo
    <3> QED BY <2>3, <3>1, <3>2, <3>3
  <2>8. Agreed'
    <3>1. Followed => FilesAgree'
      <4> SUFFICES ASSUME Followed, NEW m \in OnDisk PROVE Made(m)' /\ CanUndo(m)'
        BY <2>3 DEF FilesAgree
      <4>1. Made(m) /\ CanUndo(m)
        BY <1>1, <1>5 DEF Agreed, FilesAgree
      <4>2. Before(m)' = Before(m) /\ UpTo(m)' = UpTo(m)
        BY <2>3 DEF Before, UpTo
      <4>3. Build(Before(m))' = Build(Before(m)) /\ Build(UpTo(m))' = Build(UpTo(m))
        <5> HIDE DEF Applied
        <5> QED BY <1>2, <4>2 DEF Build
      <4> QED BY <1>2, <4>1, <4>3 DEF Made, CanUndo
    <3>2. Followed => LedgerAgrees'
      <4> SUFFICES ASSUME Followed PROVE LedgerAgrees'
        OBVIOUS
      <4>1. LedgerAgrees
        BY <1>1 DEF Agreed
      <4>2. \A j \in 1 .. last - 1 : j \in 1 .. last
        BY <1>3
      <4>3. \A j \in DOMAIN ledger' : ledger'[j] = Row(ledger'[j].name)
        BY <2>2, <4>1, <4>2 DEF LedgerAgrees
      <4>4. \A j, k \in DOMAIN ledger' : j < k => ledger'[j].name < ledger'[k].name
        BY <2>2, <4>1, <4>2 DEF LedgerAgrees
      <4>5. \A k \in OnDisk' \ Recorded' : \A m \in Recorded' : m < k
        <5> SUFFICES ASSUME NEW k \in OnDisk, k = n \/ k \notin Recorded, NEW m \in Recorded, m # n PROVE m < k
          BY <2>3
        <5>1. CASE k = n
          <6>1. m <= n /\ m \in Nat /\ n \in Nat
            BY <1>4, <1>6
          <6> QED BY <5>1, <6>1
        <5>2. CASE k \notin Recorded
          BY <4>1, <5>2 DEF LedgerAgrees
        <5> QED BY <5>1, <5>2
      <4>6. db' = Build(Recorded)'
        <5>1. db' = Applied(folder, Recorded', {})
          <6> HIDE DEF Applied
          <6> QED BY <2>7 DEF Build
        <5> HIDE DEF Applied
        <5> QED BY <1>2, <5>1 DEF Build
      <4> QED BY <1>2, <4>3, <4>4, <4>5, <4>6 DEF LedgerAgrees, Row
    <3>3. ~None({"revert", "restore", "resolve"})'
      BY <2>5 DEF None
    <3> QED BY <2>6, <3>1, <3>2, <3>3 DEF Agreed
  <2>9. Written(p)'
    BY <2>5 DEF Written, Generates
  <2>10. Met(p)'
    <3>1. CASE Len(todo) = 1
      <4>1. job[p].name = n
        BY <1>2, <3>1 DEF Last, n, todo
      <4>2. Followed' => job'[p].name \in OnDisk' /\ db' = Build(Before(job[p].name))'
        <5>1. Before(job[p].name)' = Before(n)
          BY <2>3, <2>5, <4>1 DEF Before
        <5>2. Build(Before(job[p].name))' = Applied(folder, Before(n), {})
          <6> HIDE DEF Applied
          <6> QED BY <1>2, <5>1 DEF Build
        <5>3. Followed' => db' = Applied(folder, Before(n), {})
          <6> HIDE DEF Applied
          <6> QED BY <2>6, <2>7 DEF Build
        <5> QED BY <1>4, <2>3, <2>5, <4>1, <5>2, <5>3
      <4> QED BY <2>5, <2>6, <3>1, <4>2 DEF Met, Generates
    <3>2. CASE Len(todo) # 1
      <4>1. Len(Tail(todo)) = Len(todo) - 1 /\ \A k \in 1 .. Len(todo) - 1 : Tail(todo)[k] = todo[k + 1]
        BY <1>2
      <4>2. DOMAIN Tail(todo) = 1 .. Len(todo) - 1
        BY <1>2
      <4>3. ASSUME NEW k \in 1 .. Len(todo) - 1 PROVE Tail(todo)[k] = ledger'[Len(ledger') - k + 1].name
        <5>1. k + 1 \in 1 .. Len(todo) /\ last - (k + 1) + 1 = last - 1 - k + 1 /\ last - 1 - k + 1 \in 1 .. last - 1
          BY <1>3
        <5>2. Tail(todo)[k] = ledger[last - 1 - k + 1].name
          BY <1>3, <4>1, <5>1
        <5> QED BY <2>2, <5>1, <5>2
      <4>4. Len(Tail(todo)) <= Len(ledger')
        BY <1>3, <2>2, <4>1
      <4>5. Len(job'[p].todo) <= Len(ledger')
            /\ \A k \in DOMAIN job'[p].todo : job'[p].todo[k] = ledger'[Len(ledger') - k + 1].name
        BY <2>5, <4>2, <4>3, <4>4
      <4> QED BY <2>5, <3>2, <4>5 DEF Met, Generates
    <3> QED BY <3>1, <3>2
  <2> QED BY <1>1, <1>2, <2>4, <2>5, <2>6, <2>8, <2>9, <2>10, AloneBody DEF Fits
<1> QED BY <1>7, <1>8, RevertRemoves DEF n, todo

\* The snapshot before the oldest migration reverted is what the database has.
LEMMA RestoreKeeps ==
  ASSUME WellFormed, TypeOK, Places, Body, NEW p \in Commands, Restore(p)
  PROVE  Body'
<1> DEFINE n == job[p].name
<1>1. /\ Fits(p) /\ pc[p] \in Works /\ Met(p) /\ Exclusive /\ LedgerOnce /\ Agreed /\ InPlace(p)
      /\ "redo" \in drifted => "down" \in drifted
  BY SnapshotFits DEF Restore, Works, Body, Places
<1>2. /\ pc[p] = "restore" /\ job[p].verb = "down" /\ n \in Names /\ job' = job
      /\ UNCHANGED <<folder, code, db, ledger, drifted>>
  BY <1>1 DEF Restore, InPlace, database, Quiet, history
<1>3. "down" \in drifted
  BY <1>1, <1>2 DEF Met
<1>4. drifted = {"down"} => folder[n].before = db
  <2> SUFFICES ASSUME drifted = {"down"} PROVE folder[n].before = db
    OBVIOUS
  <2>1. Followed
    BY DEF Followed
  <2>2. n \in OnDisk /\ db = Build(Before(n))
    BY <1>1, <1>2, <2>1 DEF Met
  <2>3. ~Writing(n)
    BY <1>1, <1>2, OnlyOne DEF Fits
  <2>4. CanUndo(n)
    BY <1>1, <2>1, <2>2, <2>3 DEF Agreed, FilesAgree
  <2> QED BY <2>2, <2>4 DEF CanUndo
<1>5. db \in SUBSET Items /\ db # NoFile
  BY DEF TypeOK, WellFormed
<1>6. CASE folder[n].before # NoFile
  <2>1. snapshot' = folder[n].before /\ pc'[p] = "done"
    BY <1>6 DEF Restore, TypeOK, Goto
  <2>2. Written(p)' /\ Met(p)'
    BY <2>1 DEF Written, Met, Generates
  <2>3. /\ OnDisk' = OnDisk /\ Recorded' = Recorded /\ Pending' = Pending /\ LedgerOnce' = LedgerOnce
        /\ LedgerAgrees' = LedgerAgrees /\ \A m : Made(m)' = Made(m) /\ CanUndo(m)' = CanUndo(m)
    BY <1>2, SameDerived
  <2>4. \A m : Writing(m)' = Writing(m)
    BY <1>1, <1>2, <2>1, SameWriting DEF Fits
  <2>5. FilesAgree' = FilesAgree
    BY <2>3, <2>4 DEF FilesAgree
  <2>6. drifted = {"down"} => Known(snapshot)' = db'
    BY <1>2, <1>4, <1>5, <2>1 DEF Known
  <2>7. ~Forward' /\ ~Adopted' /\ Followed' = Followed
    BY <1>2, <1>3 DEF Forward, Adopted, Followed
  <2>8. Agreed'
    BY <1>1, <1>2, <2>3, <2>5, <2>6, <2>7 DEF Agreed
  <2> QED BY <1>1, <1>2, <2>1, <2>2, <2>3, <2>8, AloneBody DEF Fits
<1>7. CASE folder[n].before = NoFile
  <2>1. pc'[p] = "failed" /\ SameDirectory /\ UNCHANGED <<drifted, code>>
    BY <1>2, <1>7 DEF Restore, TypeOK, Goto, SameDirectory
  <2>2. drifted # {"down"}
    BY <1>4, <1>5, <1>7
  <2>3. Written(p)' /\ Met(p)'
    BY <2>1 DEF Written, Met, Generates
  <2>4. Exclusive'
    BY <1>1, <2>1, StillExclusive DEF Fits, Busy
  <2> QED BY <1>1, <1>2, <2>1, <2>2, <2>3, <2>4, CalmBody DEF Fits, Marked
<1> QED BY <1>6, <1>7

\* Everything is dropped, and every folder is pending.
LEMMA ResetKeeps ==
  ASSUME WellFormed, TypeOK, Places, Body, NEW p \in Commands, Reset(p)
  PROVE  Body'
<1>1. /\ Fits(p) /\ pc[p] \in Works /\ Exclusive /\ LedgerOnce /\ Agreed /\ InPlace(p)
      /\ "redo" \in drifted => "down" \in drifted
  BY ResetFits DEF Reset, Works, Body, Places
<1>2. /\ pc[p] = "reset" /\ pc'[p] \in {"done", "deploy"} /\ job[p].verb = "reset" /\ job' = job
      /\ db' = {} /\ ledger' = <<>> /\ drifted' = drifted \cup {"reset"} /\ UNCHANGED <<snapshot, folder, code>>
  BY <1>1 DEF Reset, InPlace, files, Goto, TypeOK
<1>3. OnDisk' = OnDisk /\ Recorded' = {} /\ LedgerOnce'
  <2>1. OnDisk' = OnDisk /\ Recorded' = {}
    BY <1>2 DEF OnDisk, Recorded
  <2> QED BY <1>2, <2>1 DEF LedgerOnce
<1>4. Written(p)' /\ Met(p)'
  BY <1>2 DEF Written, Met, Generates
<1>5. ~Adopted' /\ drifted' # {"down"} /\ (Forward' => Forward) /\ (Followed' => Followed)
      /\ ("redo" \in drifted' => "down" \in drifted')
  BY <1>1, <1>2 DEF Forward, Adopted, Followed
<1>6. Agreed'
  <2>1. \A m : Writing(m)' = Writing(m)
    BY <1>1, <1>2, SameWriting DEF Fits
  <2>2. \A state : Stands(state)' = Stands(state)
    BY <1>1, <1>2, SameStands DEF Fits
  <2> HIDE DEF Applied
  <2>3. \A names : Build(names)' = Build(names)
    BY <1>2 DEF Build
  <2>4. FilesAgree => FilesAgree'
    <3> SUFFICES ASSUME FilesAgree, NEW m \in OnDisk
                 PROVE  Made(m)' /\ (CanUndo(m)' \/ (Writing(m)' /\ m \notin Recorded'))
      BY <1>3 DEF FilesAgree
    <3>1. Before(m)' = Before(m) /\ UpTo(m)' = UpTo(m)
      BY <1>3 DEF Before, UpTo
    <3>2. Build(Before(m))' = Build(Before(m)) /\ Build(UpTo(m))' = Build(UpTo(m))
      BY <1>2, <3>1 DEF Build
    <3>3. Made(m)' = Made(m) /\ CanUndo(m)' = CanUndo(m)
      BY <1>2, <3>2 DEF Made, CanUndo
    <3> QED BY <1>3, <2>1, <3>3 DEF FilesAgree
  <2>5. LedgerAgrees'
    <3>1. Applied(folder, {}, {}) = {}
      BY NothingApplied
    <3>2. Build(Recorded)' = {}
      BY <1>2, <1>3, <3>1 DEF Build
    <3> QED BY <1>2, <1>3, <3>2 DEF LedgerAgrees
  <2>6. FilesStand => FilesStand'
    <3>1. Build(OnDisk)' = Build(OnDisk)
      BY <1>2, <1>3 DEF Build
    <3> QED BY <2>2, <3>1 DEF FilesStand
  <2> QED BY <1>1, <1>5, <2>4, <2>5, <2>6 DEF Agreed
<1> QED BY <1>1, <1>2, <1>3, <1>4, <1>5, <1>6, AloneBody DEF Fits

\* schema.ts is read once by a command; an edit changes nothing else.
LEMMA EditKeeps ==
  ASSUME TypeOK, Places, Body, Edit \/ UNCHANGED vars
  PROVE  Body'
<1>1. UNCHANGED <<code, snapshot, folder, db, ledger, pc, job, drifted>>
  BY DEF Edit, vars, files, database, history
<1>2. SameDirectory /\ UNCHANGED <<code, drifted>>
  BY <1>1 DEF SameDirectory
<1>3. \A q \in Commands : Written(q)' /\ Met(q)'
  BY <1>1, <1>2, SameTold DEF Body
<1>4. Exclusive'
  BY <1>1 DEF Body, Exclusive, Busy
<1>5. /\ OnDisk' = OnDisk /\ Recorded' = Recorded /\ Pending' = Pending /\ LedgerAgrees' = LedgerAgrees
      /\ LedgerOnce' = LedgerOnce
      /\ \A n : Made(n)' = Made(n) /\ CanUndo(n)' = CanUndo(n)
      /\ Build(OnDisk)' = Build(OnDisk)
  BY <1>1, SameDerived
<1>6. Forward' = Forward /\ Followed' = Followed /\ Adopted' = Adopted /\ Known(snapshot)' = Known(snapshot)
  BY <1>1 DEF Forward, Followed, Adopted, Known
<1>7. /\ \A state : Stands(state)' = Stands(state)
      /\ \A n : Writing(n)' = Writing(n)
      /\ \A places : None(places)' = None(places)
  BY <1>1 DEF Stands, Writing, None, Known
<1>8. FilesAgree' = FilesAgree /\ FilesStand' = FilesStand
  BY <1>5, <1>7 DEF FilesAgree, FilesStand
<1>9. DatabaseStands' = DatabaseStands
  <2> HIDE DEF Applied, AllRun
  <2>1. Applied(folder, Pending, db)' = Applied(folder, Pending, db) /\ AllRun(folder, Pending, db)' = AllRun(folder, Pending, db)
    BY <1>1, <1>5
  <2> QED BY <1>7, <2>1 DEF DatabaseStands
<1>10. Agreed'
  BY <1>1, <1>5, <1>6, <1>7, <1>8, <1>9 DEF Body, Agreed
<1> QED BY <1>1, <1>3, <1>4, <1>5, <1>10 DEF Body

\* The invariant holds: of an orderly project, folders, ledger, database and
\* snapshot tell the same story, and so does what every command has read.
LEMMA BodyKept ==
  ASSUME WellFormed, TypeOK, Places, Body, NEW p \in Commands, StepsOf(p), Orderly'
  PROVE  Body'
<1>1. CASE Start(p) \/ Lock(p) \/ End(p) \/ Crash(p) \/ Target(p)
  BY <1>1, StartKeeps, LockKeeps, LeavingKeeps, CompileKeeps
<1>2. CASE Generating(p)
  BY <1>2, CompileKeeps, PreviewKeeps, PromptKeeps, WriteCodeKeeps, WriteSnapshotKeeps, ResolveNameKeeps, WriteSqlKeeps,
     WriteDownKeeps, WriteBeforeKeeps, GeneratedKeeps DEF Generating
<1>3. CASE MigrateDeploy(p)
  BY <1>3, DeployKeeps, DeployRefused
<1>4. CASE Reconcile(p) \/ CatchUp(p) \/ RecordPending(p) \/ Adopt(p) \/ Down(p) \/ Revert(p) \/ Restore(p)
             \/ Reset(p) \/ Push(p) \/ PushSql(p) \/ PushSnapshot(p)
  BY <1>4, ReconcileKeeps, CatchUpKeeps, RecordPendingKeeps, AdoptKeeps, DownKeeps, RevertKeeps, RestoreKeeps, ResetKeeps,
     PushKeeps, PushSqlKeeps, PushSnapshotKeeps
<1> QED BY <1>1, <1>2, <1>3, <1>4 DEF StepsOf, Migrating

\* An empty project over an empty database.
LEMMA InvariantStarts ==
  ASSUME WellFormed, Init, TypeOK, Places
  PROVE  Body
<1>1. /\ \A p \in Commands : pc[p] = "idle"
      /\ snapshot = NoFile /\ db = {} /\ ledger = <<>> /\ drifted = {} /\ \A n \in Names : folder[n].sql = NoFile
  BY DEF Init, Unwritten
<1>2. OnDisk = {} /\ Recorded = {} /\ Pending = {}
  BY <1>1 DEF OnDisk, Recorded, Pending
<1>3. Exclusive /\ LedgerOnce
  BY <1>1, <1>2 DEF Exclusive, Busy, LedgerOnce
<1>4. \A p \in Commands : Written(p) /\ Met(p)
  BY <1>1, NothingToTell DEF Works, Generates
<1>5. Stands({}) /\ Known(snapshot) = {}
  BY <1>1 DEF Stands, Known
<1>6. Agreed
  <2>1. Applied(folder, {}, {}) = {} /\ AllRun(folder, {}, {})
    BY NothingApplied
  <2> HIDE DEF Applied, AllRun
  <2>2. Build(OnDisk) = {} /\ Build(Recorded) = {}
    BY <1>2, <2>1 DEF Build
  <2>3. FilesAgree /\ LedgerAgrees
    BY <1>1, <1>2, <2>2 DEF FilesAgree, LedgerAgrees
  <2>4. FilesStand /\ DatabaseStands
    BY <1>1, <1>2, <1>5, <2>1, <2>2 DEF FilesStand, DatabaseStands
  <2> QED BY <1>1, <1>5, <2>3, <2>4 DEF Agreed
<1> QED BY <1>1, <1>3, <1>4, <1>6 DEF Body

\* Types and places always, and as long as the history is orderly what commands
\* know, folders, ledger, snapshot and database agree.
THEOREM WorkflowInvariant == ASSUME WellFormed PROVE Spec => []IInv
<1>1. Init => IInv
  <2> SUFFICES ASSUME Init PROVE IInv
    OBVIOUS
  <2>1. TypeOK /\ Places
    BY StartsTyped
  <2> QED BY <2>1, InvariantStarts DEF IInv
<1>2. IInv /\ [Next]_vars => IInv'
  <2> SUFFICES ASSUME IInv, [Next]_vars PROVE IInv'
    OBVIOUS
  <2>1. TypeOK /\ Places /\ (Orderly => Body)
    BY DEF IInv
  <2>2. ASSUME NEW p \in Commands, StepsOf(p) PROVE IInv'
    <3>1. TypeOK' /\ Places'
      BY <2>1, <2>2, StepFits DEF Fits
    <3>2. Orderly' => Body'
      BY <2>1, <2>2, WasOrderly, BodyKept
    <3> QED BY <3>1, <3>2 DEF IInv
  <2>3. CASE Edit \/ UNCHANGED vars
    <3>1. TypeOK' /\ Places'
      BY <2>1, <2>3, EditFits
    <3>2. Orderly' = Orderly
      BY <2>3 DEF Orderly, Edit, vars, history
    <3>3. Orderly => Body'
      BY <2>1, <2>3, EditKeeps
    <3> QED BY <3>1, <3>2, <3>3 DEF IInv
  <2> QED BY <2>2, <2>3 DEF Next, StepsOf, Rest
<1> QED BY <1>1, <1>2, PTL DEF Spec
---------------------------------------------------------------------------
(* What the invariant says at rest, and of a step. *)

\* At rest no command is between two writes.
LEMMA RestSays ==
  ASSUME WellFormed, TypeOK, Body, AtRest
  PROVE  /\ Forward => Build(OnDisk) = Known(snapshot)
         /\ Adopted => Applied(folder, Pending, db) = Known(snapshot)
         /\ drifted = {"down"} => Known(snapshot) = db
         /\ \A n : ~Writing(n)
<1>1. /\ \A places \in SUBSET Works : None(places)
      /\ \A state : Stands(state) => state = Known(snapshot)
      /\ \A n : ~Writing(n)
  BY DEF AtRest, None, Stands, Writing, Works, Generates
<1>2. None({"record", "adopt", "pushed"}) /\ None({"revert", "restore", "resolve"})
  BY <1>1 DEF Works, Generates
<1> HIDE DEF Applied, AllRun
<1> QED BY <1>1, <1>2 DEF Body, Agreed, FilesStand, DatabaseStands

\* At rest the migration files build the snapshot, and the snapshot describes
\* the database, in every state of an orderly project.
LEMMA FilesInStep ==
  ASSUME WellFormed, IInv
  PROVE  FilesSnapshotDatabase
<1>1. AtRest /\ Orderly /\ Forward => Build(OnDisk) = Known(snapshot)
  BY RestSays DEF IInv
<1>2. ASSUME AtRest, Orderly, Pending = {}, Adopted \/ drifted = {"reset"} PROVE Known(snapshot) = db
  <2>1. TypeOK /\ Body /\ db \in SUBSET Items
    BY <1>2 DEF IInv, TypeOK
  <2>2. CASE Adopted
    BY <1>2, <2>1, <2>2, RestSays, NothingApplied
  <2>3. CASE drifted = {"reset"}
    <3>1. Forward /\ Followed
      BY <2>3 DEF Forward, Followed
    <3>2. Recorded = OnDisk
      BY <1>2, <2>1 DEF Body, LedgerOnce, Pending
    <3> QED BY <1>1, <1>2, <2>1, <3>1, <3>2 DEF Body, Agreed, LedgerAgrees
  <2> QED BY <1>2, <2>2, <2>3
<1>3. AtRest /\ Orderly /\ drifted = {"down"} => Known(snapshot) = db
  BY RestSays DEF IInv
<1> QED BY <1>1, <1>2, <1>3 DEF FilesSnapshotDatabase, MigrationsBuildSnapshot, SnapshotIsDatabase, Forward, Adopted

\* What the last row says and what its folder holds.
LEMMA LastRow ==
  ASSUME WellFormed, TypeOK, LedgerOnce, FilesAgree, LedgerAgrees, ledger # <<>>, \A n : ~Writing(n)
  PROVE  LET row == Last(ledger)
         IN /\ folder[row.name].down = row.down /\ row.down # NoFile /\ folder[row.name].before # NoFile
            /\ Runs(row.down, db)
            /\ Perform(row.down, db) = folder[row.name].before
<1> DEFINE last == Len(ledger)
           row == ledger[last]
           n == row.name
<1>1. ledger \in Seq(LedgerRows) /\ last \in Nat /\ last \in DOMAIN ledger /\ DOMAIN ledger = 1 .. last
  BY DEF TypeOK
<1>2. n \in Recorded /\ n \in OnDisk /\ Recorded \subseteq OnDisk /\ OnDisk \in SUBSET Nat
  BY <1>1, PendingOnDisk DEF Recorded, LedgerOnce
<1>3. row = Row(n) /\ CanUndo(n)
  BY <1>1, <1>2 DEF LedgerAgrees, FilesAgree
<1> HIDE DEF row, last, n
<1>4. \A m \in Recorded : m <= n
  <2> SUFFICES ASSUME NEW m \in Recorded PROVE m <= n
    OBVIOUS
  <2>1. PICK i \in DOMAIN ledger : ledger[i].name = m
    BY DEF Recorded
  <2>2. i = last \/ i < last
    BY <1>1
  <2>3. m \in Nat /\ n \in Nat
    BY <1>2
  <2>4. i < last => m < n
    BY <1>1, <2>1 DEF LedgerAgrees, n, row
  <2> QED BY <2>1, <2>2, <2>3, <2>4 DEF n, row
<1>5. UpTo(n) = Recorded
  <2>1. ASSUME NEW m \in OnDisk, m <= n, m \notin Recorded PROVE FALSE
    <3>1. n < m
      BY <1>2, <2>1 DEF LedgerAgrees
    <3>2. m \in Nat /\ n \in Nat
      BY <1>2
    <3> QED BY <2>1, <3>1, <3>2
  <2> QED BY <1>2, <1>4, <2>1 DEF UpTo
<1>6. db = Build(UpTo(n))
  BY <1>5 DEF LedgerAgrees
<1>7. folder[n].down = Diff(Build(UpTo(n)), Build(Before(n))) /\ folder[n].before = Build(Before(n))
  BY <1>3 DEF CanUndo
<1>8. Build(UpTo(n)) \in SUBSET Items /\ Build(Before(n)) \in SUBSET Items
  BY AppliedItems DEF Build
<1>9. row.down = folder[n].down /\ Last(ledger) = row /\ row.name = n
  BY <1>3 DEF Row, Last, row, last, n
<1>10. /\ Runs(folder[n].down, db) /\ Perform(folder[n].down, db) = folder[n].before
       /\ folder[n].down # NoFile /\ folder[n].before # NoFile
  <2>1. folder[n].before # NoFile
    <3> HIDE DEF Build
    <3> QED BY <1>7, <1>8 DEF WellFormed
  <2>2. folder[n].down \in SqlFiles /\ Runs(folder[n].down, db) /\ Perform(folder[n].down, db) = Build(Before(n))
    <3> HIDE DEF Build, Runs, Perform
    <3> QED BY <1>6, <1>7, <1>8, DiffLeads
  <2> HIDE DEF Build, Runs, Perform
  <2> QED BY <1>7, <2>1, <2>2, SqlIsSome
<1> HIDE DEF Runs, Perform
<1> QED BY <1>9, <1>10

\* What is applied has a down.sql that leads back.
LEMMA CanBeReverted ==
  ASSUME WellFormed, IInv
  PROVE  Revertible
<1> SUFFICES ASSUME AtRest, Orderly, Followed, ledger # <<>>
             PROVE  LET row == Last(ledger)
                    IN /\ folder[row.name].down = row.down /\ row.down # NoFile /\ folder[row.name].before # NoFile
                       /\ Runs(row.down, db)
                       /\ Perform(row.down, db) = folder[row.name].before
  BY DEF Revertible, AppliedCanBeReverted, Followed
<1>1. TypeOK /\ Body
  BY DEF IInv
<1>2. LedgerOnce /\ FilesAgree /\ LedgerAgrees /\ \A n : ~Writing(n)
  BY <1>1, RestSays DEF Body, Agreed
<1> QED BY <1>1, <1>2, LastRow

\* What is pending runs on what is recorded, and gives what the files build.
LEMMA PendingApply ==
  ASSUME WellFormed, TypeOK, LedgerOnce, FilesAgree, LedgerAgrees
  PROVE  Sound /\ AllRun(folder, Pending, db) /\ Applied(folder, Pending, db) = Build(OnDisk)
<1>1. /\ Pending \in SUBSET Nat /\ Recorded \in SUBSET Nat /\ OnDisk = Recorded \cup Pending /\ OnDisk \in SUBSET Nat
      /\ \A m \in Recorded, n \in Pending : m < n
  BY PendingOnDisk DEF LedgerOnce, LedgerAgrees, Pending
<1>2. db = Applied(folder, Recorded, {})
  BY DEF LedgerAgrees, Build
<1> HIDE DEF Applied, Runs
<1>3. ASSUME NEW late \in SUBSET Pending
      PROVE  Applied(folder, late, db) = Applied(folder, Recorded \cup late, {})
  <2>1. late \in SUBSET Nat /\ \A m \in Recorded, n \in late : m < n
    BY <1>1
  <2> QED BY <1>1, <1>2, <2>1, BatchesApplied
<1>4. Applied(folder, Pending, db) = Build(OnDisk)
  BY <1>1, <1>3 DEF Build
<1>5. ASSUME NEW n \in Pending PROVE Runs(folder[n].sql, Applied(folder, {m \in Pending : m < n}, db))
  <2>1. Recorded \cup {m \in Pending : m < n} = Before(n)
    BY <1>1 DEF Before
  <2>2. Applied(folder, {m \in Pending : m < n}, db) = Build(Before(n))
    BY <1>3, <2>1 DEF Build
  <2>3. folder[n].sql = Diff(Build(Before(n)), Build(UpTo(n)))
    BY <1>1 DEF FilesAgree, Made
  <2>4. Build(Before(n)) \in SUBSET Items /\ Build(UpTo(n)) \in SUBSET Items
    BY AppliedItems DEF Build
  <2> QED BY <2>2, <2>3, <2>4, DiffLeads
<1>6. Sound
  BY DEF Sound, LedgerAgrees, Row
<1> QED BY <1>4, <1>5, <1>6 DEF AllRun

\* A step of a dev that nothing went past.
LEMMA DevStep ==
  ASSUME WellFormed, IInv, NEW p \in Commands, StepsOf(p), job[p].verb = "dev", Orderly', Forward'
  PROVE  /\ ~(pc[p] = "deploy" /\ pc'[p] = "failed")
         /\ (pc[p] # "done" /\ pc'[p] = "done" /\ ~Blocked(p, Diff(db', job[p].target))) =>
              db' = job[p].target /\ \A f \in DOMAIN code : code'[f] = db'
<1>1. TypeOK /\ Places /\ Body /\ InPlace(p) /\ Written(p) /\ Met(p) /\ LedgerOnce /\ Exclusive
  BY WasOrderly DEF IInv, Body, Places
<1>2. drifted \subseteq drifted'
  BY DEF StepsOf, Generating, Migrating, Start, Lock, End, Target, Crash, Compile, Preview, Prompt, WriteCode, WriteSnapshot,
         ResolveName, WriteSql, WriteDown, WriteBefore, WriteFile, Generated, MigrateDeploy, Reconcile, CatchUp, RecordPending,
         Adopt, Down, Revert, Restore, Reset, Push, PushSql, PushSnapshot, Quiet, history
<1>3. Forward /\ Followed
  BY <1>2 DEF Forward, Followed
<1>4. FilesAgree /\ LedgerAgrees /\ FilesStand
  BY <1>1, <1>3 DEF Body, Agreed
<1>5. Sound /\ AllRun(folder, Pending, db) /\ Applied(folder, Pending, db) = Build(OnDisk)
  BY <1>1, <1>4, PendingApply
<1>6. Busy(p) /\ pc[p] \notin {"resolve", "sql"} => Build(OnDisk) = Known(snapshot)
  <2> SUFFICES ASSUME Busy(p), pc[p] \notin {"resolve", "sql"} PROVE Build(OnDisk) = Known(snapshot)
    OBVIOUS
  <2>1. ASSUME NEW q \in Commands, q # p PROVE pc[q] \notin {"resolve", "sql"}
    <3>1. pc[q] \notin Works
      BY <1>1, <2>1, Alone
    <3> QED BY <3>1 DEF Works, Generates
  <2> QED BY <1>4, <2>1 DEF FilesStand, Stands
<1>7. Known(snapshot) \in SUBSET Items /\ job[p].target \in SUBSET Items /\ code \in [1 .. LastFile -> Manifests]
      /\ Known(job[p].target) = job[p].target
  BY <1>1, JobOf DEF TypeOK, Known, WellFormed
<1>8. CASE pc[p] = "deploy"
  <2>1. MigrateDeploy(p) \/ pc'[p] = "idle"
    BY <1>1, <1>8 DEF StepsOf, Generating, Migrating, Start, Lock, End, Target, Crash, Compile, Preview, Prompt, WriteCode, WriteSnapshot,
         ResolveName, WriteSql, WriteDown, WriteBefore, WriteFile, Generated, Reconcile, CatchUp, RecordPending,
         Adopt, Down, Revert, Restore, Reset, Push, PushSql, PushSnapshot, Goto, TypeOK
  <2>2. CASE pc'[p] = "idle"
    BY <2>2
  <2>3. CASE MigrateDeploy(p)
    <3>1. ~Collides
      BY <1>1, <1>3, <1>8 DEF Met
    <3>2. db' = Build(OnDisk) /\ pc'[p] = AfterDeploy(p) /\ UNCHANGED code
      <4> HIDE DEF Applied, AllRun
      <4> QED BY <1>1, <1>5, <2>3, <3>1 DEF MigrateDeploy, TypeOK, Goto, files
    <3>3. job[p].created => Build(OnDisk) = job[p].target /\ CodeIs(p)
      <4>1. Busy(p)
        BY <1>8 DEF Busy
      <4>2. job[p].created => snapshot = job[p].target /\ CodeIs(p)
        BY <1>1, <1>8 DEF Written
      <4> QED BY <1>6, <1>7, <1>8, <4>1, <4>2
    <3> QED BY <1>7, <1>8, <3>2, <3>3 DEF AfterDeploy, CodeIs
  <2> QED BY <2>1, <2>2, <2>3
<1>9. CASE pc[p] # "deploy" /\ pc[p] # "done" /\ pc'[p] = "done"
  <2>1. \/ Generated(p) /\ ~job[p].created
        \/ pc[p] = "adopt"
    <3>1. ASSUME Start(p) PROVE FALSE
      <4>1. PICK verb \in Verbs : pc'[p] = First(verb)
        BY <1>1, <3>1 DEF Start, TypeOK, Goto
      <4> QED BY <1>9, <4>1 DEF First, WellFormed
    <3>2. ASSUME Lock(p) \/ End(p) \/ Target(p) \/ Crash(p) PROVE FALSE
      BY <1>1, <1>9, <3>2 DEF Lock, End, Target, Crash, TypeOK, Goto
    <3>3. ASSUME Generating(p) PROVE Generated(p) /\ ~job[p].created
      <4>1. Generated(p)
        BY <1>1, <1>9, <3>3 DEF Generating, Compile, Preview, Prompt, WriteCode, WriteSnapshot, ResolveName, WriteSql,
           WriteDown, WriteBefore, WriteFile, TypeOK, Goto, AfterCode
      <4> QED BY <1>1, <1>9, <4>1 DEF Generated, TypeOK, Goto
    <3>4. ASSUME Migrating(p) PROVE pc[p] = "adopt"
      <4>1. pc[p] \notin {"down", "revert", "restore", "reset", "push", "pushing", "pushed"}
        BY <1>1 DEF InPlace
      <4>2. Reconcile(p) \/ CatchUp(p) \/ RecordPending(p) \/ Adopt(p)
        BY <1>9, <3>4, <4>1 DEF Migrating, MigrateDeploy, Down, Revert, Restore, Reset, Push, PushSql, PushSnapshot
      <4> QED BY <1>1, <1>9, <4>2 DEF Reconcile, CatchUp, RecordPending, Adopt, TypeOK, Goto
    <3> QED BY <3>1, <3>2, <3>3, <3>4 DEF StepsOf
  <2>2. pc[p] # "adopt"
    BY <1>1, <1>3 DEF Met, Forward
  <2>3. CASE Generated(p) /\ ~job[p].created
    <3>1. pc[p] = "generated" /\ db' = db /\ code' = code
      BY <2>3 DEF Generated, files, database
    <3>2. /\ Known(job[p].prev) = Known(snapshot)
          /\ Blocked(p, Change(p)) \/ job[p].target = Known(job[p].prev)
          /\ CodeIs(p)
      BY <1>1, <2>3, <3>1 DEF Written
    <3>3. Pending = {}
      BY <1>1, <1>3, <2>3, <3>1 DEF Met
    <3>4. db = Known(snapshot)
      <4>1. Applied(folder, Pending, db) = db
        BY <1>1, <3>3, NothingApplied DEF TypeOK
      <4>2. Busy(p)
        BY <3>1 DEF Busy
      <4> HIDE DEF Applied
      <4> QED BY <1>5, <1>6, <3>1, <4>1, <4>2
    <3>5. Change(p) = Diff(db', job[p].target)
      BY <3>1, <3>2, <3>4 DEF Change
    <3> QED BY <1>7, <3>1, <3>2, <3>4, <3>5 DEF CodeIs
  <2> QED BY <2>1, <2>2, <2>3
<1> QED BY <1>8, <1>9

\* The step in which a migrate dev ends.
LEMMA DevAlways ==
  ASSUME WellFormed, IInv, [Next]_vars
  PROVE  DevReaches
<1>1. CASE \E q \in Commands : StepsOf(q)
  <2>1. PICK q \in Commands : StepsOf(q)
    BY <1>1
  <2> SUFFICES ASSUME NEW p \in Commands, job[p].verb = "dev", Orderly', Forward'
               PROVE  /\ ~(pc[p] = "deploy" /\ pc'[p] = "failed")
                      /\ (pc[p] # "done" /\ pc'[p] = "done" /\ ~Blocked(p, Diff(db', job[p].target))) =>
                           db' = job[p].target /\ \A f \in DOMAIN code : code'[f] = db'
    BY DEF DevReaches, Forward
  <2>2. CASE p = q
    BY <2>1, <2>2, DevStep
  <2>3. CASE p # q
    <3>1. pc'[p] = pc[p]
      BY <2>1, <2>3, StepFits DEF IInv, Fits, StepOf
    <3> QED BY <3>1
  <2> QED BY <2>2, <2>3
<1>2. CASE Edit \/ UNCHANGED vars
  <2>1. pc' = pc
    BY <1>2 DEF Edit, vars
  <2> QED BY <2>1 DEF DevReaches
<1> QED BY <1>1, <1>2 DEF Next, StepsOf, Rest

\* At rest the migration files build the snapshot, and the snapshot describes
\* the database.
THEOREM FilesStayInStep == ASSUME WellFormed PROVE Spec => []FilesSnapshotDatabase
<1>1. IInv => FilesSnapshotDatabase
  BY FilesInStep
<1> QED BY <1>1, WorkflowInvariant, PTL

\* What is applied can be reverted.
THEOREM AppliedStayRevertible == ASSUME WellFormed PROVE Spec => []Revertible
<1>1. IInv => Revertible
  BY CanBeReverted
<1> QED BY <1>1, WorkflowInvariant, PTL

\* A migrate dev that nothing went past reaches the schema it compiled.
THEOREM DevAlwaysReaches == ASSUME WellFormed PROVE Spec => DevReachesSchema
<1>1. IInv /\ [Next]_vars => [DevReaches]_vars
  BY DevAlways
<1> QED BY <1>1, WorkflowInvariant, PTL DEF Spec, DevReachesSchema
================================================================================
