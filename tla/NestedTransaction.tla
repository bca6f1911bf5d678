-------------------------- MODULE NestedTransaction --------------------------
(***************************************************************************)
(* What docs/transactions.md promises of db.$transaction: a tree of blocks *)
(* (the outer callback is block 0, every nested $transaction a child), each *)
(* of which ends kept or dropped.  The outer transaction makes durable, in  *)
(* one step, exactly the writes whose whole chain of blocks was kept.       *)
(***************************************************************************)
EXTENDS Naturals

CONSTANTS N,       \* nested blocks are 1..N
          Writes   \* the writes the callbacks may issue

VARIABLES status,  \* block -> "idle" | "open" | "kept" | "dropped"
          parent,  \* nested block -> the block that opened it
          owner,   \* write -> the block that issued it, or Nobody
          durable  \* the writes the database will show to others

vars == <<status, parent, owner, durable>>

Nested == 1..N
Blocks == 0..N
Nobody == N + 1

\* The open blocks that are b or were opened, directly or not, by b.
Child(b, c) == c \in Nested /\ parent[c] = b
Settled(b) == \A c \in Nested : Child(b, c) => status[c] \in {"idle", "kept", "dropped"}

\* b's writes reach the outer transaction: b and all blocks above it are kept.
\* parent[c] < c, so the chain is a function on the block numbers.
Reaches ==
  LET r[b \in Blocks] == b = 0 \/ (status[b] = "kept" /\ r[parent[b]])
  IN r

Surviving == {w \in Writes : owner[w] \in Blocks /\ Reaches[owner[w]]}

Init ==
  /\ status = [b \in Blocks |-> "idle"]
  /\ parent = [c \in Nested |-> 0]
  /\ owner = [w \in Writes |-> Nobody]
  /\ durable = {}

Start ==
  /\ status[0] = "idle"
  /\ status' = [status EXCEPT ![0] = "open"]
  /\ UNCHANGED <<parent, owner, durable>>

\* The outer transaction could not even start.
Refuse ==
  /\ status[0] = "idle"
  /\ status' = [status EXCEPT ![0] = "dropped"]
  /\ UNCHANGED <<parent, owner, durable>>

Write(b, w) ==
  /\ status[b] = "open"
  /\ owner[w] = Nobody
  /\ owner' = [owner EXCEPT ![w] = b]
  /\ UNCHANGED <<status, parent, durable>>

\* A nested block opens, or is refused and counts as dropped.
Nest(b, c) ==
  /\ status[b] = "open" /\ status[c] = "idle" /\ b < c
  /\ parent' = [parent EXCEPT ![c] = b]
  /\ \E s \in {"open", "dropped"} : status' = [status EXCEPT ![c] = s]
  /\ UNCHANGED <<owner, durable>>

Close(c) ==
  /\ status[c] = "open" /\ Settled(c)
  /\ \E s \in {"kept", "dropped"} : status' = [status EXCEPT ![c] = s]
  /\ UNCHANGED <<parent, owner, durable>>

Commit ==
  /\ status[0] = "open" /\ Settled(0)
  /\ status' = [status EXCEPT ![0] = "kept"]
  /\ durable' = Surviving
  /\ UNCHANGED <<parent, owner>>

\* The outer transaction reports failure: nothing is durable, unless the
\* answer to COMMIT was lost, and then all of it is.
Abort ==
  /\ status[0] = "open" /\ Settled(0)
  /\ status' = [status EXCEPT ![0] = "dropped"]
  /\ durable' \in {{}, Surviving}
  /\ UNCHANGED <<parent, owner>>

Next ==
  \/ Start \/ Refuse \/ Commit \/ Abort
  \/ \E b \in Blocks : \/ \E w \in Writes : Write(b, w)
                       \/ \E c \in Nested : Nest(b, c)
  \/ \E c \in Nested : Close(c)

Spec == Init /\ [][Next]_vars
=============================================================================
