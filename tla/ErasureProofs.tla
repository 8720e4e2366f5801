--------------------------- MODULE ErasureProofs ---------------------------
(***************************************************************************)
(* Erasure for every database whose references are as ErasureAssumption    *)
(* says: its types, that an account goes whole or not at all, and that the *)
(* deletion erase_user makes is never refused.                             *)
(***************************************************************************)
EXTENDS Erasure, TLAPS

(* Nothing is deleted outside the open statement and what follows it. *)
RestInv ==
  pc \notin {"deleting", "deleted"} => gone = {} /\ cut = {} /\ acting = {} /\ acted = {}

(* What is deleted is the account's, and the account is there until the end. *)
GoneInv ==
  /\ gone \subseteq Account
  /\ pc \in {"deleting", "deleted"} => Alice \in gone
  /\ pc # "committed" => Stored \subseteq rows
  /\ Stored \ Account \subseteq rows
  /\ pc = "committed" => rows \cap Account = {}

(* No key to the users row is optional. *)
LEMMA UserKeysCascade == \A c \in Nulls : c[2] # "user_id"
<1>1. \A c \in Constraints : c.action = "null" => c.column # "user_id"
  BY DEF Constraints, UserKeys, Cascade, SetNull
<1> QED
  BY <1>1 DEF Nulls

LEMMA OwnerKey ==
  ASSUME NEW r, Owned(r)
  PROVE  \E l \in Refs : l.row = r /\ l.to = Alice /\ l.column \notin Nulls
  BY UserKeysCascade DEF Owned

(* The first level is that of the users row alone. *)
LevelInv == pc = "deleting" => Alice \in acted \/ acting = {Alice}

(* A row that stays refers to no row whose foreign keys have acted. *)
SettledInv ==
  \A l \in Refs : l.row \in rows \ gone /\ l \notin nulled \cup cut =>
    /\ l.to \notin acted
    /\ l.to \in acting => l.column \in due
    /\ pc = "deleted" => l.to \notin gone

(* Only optional references become null, and the others lead to rows. *)
ReferenceInv ==
  /\ \A l \in nulled \cup cut : l.column \in Nulls
  /\ \A l \in Refs : l.row \in rows /\ l \notin nulled => l.to \in rows

(* Behind a closed door no append-only row is deleted. *)
DoorInv ==
  /\ pc = "deleted" => ~door
  /\ pc = "deleting" /\ ~door => \A l \in Refs : l.row \in gone => l.column[1] \notin AppendOnly

(* A row that is being written keeps the deletion waiting. *)
WriterInv ==
  writer.at = "inserted" =>
    /\ pc \notin {"deleting", "deleted", "committed"}
    /\ Parents \subseteq rows

IInv ==
  TypeOK /\ RestInv /\ GoneInv /\ LevelInv /\ SettledInv /\ ReferenceInv /\ DoorInv /\ WriterInv

-----------------------------------------------------------------------------
LEMMA InitInv == Init => IInv
  BY ErasureAssumption
  DEF Init, IInv, TypeOK, RestInv, GoneInv, LevelInv, SettledInv, ReferenceInv, DoorInv,
      WriterInv, Links

(* What the other request writes refers to the users row. *)
LEMMA WriterRefersToUser == Alice \in Parents /\ Writes \in Rows
  BY ErasureAssumption DEF Parents, Writes, Owned

(* A rollback, or a commit that is not one of the deletion, clears it all. *)
LEMMA RollBackInv ==
  ASSUME IInv, NEW to, RollBack(to), to \in {"refused", "denied", "deadlocked"},
         pc \in {"deleting", "deleted"}, UNCHANGED <<rows, nulled, writer>>
  PROVE  IInv'
  BY DEF IInv, TypeOK, RestInv, GoneInv, LevelInv, SettledInv, ReferenceInv, DoorInv,
         WriterInv, Links, Parents, Writes, RollBack

LEMMA OpenInv == IInv /\ Open => IInv'
  BY DEF IInv, TypeOK, RestInv, GoneInv, LevelInv, SettledInv, ReferenceInv, DoorInv,
         WriterInv, Links, Parents, Writes, Open, level

(* The rows of the users row's keys are due; nobody is writing. *)
LEMMA DeleteUserInv == IInv /\ DeleteUser => IInv'
  BY ErasureAssumption
  DEF IInv, TypeOK, RestInv, GoneInv, LevelInv, SettledInv, ReferenceInv, DoorInv,
      WriterInv, Links, Parents, Writes, DeleteUser, Carried, Shared

(* A foreign key that acts takes its rows, or cuts its references. *)
LEMMA ActInv == ASSUME IInv, NEW c \in due, Act(c) PROVE IInv'
  BY ErasureAssumption
  DEF IInv, TypeOK, RestInv, GoneInv, LevelInv, SettledInv, ReferenceInv, DoorInv,
      WriterInv, Links, Parents, Writes, Act, Matching, Rejected, Queue

LEMMA NextLevelInv == IInv /\ NextLevel => IInv'
  BY ErasureAssumption
  DEF IInv, TypeOK, RestInv, GoneInv, LevelInv, SettledInv, ReferenceInv, DoorInv,
      WriterInv, Links, Parents, Writes, NextLevel, Matching, Waiting, Carried

LEMMA DeletedInv == IInv /\ Deleted => IInv'
  BY DEF IInv, TypeOK, RestInv, GoneInv, LevelInv, SettledInv, ReferenceInv, DoorInv,
      WriterInv, Links, Parents, Writes, Deleted, Matching, Waiting, CloseDoor

(* At the end nothing that stays is the account's: an owned row refers to   *)
(* the users row, the others to an owned row.                               *)
LEMMA NothingIsLeft ==
  ASSUME IInv, pc = "deleted"
  PROVE  (rows \ gone) \cap Account = {}
<1>1. ASSUME NEW r \in rows \ gone, Owned(r)
      PROVE  FALSE
  BY <1>1, OwnerKey DEF IInv, SettledInv, ReferenceInv, GoneInv
<1>2. ASSUME NEW r \in rows \ gone, NEW l \in Refs, l.row = r, l.column \notin Nulls,
             Owned(l.to)
      PROVE  FALSE
  <2>1. l.to \in rows \ gone
    BY <1>2 DEF IInv, SettledInv, ReferenceInv
  <2> QED
    BY <1>1, <1>2, <2>1
<1>3. Alice \in gone
  BY DEF IInv, GoneInv
<1> QED
  BY <1>1, <1>2, <1>3, ErasureAssumption

LEMMA CommitInv == IInv /\ Commit => IInv'
<1> SUFFICES ASSUME IInv, Commit
             PROVE  IInv'
  OBVIOUS
<1>1. rows' \cap Account = {}
  BY NothingIsLeft DEF Commit, Apply
<1>2. ReferenceInv'
  BY ErasureAssumption
  DEF IInv, ReferenceInv, SettledInv, Commit, Apply, RollBack
<1>3. GoneInv'
  BY <1>1 DEF IInv, GoneInv, Commit, Apply, RollBack
<1> QED
  BY <1>2, <1>3 DEF IInv, TypeOK, RestInv, LevelInv, SettledInv, DoorInv, WriterInv, Links,
     Parents, Writes, Commit, Apply, RollBack

(* What ends the deletion otherwise is a rollback. *)
LEMMA FailingInv ==
  ASSUME IInv, Meddle \/ Abandon \/ \E c \in due : Refuse(c)
  PROVE  IInv'
<1>1. CASE Meddle
  <2>1. RollBack("denied") /\ UNCHANGED <<rows, nulled, writer>> /\ pc = "deleted"
    BY <1>1 DEF Meddle, IInv, DoorInv
  <2> QED
    BY <2>1, RollBackInv
<1>2. CASE Abandon
  BY <1>2, RollBackInv DEF Abandon
<1>3. CASE \E c \in due : Refuse(c)
  BY <1>3, RollBackInv DEF Refuse
<1> QED
  BY <1>1, <1>2, <1>3

(* What the other request does before its commit touches its own record     *)
(* alone.                                                                   *)
LEMMA WriterMoves ==
  ASSUME IInv, UNCHANGED <<rows, nulled, deleting>>, writer'.kind = writer.kind,
         writer' \in [kind : {"correct", "turn", "none"},
                     at : {"start", "touched", "inserted", "done", "failed"},
                     holds : SUBSET Touched],
         WriterInv'
  PROVE  IInv'
  BY DEF IInv, TypeOK, RestInv, GoneInv, LevelInv, SettledInv, ReferenceInv, DoorInv,
         Links, deleting, level

(* A request that ends holds nothing, whatever it was doing. *)
LEMMA LeaveMoves ==
  ASSUME TypeOK, NEW at \in {"done", "failed"}, Leave(at)
  PROVE  /\ writer'.kind = writer.kind /\ writer'.at = at
         /\ writer' \in [kind : {"correct", "turn", "none"},
                        at : {"start", "touched", "inserted", "done", "failed"},
                        holds : SUBSET Touched]
  BY DEF TypeOK, Leave

LEMMA TouchInv == ASSUME IInv, NEW row \in Touched, Touch(row) PROVE IInv'
<1>1. CASE row \in rows
  <2>1. writer' = [writer EXCEPT !.at = "touched", !.holds = @ \cup {row}]
    BY <1>1 DEF Touch
  <2>2. /\ writer'.kind = writer.kind /\ writer'.at = "touched"
        /\ writer' \in [kind : {"correct", "turn", "none"},
                       at : {"start", "touched", "inserted", "done", "failed"},
                       holds : SUBSET Touched]
    BY <2>1 DEF IInv, TypeOK
  <2>3. WriterInv'
    BY <2>2 DEF WriterInv
  <2> QED
    BY <2>2, <2>3, WriterMoves DEF Touch
<1>2. CASE row \notin rows
  <2>1. Leave("failed")
    BY <1>2 DEF Touch
  <2>2. WriterInv'
    BY <2>1, LeaveMoves DEF WriterInv, IInv
  <2> QED
    BY <2>1, <2>2, LeaveMoves, WriterMoves DEF Touch, IInv
<1> QED
  BY <1>1, <1>2

(* Nothing is inserted once the users row is deleted. *)
LEMMA InsertInv == IInv /\ Insert => IInv'
<1> SUFFICES ASSUME IInv, Insert
             PROVE  IInv'
  OBVIOUS
<1>1. CASE Parents \subseteq rows
  <2>1. writer' = [writer EXCEPT !.at = "inserted"]
    BY <1>1 DEF Insert
  <2>2. /\ writer'.kind = writer.kind /\ writer'.at = "inserted"
        /\ writer' \in [kind : {"correct", "turn", "none"},
                       at : {"start", "touched", "inserted", "done", "failed"},
                       holds : SUBSET Touched]
    BY <2>1 DEF IInv, TypeOK
  <2>3. Parents' = Parents
    BY <2>2 DEF Parents, Writes
  <2>4. pc \notin {"deleting", "deleted", "committed"}
    BY <1>1, WriterRefersToUser, ErasureAssumption DEF Insert, IInv, GoneInv
  <2>5. WriterInv'
    BY <1>1, <2>3, <2>4 DEF WriterInv, Insert, deleting
  <2> QED
    BY <2>2, <2>5, WriterMoves DEF Insert
<1>2. CASE ~ (Parents \subseteq rows)
  <2>1. Leave("failed")
    BY <1>2 DEF Insert
  <2>2. WriterInv'
    BY <2>1, LeaveMoves DEF WriterInv, IInv
  <2> QED
    BY <2>1, <2>2, LeaveMoves, WriterMoves DEF Insert, IInv
<1> QED
  BY <1>1, <1>2

(* The row that is committed refers to rows that are there. *)
LEMMA CommitWriteInv == IInv /\ CommitWrite => IInv'
<1> SUFFICES ASSUME IInv, CommitWrite
             PROVE  IInv'
  OBVIOUS
<1>1. /\ rows' = rows \cup {Writes} /\ Leave("done") /\ UNCHANGED <<nulled, deleting>>
      /\ pc \notin {"deleting", "deleted", "committed"} /\ Parents \subseteq rows
      /\ Writes \in Rows
  BY WriterRefersToUser DEF CommitWrite, IInv, WriterInv
<1>2. gone = {} /\ cut = {} /\ acting = {} /\ acted = {}
  BY <1>1 DEF IInv, RestInv
<1>3. TypeOK'
  BY <1>1, <1>2, LeaveMoves DEF IInv, TypeOK, Links, deleting, level
<1>4. ReferenceInv'
  BY <1>1 DEF IInv, ReferenceInv, Parents, deleting, level
<1>5. GoneInv' /\ RestInv' /\ LevelInv' /\ SettledInv' /\ DoorInv'
  BY <1>1, <1>2, <1>3
  DEF IInv, TypeOK, RestInv, GoneInv, LevelInv, SettledInv, DoorInv, deleting, level
<1>6. WriterInv'
  BY <1>1, LeaveMoves DEF IInv, WriterInv
<1> QED
  BY <1>3, <1>4, <1>5, <1>6 DEF IInv

LEMMA BreakDeadlockInv == IInv /\ BreakDeadlock => IInv'
<1> SUFFICES ASSUME IInv, BreakDeadlock
             PROVE  IInv'
  OBVIOUS
<1>1. CASE RollBack("deadlocked") /\ UNCHANGED writer
  BY <1>1, RollBackInv DEF BreakDeadlock, DeadlockDetected
<1>2. CASE Leave("failed") /\ UNCHANGED deleting
  BY <1>2 DEF IInv, TypeOK, RestInv, GoneInv, LevelInv, SettledInv, ReferenceInv, DoorInv,
     WriterInv, Links, Parents, Writes, BreakDeadlock, Leave, deleting, level
<1> QED
  BY <1>1, <1>2 DEF BreakDeadlock

LEMMA StutterInv == IInv /\ UNCHANGED vars => IInv'
  BY DEF IInv, TypeOK, RestInv, GoneInv, LevelInv, SettledInv, ReferenceInv, DoorInv,
         WriterInv, Links, Parents, Writes, vars, level

LEMMA NextInv == IInv /\ [Next]_vars => IInv'
<1> SUFFICES ASSUME IInv, [Next]_vars
             PROVE  IInv'
  OBVIOUS
<1>1. CASE Open \/ DeleteUser \/ NextLevel \/ Deleted
  BY <1>1, OpenInv, DeleteUserInv, NextLevelInv, DeletedInv
<1>2. CASE Commit
  BY <1>2, CommitInv
<1>3. CASE Meddle \/ Abandon \/ \E c \in due : Refuse(c)
  BY <1>3, FailingInv
<1>4. CASE \E c \in due : Act(c)
  BY <1>4, ActInv
<1>5. CASE WriterStep
  BY <1>5, TouchInv, InsertInv, CommitWriteInv DEF WriterStep
<1>6. CASE BreakDeadlock
  BY <1>6, BreakDeadlockInv
<1>7. CASE UNCHANGED vars
  BY <1>7, StutterInv
<1> QED
  BY <1>1, <1>2, <1>3, <1>4, <1>5, <1>6, <1>7 DEF Next, EraserStep, Over

LEMMA AlwaysInv == Spec => []IInv
  BY InitInv, NextInv, PTL DEF Spec

-----------------------------------------------------------------------------
(* Every variable of the two transactions keeps its type.                   *)
THEOREM ErasureTypes == Spec => []TypeOK
<1>1. IInv => TypeOK
  BY DEF IInv
<1> QED
  BY <1>1, AlwaysInv, PTL

(* An account goes whole or not at all, with what an overlapping request    *)
(* wrote for it, nobody else's rows go, and no reference is left dangling:  *)
(* for every database whose references are as the schema has them.          *)
THEOREM AccountGoesWhole == Spec => []ErasureIsWhole
<1>1. IInv => ErasureIsWhole
  BY DEF IInv, GoneInv, ReferenceInv, ErasureIsWhole, Links
<1> QED
  BY <1>1, AlwaysInv, PTL

(* At the first level the foreign keys find rows with a user_id; at a later *)
(* one every owned row is gone already, and only owned rows refer           *)
(* optionally into the account: so nothing is set to null in what stays.    *)
LEMMA NothingIsCut ==
  ASSUME IInv, pc = "deleting", NEW c \in due, Matching(c) # {}
  PROVE  c \notin Nulls
<1> SUFFICES ASSUME c \in Nulls
             PROVE  FALSE
  OBVIOUS
<1>1. PICK l \in Refs : /\ l.column = c /\ l.to \in acting /\ l.row \in rows \ gone
                        /\ l \notin nulled \cup cut
  BY DEF Matching
<1>2. l.to \in Account /\ l.to # Alice
  BY <1>1, UserKeysCascade, ErasureAssumption DEF IInv, TypeOK, GoneInv
<1>3. Owned(l.row)
  BY <1>1, <1>2, ErasureAssumption
<1>4. PICK k \in Refs : k.row = l.row /\ k.to = Alice /\ k.column \notin Nulls
  BY <1>3, OwnerKey
<1>5. Alice \in acted
  BY <1>1, <1>2 DEF IInv, LevelInv
<1> QED
  BY <1>1, <1>4, <1>5 DEF IInv, SettledInv, ReferenceInv

(* Without the door the append-only rows of the account stay. *)
LEMMA DoorIsNeeded ==
  ASSUME IInv, Deleted
  PROVE  door
<1> SUFFICES ASSUME ~door
             PROVE  FALSE
  OBVIOUS
<1>1. PICK l \in Refs : l.row \in Stored /\ l.to = Alice /\ l.column[1] \in AppendOnly
  BY ErasureAssumption
<1>2. l.row \in rows \ gone
  BY <1>1 DEF Deleted, IInv, GoneInv, DoorInv
<1>3. l \notin nulled \cup cut
  BY <1>1, UserKeysCascade, ErasureAssumption DEF IInv, ReferenceInv
<1>4. Alice \in acting \cup acted
  BY DEF Deleted, IInv, GoneInv
<1>5. l.column \in due /\ l.to \in acting
  BY <1>1, <1>2, <1>3, <1>4 DEF IInv, SettledInv
<1> QED
  BY <1>1, <1>2, <1>3, <1>5 DEF Deleted, Waiting, Matching

(* With the door open no trigger and no CHECK refuses the deletion of an    *)
(* account, and with it closed the deletion does not come to its end.       *)
THEOREM NeverRefused == Spec => ErasureIsNeverRefused
<1> DEFINE Kept == /\ (pc = "deleting" /\ door) => pc' # "refused"
                   /\ pc' = "deleted" => (door \/ pc = "deleted")
<1>1. ASSUME IInv, NEW c \in due, Refuse(c)
      PROVE  ~door
  BY <1>1, NothingIsCut DEF Refuse, Rejected
<1>2. ASSUME IInv, [Next]_vars
      PROVE  [Kept]_vars
  <2>1. CASE \E c \in due : Refuse(c)
    BY <2>1, <1>1, <1>2 DEF Refuse, RollBack
  <2>2. CASE Deleted
    BY <2>2, <1>2, DoorIsNeeded DEF Deleted
  <2>3. CASE \/ Open \/ DeleteUser \/ NextLevel \/ Meddle \/ Commit \/ Abandon
             \/ BreakDeadlock \/ WriterStep \/ \E c \in due : Act(c)
    BY <2>3 DEF Open, DeleteUser, NextLevel, Meddle, Commit, Abandon, BreakDeadlock, Act,
       WriterStep, Touch, Leave, Insert, CommitWrite, RollBack, deleting, DeadlockDetected
  <2>4. CASE UNCHANGED vars
    BY <2>4
  <2> QED
    BY <1>2, <2>1, <2>2, <2>3, <2>4 DEF Next, EraserStep, Over
<1> QED
  BY <1>2, AlwaysInv, PTL DEF Spec, ErasureIsNeverRefused
=============================================================================
