------------------------------ MODULE Erasure ------------------------------
(***************************************************************************)
(* Deleting an account: one DELETE of the users row and the foreign keys   *)
(* that carry it through the tables (db/models.py, services/erasure.py),   *)
(* against the triggers that keep turns, observations and quiz attempts    *)
(* append-only and messages immutable (alembic/versions/60a7..., 7c4e...,  *)
(* 9a1f...), while another request of the same reader writes.              *)
(*                                                                         *)
(* PostgreSQL performs the actions of the foreign keys after the statement *)
(* that fires them, and those they fire in turn after all of these: level  *)
(* by level.  The order within a level is left open.  The deletions of an  *)
(* open transaction are in gone and cut; commit applies them.              *)
(***************************************************************************)
EXTENDS Naturals

CONSTANTS
  Rows,          \* the rows there may be
  Refs,          \* the references between them, [row, column, to]
  Stored,        \* the rows there at first
  Account,       \* the rows of the account, and
  Alice,         \* among them the users row that is deleted
  Corrected,     \* the concept the reader corrects
  Touched,       \* the rows a request may update before it inserts
  Observation,   \* the observation that records the correction
  Turn,          \* the turn another request writes
  Evidence       \* another reader's turn

VARIABLES
  rows,          \* the rows, committed
  nulled,        \* the references set to null, committed
  pc,            \* where the deleting transaction is
  door,          \* app.erasure is on in it
  gone,          \* the rows it has deleted
  cut,           \* the references it has set to null
  acting,        \* the deleted rows whose foreign keys act, at this level
  due,           \* those that have yet to
  acted,         \* the rows of the levels before
  writer         \* the other request: its kind, where it is, the rows it has updated

vars == <<rows, nulled, pc, door, gone, cut, acting, due, acted, writer>>
level == <<acting, due, acted>>
deleting == <<pc, door, gone, cut, level>>

AppendOnly == {"turns", "observations", "quiz_attempts"}
Immutable == AppendOnly \cup {"messages"}

Cascade(table, columns) ==
  {[table |-> table, column |-> c[1], to |-> c[2], action |-> "cascade"] : c \in columns}

SetNull(table, columns) ==
  {[table |-> table, column |-> c[1], to |-> c[2], action |-> "null"] : c \in columns}

UserTables == {"user_paper_access", "concepts", "quizzes", "sessions", "turns", "messages",
               "concept_relationships", "quiz_attempts", "observations", "feedback"}

(* Mutant: quiz attempts are kept, for nobody, when their account goes. *)
UserKeysAnonymising ==
  UNION {Cascade(table, {<<"user_id", "users">>}) : table \in UserTables \ {"quiz_attempts"}}
    \cup SetNull("quiz_attempts", {<<"user_id", "users">>})

(* Every table of a reader's has a key to the users row. *)
UserKeys == UNION {Cascade(table, {<<"user_id", "users">>}) : table \in UserTables}

(* All the foreign keys, and what the deletion of their target does. *)
Constraints == UserKeys \cup UNION {
  Cascade("user_paper_access", {<<"paper_id", "papers">>}),
  Cascade("sections", {<<"paper_id", "papers">>}),
  Cascade("chunks", {<<"paper_id", "papers">>, <<"section_id", "sections">>}),
  SetNull("concepts", {<<"merged_into_id", "concepts">>}),
  Cascade("quizzes", {<<"concept_id", "concepts">>, <<"paper_id", "papers">>}),
  SetNull("sessions", {<<"active_paper_id", "papers">>, <<"pending_quiz_id", "quizzes">>,
                       <<"active_concept_id", "concepts">>}),
  Cascade("turns", {<<"session_id", "sessions">>}),
  SetNull("turns", {<<"paper_id", "papers">>, <<"callback_concept_id", "concepts">>}),
  Cascade("messages", {<<"session_id", "sessions">>}),
  SetNull("messages", {<<"turn_id", "turns">>}),
  Cascade("turn_retrievals", {<<"turn_id", "turns">>, <<"chunk_id", "chunks">>}),
  Cascade("concept_relationships",
          {<<"source_concept_id", "concepts">>, <<"target_concept_id", "concepts">>}),
  SetNull("concept_relationships", {<<"evidence_turn_id", "turns">>}),
  Cascade("quiz_attempts", {<<"quiz_id", "quizzes">>}),
  SetNull("quiz_attempts", {<<"turn_id", "turns">>}),
  Cascade("observations", {<<"concept_id", "concepts">>}),
  SetNull("observations",
          {<<"session_id", "sessions">>, <<"turn_id", "turns">>,
           <<"resolves_observation_id", "observations">>,
           <<"quiz_attempt_id", "quiz_attempts">>}),
  SetNull("feedback", {<<"target_turn_id", "turns">>, <<"target_concept_id", "concepts">>,
                       <<"applied_to_turn_id", "turns">>})}

(* A pending quiz and the activity QUIZ_PENDING go together. *)
quiz_pending_consistency == {<<"sessions", "pending_quiz_id">>}

(* A feedback has one target. *)
exactly_one_target == {<<"feedback", "target_turn_id">>, <<"feedback", "target_concept_id">>}

Nulls == {<<c.table, c.column>> : c \in {c \in Constraints : c.action = "null"}}

Columns == {<<c.table, c.column>> : c \in Constraints}

(* A row has a user_id that refers to the account. *)
Owned(r) == \E l \in Refs : l.row = r /\ l.to = Alice /\ l.column[2] = "user_id"

(* What the schema and its writers give: references lead to rows, those     *)
(* into an account come from rows of the account, which are owned by it or  *)
(* go with a row that is, and so are all that refer to it optionally; some  *)
(* row of the account is in an append-only table.                           *)
ASSUME ErasureAssumption ==
  /\ Stored \subseteq Rows /\ {Turn, Observation} \subseteq Rows
  /\ Corrected \in Touched /\ Touched \subseteq Rows
  /\ Alice \in Stored \cap Account
  /\ \A l \in Refs :
       /\ l.column \in Columns /\ l.row # Alice
       /\ l.row \in Stored => l.to \in Stored
       /\ l.to \in Account => l.row \in Account
       /\ l.to = Alice => l.column[2] = "user_id"
       /\ (l.to \in Account /\ l.column \in Nulls) => Owned(l.row)
  /\ \A k, l \in Refs : k.row = l.row => k.column[1] = l.column[1]
  /\ Owned(Turn) /\ Owned(Observation)
  /\ \A r \in Account \ {Alice} :
       Owned(r) \/ \E l \in Refs : l.row = r /\ l.column \notin Nulls /\ Owned(l.to)
  /\ \E l \in Refs : l.row \in Stored /\ l.to = Alice /\ l.column[1] \in AppendOnly

(* The references there are, committed. *)
Links == {l \in Refs : l.row \in rows} \ nulled

TypeOK ==
  /\ rows \subseteq Rows /\ gone \subseteq rows
  /\ nulled \subseteq Refs /\ cut \subseteq Links
  /\ pc \in {"idle", "open", "deleting", "deleted", "committed", "refused", "denied",
             "deadlocked"}
  /\ door \in BOOLEAN
  /\ acting \subseteq gone /\ acted \subseteq gone \ acting /\ due \subseteq Columns
  /\ writer \in [kind : {"correct", "turn", "none"},
                 at : {"start", "touched", "inserted", "done", "failed"},
                 holds : SUBSET Touched]

(* A database in which every reference is to a row, and a transaction that *)
(* deletes the account, with or without erase_user.                        *)
Init ==
  /\ rows = Stored /\ nulled = {}
  /\ pc = "idle" /\ door = FALSE
  /\ gone = {} /\ cut = {} /\ acting = {} /\ due = {} /\ acted = {}
  /\ writer \in [kind : {"correct", "turn", "none"}, at : {"start"}, holds : {{}}]

-----------------------------------------------------------------------------
(* The foreign keys to deleted rows. *)
Carried(deleted) == {l.column : l \in {l \in Refs : l.to \in deleted}}

(* The references one of them is about. *)
Matching(c) ==
  {l \in Refs : l.column = c /\ l.to \in acting /\ l.row \in rows \ gone} \ (nulled \cup cut)

(* The other request holds the users row in share mode by a reference. *)
Shared == writer.at = "inserted"

Waiting == \E c \in due : Matching(c) # {}

(* reject_mutation, reject_update and the CHECK constraints. *)
Rejected(c) ==
  IF c \in Nulls THEN \/ c[1] \in Immutable
                      \/ c \in quiz_pending_consistency \cup exactly_one_target
  ELSE c[1] \in AppendOnly /\ ~door

(* Mutant: the queue of triggers outlives the transaction. *)
RollBackKeepingLevel(to) ==
  /\ pc' = to /\ door' = FALSE
  /\ gone' = {} /\ cut' = {} /\ UNCHANGED level

RollBack(to) ==
  /\ pc' = to /\ door' = FALSE
  /\ gone' = {} /\ cut' = {} /\ acting' = {} /\ due' = {} /\ acted' = {}

(* AFTER triggers of a statement inside a trigger wait for the next level. *)
Queue(c, deleted) == due' = due \ {c} /\ UNCHANGED <<acting, acted>>

-----------------------------------------------------------------------------
(* The deleting transaction: erase_user opens the door first. *)
Open ==
  /\ pc = "idle" /\ pc' = "open"
  /\ door' \in BOOLEAN
  /\ UNCHANGED <<rows, nulled, gone, cut, level, writer>>

(* DELETE FROM users: it waits for those that reference the row. *)
DeleteUser ==
  /\ pc = "open" /\ ~Shared
  /\ pc' = "deleting"
  /\ gone' = {Alice} /\ acting' = {Alice} /\ due' = Carried({Alice})
  /\ UNCHANGED <<rows, nulled, door, cut, acted, writer>>

(* The action of one foreign key, refused by a trigger or a CHECK, *)
Refuse(c) ==
  /\ pc = "deleting" /\ Matching(c) # {} /\ Rejected(c)
  /\ RollBack("refused")
  /\ UNCHANGED <<rows, nulled, writer>>

(* or carried out, once the other request holds none of the rows. *)
Act(c) ==
  /\ pc = "deleting" /\ Matching(c) # {} /\ ~Rejected(c)
  /\ LET found == {l.row : l \in Matching(c)}
         deleted == IF c \in Nulls THEN {} ELSE found
     IN /\ found \cap writer.holds = {}
        /\ gone' = gone \cup deleted
        /\ Queue(c, deleted)
  /\ cut' = IF c \in Nulls THEN cut \cup Matching(c) ELSE cut
  /\ UNCHANGED <<rows, nulled, pc, door, writer>>

NextLevel ==
  /\ pc = "deleting" /\ ~Waiting
  /\ acting # gone \ acted
  /\ acting' = gone \ (acted \cup acting) /\ acted' = acted \cup acting
  /\ due' = Carried(acting')
  /\ UNCHANGED <<rows, nulled, pc, door, gone, cut, writer>>

(* Mutant: the door stays open for the rest of the transaction. *)
LeaveDoor == door' = door

(* The setting is cleared once the statement has run. *)
CloseDoor == door' = FALSE

Deleted ==
  /\ pc = "deleting" /\ ~Waiting
  /\ acting = gone \ acted
  /\ pc' = "deleted" /\ CloseDoor
  /\ acting' = {} /\ due' = {} /\ acted' = {}
  /\ UNCHANGED <<rows, nulled, gone, cut, writer>>

(* The caller goes on in its transaction, with a DELETE of a turn. *)
Meddle ==
  /\ pc = "deleted" /\ Evidence \notin gone
  /\ IF door THEN gone' = gone \cup {Evidence} /\ UNCHANGED <<pc, door, cut, level>>
     ELSE RollBack("denied")
  /\ UNCHANGED <<rows, nulled, writer>>

Apply ==
  /\ rows' = rows \ gone
  /\ nulled' = nulled \cup cut

(* The caller commits, or rolls everything back. *)
Commit ==
  /\ pc = "deleted"
  /\ Apply
  /\ RollBack("committed")
  /\ UNCHANGED writer

Abandon ==
  /\ pc = "deleted" /\ RollBack("denied")
  /\ UNCHANGED <<rows, nulled, writer>>

-----------------------------------------------------------------------------
(* Another request of the reader.  Its writes are seen once committed. *)

(* What ends a request lets its rows go. *)
Leave(at) == writer' = [writer EXCEPT !.at = at, !.holds = {}]

(* A correction updates its concept first; a turn may have updated a concept *)
(* (a known one named again) or its session when it comes to its INSERT.     *)
Touch(row) ==
  /\ \/ writer.kind = "correct" /\ writer.at = "start" /\ row = Corrected
     \/ writer.kind = "turn" /\ writer.at \in {"start", "touched"} /\ row \notin writer.holds
  /\ row \notin gone
  /\ IF row \in rows THEN writer' = [writer EXCEPT !.at = "touched", !.holds = @ \cup {row}]
     ELSE Leave("failed")
  /\ UNCHANGED <<rows, nulled, deleting>>

Writes == IF writer.kind = "turn" THEN Turn ELSE Observation

Parents == {l.to : l \in {l \in Refs : l.row = Writes}}

(* An INSERT holds what it references, or waits for the one who deletes it. *)
Insert ==
  /\ \/ writer.kind = "correct" /\ writer.at = "touched"
     \/ writer.kind = "turn" /\ writer.at \in {"start", "touched"}
  /\ Parents \cap gone = {}
  /\ IF Parents \subseteq rows THEN writer' = [writer EXCEPT !.at = "inserted"]
     ELSE Leave("failed")
  /\ UNCHANGED <<rows, nulled, deleting>>

CommitWrite ==
  /\ writer.at = "inserted"
  /\ Leave("done")
  /\ rows' = rows \cup {Writes}
  /\ UNCHANGED <<nulled, deleting>>

(* Each waits for a row the other holds. *)
DeadlockDetected ==
  /\ writer.at = "touched" /\ Parents \cap gone # {}
  /\ pc = "deleting" /\ writer.holds \cap {l.row : l \in UNION {Matching(c) : c \in due}} # {}

(* Mutant: the victim's statement alone is undone, and tried again. *)
StatementRetried == DeadlockDetected /\ UNCHANGED vars

(* One of them is the victim. *)
BreakDeadlock ==
  /\ DeadlockDetected
  /\ \/ RollBack("deadlocked") /\ UNCHANGED writer
     \/ Leave("failed") /\ UNCHANGED deleting
  /\ UNCHANGED <<rows, nulled>>

EraserStep ==
  \/ Open \/ DeleteUser \/ NextLevel \/ Deleted \/ Meddle \/ Commit \/ Abandon
  \/ \E c \in due : Refuse(c) \/ Act(c)

WriterStep == (\E row \in Touched : Touch(row)) \/ Insert \/ CommitWrite

EraserOver == pc \in {"committed", "refused", "denied", "deadlocked"}

WriterOver == writer.kind = "none" \/ writer.at \in {"done", "failed"}

Over == EraserOver /\ WriterOver /\ UNCHANGED vars

Next == EraserStep \/ WriterStep \/ BreakDeadlock \/ Over

Fairness == WF_vars(EraserStep) /\ WF_vars(WriterStep) /\ WF_vars(BreakDeadlock)

Spec == Init /\ [][Next]_vars /\ Fairness

-----------------------------------------------------------------------------
(* Nothing of an account is left once its deletion commits, not even what a *)
(* request that overlapped it wrote; before that nothing of it is missing,  *)
(* nothing of anyone else ever is, and no reference is left dangling        *)
(* (services/erasure.py erase_user, the foreign keys of db/models.py).      *)
ErasureIsWhole ==
  /\ pc = "committed" => rows \cap Account = {}
  /\ pc # "committed" => Stored \subseteq rows
  /\ Stored \ Account \subseteq rows
  /\ \A l \in Links : {l.row, l.to} \subseteq rows

(* With the door open the foreign keys never meet a trigger or a CHECK that *)
(* refuses them: each append-only row is deleted before anything would set  *)
(* one of its columns to null; and without it the account cannot be deleted *)
(* (9a1f4c2b7e35 reject_mutation, 7c4e19b0d2a3 reject_update).              *)
ErasureIsNeverRefused ==
  [][/\ (pc = "deleting" /\ door) => pc' # "refused"
     /\ pc' = "deleted" => (door \/ pc = "deleted")]_vars

(* The deletion and the request beside it end, though each may wait for a   *)
(* row the other holds (routers/memory.py correct_concept, services/        *)
(* turns.py _persist).                                                      *)
EveryTransactionEnds == <>(EraserOver /\ WriterOver)
=============================================================================
