----------------------------- MODULE MCErasure -----------------------------
(* An instance of Erasure for TLC: one row of every table for Alice, two    *)
(* where a table refers to itself, a paper she shares with Bob, a turn of   *)
(* Bob's, and the two rows that may be written meanwhile.                   *)
EXTENDS Erasure

(* The table and the name of each row, and what it refers to. *)
Sheet == {
  <<"sections", "section", {<<"paper_id", "paper">>}>>,
  <<"chunks", "chunk", {<<"paper_id", "paper">>, <<"section_id", "section">>}>>,
  <<"user_paper_access", "access", {<<"user_id", "alice">>, <<"paper_id", "paper">>}>>,
  <<"concepts", "concept", {<<"user_id", "alice">>}>>,
  <<"concepts", "duplicate", {<<"user_id", "alice">>, <<"merged_into_id", "concept">>}>>,
  <<"quizzes", "quiz", {<<"user_id", "alice">>, <<"concept_id", "concept">>,
     <<"paper_id", "paper">>}>>,
  <<"sessions", "session", {<<"user_id", "alice">>, <<"active_paper_id", "paper">>,
     <<"pending_quiz_id", "quiz">>, <<"active_concept_id", "concept">>}>>,
  <<"turns", "turn", {<<"session_id", "session">>, <<"user_id", "alice">>,
     <<"paper_id", "paper">>, <<"callback_concept_id", "concept">>}>>,
  <<"messages", "message", {<<"session_id", "session">>, <<"user_id", "alice">>,
     <<"turn_id", "turn">>}>>,
  <<"turn_retrievals", "retrieval", {<<"turn_id", "turn">>, <<"chunk_id", "chunk">>}>>,
  <<"concept_relationships", "edge", {<<"user_id", "alice">>, <<"source_concept_id", "concept">>,
     <<"target_concept_id", "duplicate">>, <<"evidence_turn_id", "turn">>}>>,
  <<"quiz_attempts", "attempt", {<<"quiz_id", "quiz">>, <<"user_id", "alice">>, <<"turn_id", "turn">>}>>,
  <<"observations", "struggle", {<<"user_id", "alice">>, <<"concept_id", "concept">>,
     <<"session_id", "session">>, <<"turn_id", "turn">>,
     <<"quiz_attempt_id", "attempt">>}>>,
  <<"observations", "resolution", {<<"user_id", "alice">>, <<"concept_id", "concept">>,
     <<"session_id", "session">>, <<"turn_id", "turn">>,
     <<"resolves_observation_id", "struggle">>}>>,
  <<"feedback", "opinion", {<<"user_id", "alice">>, <<"target_turn_id", "turn">>,
     <<"applied_to_turn_id", "turn">>}>>,
  <<"sessions", "theirs", {<<"user_id", "bob">>, <<"active_paper_id", "paper">>}>>,
  <<"turns", "evidence", {<<"session_id", "theirs">>, <<"user_id", "bob">>,
     <<"paper_id", "paper">>}>>,
  <<"observations", "correction", {<<"user_id", "alice">>, <<"concept_id", "concept">>}>>,
  <<"turns", "answer", {<<"session_id", "session">>, <<"user_id", "alice">>,
     <<"paper_id", "paper">>}>>}

MCRows == {"alice", "bob", "paper"} \cup {s[2] : s \in Sheet}
MCRefs ==
  UNION {{[row |-> s[2], column |-> <<s[1], c[1]>>, to |-> c[2]] : c \in s[3]} : s \in Sheet}
MCTouched == {"concept", "session"}
MCStored == MCRows \ {"correction", "answer"}
MCAccount == MCRows \ {"bob", "theirs", "evidence", "paper", "section", "chunk"}
=============================================================================
