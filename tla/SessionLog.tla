------------------------------ MODULE SessionLog ------------------------------
(***************************************************************************)
(* What a session promises its reader, with no request in flight visible:  *)
(* a log that only grows, one whole exchange at a time and each request at *)
(* most once, and a transcript that holds the exchanges not yet expired.   *)
(***************************************************************************)
EXTENDS Sequences, Naturals

CONSTANT Requests

VARIABLES
  log,   \* the requests whose turns are recorded, in order
  kept   \* those whose question and answer are both still in the transcript

Recorded == {log[i] : i \in 1 .. Len(log)}

Init == log = << >> /\ kept = {}

(* A turn is recorded with its two messages, or not at all. *)
Record(r) ==
  /\ r \notin Recorded
  /\ log' = Append(log, r)
  /\ kept' = kept \cup {r}

(* Retention removes exchanges from the transcript, never from the log. *)
Expire ==
  /\ kept' \subseteq kept
  /\ log' = log

Next == (\E r \in Requests : Record(r)) \/ Expire

Spec == Init /\ [][Next]_<<log, kept>>
=============================================================================
