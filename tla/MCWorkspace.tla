---------------------------- MODULE MCWorkspace ----------------------------
(* Instances of Workspace for TLC. *)
EXTENDS Workspace, TLC

CONSTANTS p1, p2, s1, s2, q1

(* One session is about the first paper, the other about none. *)
AboutOf == (s1 :> p1) @@ (s2 :> None)

(* The page is loaded; no question is asked. *)
RailInit ==
  /\ sessionId = None /\ shown = <<>> /\ loading = FALSE /\ loads = {}
  /\ streaming = FALSE /\ stream = None
  /\ session = [q \in Questions |-> s1]
  /\ server = [q \in Questions |-> "failed"]
  /\ saved = [s \in Sessions |-> <<>>]
  /\ steady = {} /\ told = {} /\ stranded = FALSE
  /\ S!ShelfInit /\ clicks = MaxClicks - 1
  /\ status[p1] = "queued" /\ exists \in {{}, {s1}}

(* Everything is listed.  The first question is to be asked, or was asked   *)
(* before the page was loaded and leaves the reader a click more.           *)
TalkInit ==
  /\ status = [p \in Papers |-> "settled"]
  /\ rail = status /\ timer = FALSE /\ lists = {}
  /\ removing = [p \in Papers |-> S!NotRemoving]
  /\ uploading = None
  /\ known = Sessions /\ exists = Sessions /\ creating = {}
  /\ refreshes = {} /\ missed = FALSE
  /\ \/ C!ConversationInit /\ clicks = MaxClicks - 1
     \/ /\ clicks = MaxClicks
        /\ sessionId = None /\ shown = <<>> /\ loading = FALSE /\ loads = {}
        /\ streaming = FALSE /\ stream = None
        /\ session = [q \in Questions |-> IF q = q1 THEN s1 ELSE None]
        /\ server = [q \in Questions |-> IF q = q1 THEN "committed" ELSE "none"]
        /\ saved = [s \in Sessions |-> IF s = s1 THEN <<q1>> ELSE <<>>]
        /\ steady = {} /\ told = {} /\ stranded = FALSE

WorkspaceSpec == (RailInit \/ TalkInit) /\ [][Next]_vars /\ Fairness
=============================================================================
