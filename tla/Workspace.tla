----------------------------- MODULE Workspace -----------------------------
(***************************************************************************)
(* The browser application (frontend/src/App.jsx): the rail and the        *)
(* conversation share the open session.  A session is opened by a click,   *)
(* by a creation that resolves, whatever is open by then, and closed by a  *)
(* removal that ends.                                                      *)
(***************************************************************************)
EXTENDS Naturals, Sequences, FiniteSets

CONSTANTS Papers, Sessions, About, Questions, Faults, MaxClicks, None

VARIABLES
  sessionId, shown, loading, loads, streaming, stream, session, server, saved,
  steady, told, stranded,
  status, rail, timer, lists, removing, uploading, known, exists, creating,
  refreshes, missed, clicks

C == INSTANCE Conversation WITH Load <- Faults
S == INSTANCE Shelf WITH Listing <- Faults

ASSUME WorkspaceAssumption ==
  /\ About \in [Sessions -> Papers \cup {None}]
  /\ Faults \subseteq {"fails"}
  /\ MaxClicks \in Nat
  /\ None \notin Papers \cup Sessions \cup Questions \cup C!Turn

conversationVars == <<sessionId, shown, loading, loads, streaming, stream, session,
                      server, saved, steady, told, stranded>>
paperVars == <<status, rail, timer, lists, removing, uploading, missed>>
sessionVars == <<known, exists, creating, refreshes>>
shelfVars == <<paperVars, sessionVars, clicks>>
vars == <<conversationVars, shelfVars>>

Init == C!ConversationInit /\ S!ShelfInit

-----------------------------------------------------------------------------
(* setSessionId: nothing happens when the session is already open. *)
Show(s) == IF s = sessionId THEN UNCHANGED conversationVars ELSE C!Open(s)

(* A click on a session, or on a paper that has one. *)
Select(s) ==
  /\ S!Click /\ s \in known
  /\ C!Open(s)
  /\ UNCHANGED <<paperVars, sessionVars>>

(* A listing arrives; the creation it belongs to opens its session. *)
SessionsListed(r) ==
  /\ S!SessionsListed(r)
  /\ IF r.why \in Sessions THEN Show(r.why) ELSE UNCHANGED conversationVars

Removed(p) == S!Removed(p) /\ Show(S!SessionAfter(p, sessionId))

Finish == C!Finish /\ S!RefreshSessions

Rail ==
  \/ S!Poll
  \/ \E l \in lists : S!List(l) \/ S!Listed(l) \/ S!ListFails(l)
  \/ \E p \in Papers : S!Settle(p) \/ S!Upload(p) \/ S!Remove(p) \/ S!Revoked(p)
                       \/ S!RemoveFails(p)
  \/ S!Accepted
  \/ S!Rejected
  \/ \E s \in Sessions : S!Create(s) \/ S!CreatedOnServer(s) \/ S!CreateFails(s)
  \/ \E r \in refreshes : S!ListSessions(r) \/ S!RefreshFails(r)

Talk ==
  \/ \E l \in loads : C!ReadTranscript(l) \/ C!Loaded(l) \/ C!LoadFails(l)
  \/ \E q \in Questions : C!Send(q) \/ C!TurnCommits(q) \/ C!TurnFails(q)
  \/ C!Tokens
  \/ C!Done
  \/ C!ErrorEvent
  \/ C!Lost
  \/ C!Cut

(* The page rests until the reader clicks. *)
Idle ==
  /\ stream = None /\ loads = {} /\ lists = {} /\ refreshes = {} /\ ~ timer

Next ==
  \/ Rail /\ UNCHANGED conversationVars
  \/ Talk /\ UNCHANGED shelfVars
  \/ \E s \in Sessions : Select(s)
  \/ \E r \in refreshes : SessionsListed(r)
  \/ \E p \in Papers : Removed(p)
  \/ Finish
  \/ Idle /\ UNCHANGED vars

Spec == Init /\ [][Next]_vars

(* The timer fires, the server answers what it was asked and settles its    *)
(* turns, and every answer arrives or its connection ends.                  *)
Fairness ==
  /\ WF_vars(S!Poll /\ UNCHANGED conversationVars)
  /\ WF_vars((\E l \in lists : S!List(l) \/ S!Listed(l)) /\ UNCHANGED conversationVars)
  /\ WF_vars((\E q \in Questions : C!TurnCommits(q)) /\ UNCHANGED shelfVars)
  /\ WF_vars((C!Tokens \/ C!Done \/ C!ErrorEvent \/ C!Lost) /\ UNCHANGED shelfVars)
  /\ WF_vars(Finish)

FairSpec == Spec /\ Fairness

-----------------------------------------------------------------------------
(* Properties, named for the parts they are about. *)

(* Every variable has its type. *)
TypeOK == C!ConversationTypeOK /\ S!ShelfTypeOK

(* What the page shows, whatever was clicked while answers were on their   *)
(* way: no spinner outlives its stream, the open session shows its own      *)
(* exchanges, events stay under their question, an undisturbed question     *)
(* shows its answer, and a paper shown as processing is being asked about.  *)
PageIsConsistent ==
  /\ TypeOK
  /\ C!SpinnersStop
  /\ C!ShownIsOpen
  /\ C!AnswersStayWithTheirQuestion
  /\ C!UndisturbedAnswerIsShown
  /\ S!PollsUnlessMissed

(* A stream ends, so the composer is free again (Conversation). *)
ReaderCanAskAgain == C!ReaderCanAskAgain

(* What has settled is shown settled in the end (Shelf). *)
SettledIsShown == S!SettledIsShown
=============================================================================
