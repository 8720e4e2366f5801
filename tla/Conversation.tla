---------------------------- MODULE Conversation ----------------------------
(***************************************************************************)
(* One open session in the browser (frontend/src/hooks/useConversation.js  *)
(* over frontend/src/api/stream.js): the transcript that is loaded when a  *)
(* session is opened, and the turn that streams into it.  React applies an *)
(* effect's cleanup when the session changes, before the next effect; a    *)
(* stream goes on when the session changes.                                *)
(***************************************************************************)
EXTENDS Sequences, FiniteSets

CONSTANTS
  Sessions, Questions,
  Load,               \* the ways a request may go wrong: "fails", or nothing
  None

VARIABLES
  sessionId,   \* the open session
  shown,       \* messages: exchanges, saved or live
  loading,
  loads,       \* transcript requests whose answer is still wanted
  streaming,
  stream,      \* the turn whose events arrive
  session,     \* the session each question was sent to
  server,      \* the state of each turn on the server
  saved,       \* the committed turns of each session, in order
  steady,      \* history: questions sent to a loaded session that stayed open
  told,        \* history: questions whose done event has arrived
  stranded     \* history: the last transcript could not be loaded

conversationVars == <<sessionId, shown, loading, loads, streaming, stream,
                      session, server, saved, steady, told, stranded>>
turnVars == <<session, server, saved>>

ConversationInit ==
  /\ sessionId = None /\ shown = <<>> /\ loading = FALSE /\ loads = {}
  /\ streaming = FALSE /\ stream = None
  /\ session = [q \in Questions |-> None]
  /\ server = [q \in Questions |-> "none"]
  /\ saved = [s \in Sessions |-> <<>>]
  /\ steady = {} /\ told = {} /\ stranded = FALSE

-----------------------------------------------------------------------------
(* Opening a session. *)

Asked(s) == IF s = None THEN {} ELSE {[of |-> s, transcript |-> None]}

(* Mutant: an answer to the earlier request is still taken. *)
OpenWithoutCancel(s) ==
  /\ s # sessionId
  /\ sessionId' = s
  /\ loads' = loads \cup Asked(s)
  /\ IF s = None THEN shown' = <<>> /\ loading' = loading
                 ELSE shown' = shown /\ loading' = TRUE
  /\ steady' = {}
  /\ UNCHANGED <<streaming, stream, turnVars, told, stranded>>

(* The effect of a new sessionId.  The messages of the old one stay until   *)
(* the transcript is there; the old request is cancelled.                   *)
Open(s) ==
  /\ s # sessionId
  /\ sessionId' = s
  /\ loads' = Asked(s)
  /\ IF s = None THEN shown' = <<>> /\ loading' = loading
                 ELSE shown' = shown /\ loading' = TRUE
  /\ steady' = {}
  /\ UNCHANGED <<streaming, stream, turnVars, told, stranded>>

(* The server reads the transcript. *)
ReadTranscript(l) ==
  /\ l.transcript = None
  /\ loads' = (loads \ {l}) \cup {[l EXCEPT !.transcript = saved[l.of]]}
  /\ UNCHANGED <<sessionId, shown, loading, streaming, stream, turnVars, steady, told,
                 stranded>>

(* A question and its answer, as the page holds them. *)
Exchange == [asks : Questions, live : BOOLEAN, spins : BOOLEAN,
             answer : Questions \cup {None}, error : BOOLEAN]

SavedExchange(q) == [asks |-> q, live |-> FALSE, spins |-> FALSE, answer |-> q,
                     error |-> FALSE]

(* Transcript and citations are there: they replace what is shown. *)
Loaded(l) ==
  /\ l.transcript # None
  /\ shown' = [i \in DOMAIN l.transcript |-> SavedExchange(l.transcript[i])]
  /\ loading' = FALSE
  /\ loads' = loads \ {l}
  /\ stranded' = FALSE
  /\ UNCHANGED <<sessionId, streaming, stream, turnVars, steady, told>>

(* The request is rejected; nobody catches it, and finally ends the wait. *)
LoadFails(l) ==
  /\ "fails" \in Load
  /\ loading' = FALSE
  /\ loads' = loads \ {l}
  /\ stranded' = TRUE
  /\ UNCHANGED <<sessionId, shown, streaming, stream, turnVars, steady, told>>

-----------------------------------------------------------------------------
(* A turn. *)

Shell(q) == [asks |-> q, live |-> TRUE, spins |-> TRUE, answer |-> None, error |-> FALSE]

(* send: also while the transcript is still loading. *)
Send(q) ==
  /\ session[q] = None
  /\ sessionId # None
  /\ ~ streaming
  /\ shown' = Append(shown, Shell(q))
  /\ streaming' = TRUE
  /\ stream' = [asks |-> q, at |-> "open"]
  /\ session' = [session EXCEPT ![q] = sessionId]
  /\ server' = [server EXCEPT ![q] = "running"]
  /\ steady' = IF loading THEN steady ELSE steady \cup {q}
  /\ UNCHANGED <<sessionId, loading, loads, saved, told, stranded>>

(* The server commits the turn or rolls it back, heard or not. *)
TurnCommits(q) ==
  /\ server[q] = "running"
  /\ server' = [server EXCEPT ![q] = "committed"]
  /\ saved' = [saved EXCEPT ![session[q]] = Append(@, q)]
  /\ UNCHANGED <<sessionId, shown, loading, loads, streaming, stream, session, steady,
                 told, stranded>>

TurnFails(q) ==
  /\ server[q] = "running"
  /\ server' = [server EXCEPT ![q] = "failed"]
  /\ UNCHANGED <<sessionId, shown, loading, loads, streaming, stream, session, saved,
                 steady, told, stranded>>

(* patch: the shell is found by its key; a transcript loaded since has none. *)
Patch(q, update) ==
  [i \in DOMAIN shown |-> IF shown[i].live /\ shown[i].asks = q
                          THEN update[shown[i]] ELSE shown[i]]

Arrives(at, next, update) ==
  /\ stream # None /\ stream.at = at
  /\ shown' = Patch(stream.asks, update)
  /\ stream' = [stream EXCEPT !.at = next]
  /\ UNCHANGED <<sessionId, loading, loads, streaming, turnVars, steady, stranded>>

Answered == [e \in Exchange |-> [e EXCEPT !.answer = stream.asks]]
Stopped == [e \in Exchange |-> [e EXCEPT !.spins = FALSE]]
Broken == [e \in Exchange |-> [e EXCEPT !.spins = FALSE, !.error = TRUE]]

(* Events arrive in the order of the wire: the verified answer after the    *)
(* commit, then done; or an error.                                          *)
Tokens ==
  /\ stream # None /\ server[stream.asks] = "committed"
  /\ Arrives("open", "tokens", Answered)
  /\ told' = told

Done ==
  /\ Arrives("tokens", "over", Stopped)
  /\ told' = told \cup {stream.asks}

ErrorEvent ==
  /\ stream # None /\ server[stream.asks] = "failed"
  /\ Arrives("open", "over", Broken)
  /\ told' = told

(* The connection breaks: the reader raises, and catch reports it. *)
Lost ==
  /\ Arrives("open", "over", Broken) \/ Arrives("tokens", "over", Broken)
  /\ told' = told

(* The body ends early and nothing raises; or the page, or cancel, aborts   *)
(* the request, and catch lets the AbortError pass without a word.          *)
Cut ==
  /\ stream # None /\ stream.at \in {"open", "tokens"}
  /\ stream' = [stream EXCEPT !.at = "over"]
  /\ UNCHANGED <<sessionId, shown, loading, loads, streaming, turnVars, steady, told,
                 stranded>>

(* Mutant: the composer is freed by the done event only. *)
FinishWhenDone ==
  /\ stream # None /\ stream.at = "over"
  /\ shown' = Patch(stream.asks, Stopped)
  /\ streaming' = (stream.asks \notin told) /\ stream' = None
  /\ UNCHANGED <<sessionId, loading, loads, turnVars, steady, told, stranded>>

(* finally. *)
Finish ==
  /\ stream # None /\ stream.at = "over"
  /\ shown' = Patch(stream.asks, Stopped)
  /\ streaming' = FALSE /\ stream' = None
  /\ UNCHANGED <<sessionId, loading, loads, turnVars, steady, told, stranded>>

-----------------------------------------------------------------------------
(* Properties. *)

(* A turn whose events arrive. *)
Turn == [asks : Questions, at : {"open", "tokens", "over"}]

(* Every variable has its type; only the open session's transcript is      *)
(* waited for.                                                              *)
ConversationTypeOK ==
  /\ sessionId \in Sessions \cup {None}
  /\ shown \in Seq(Exchange)
  /\ loading \in BOOLEAN /\ streaming \in BOOLEAN
  /\ \A l \in loads : l.of = sessionId
  /\ stream \in Turn \cup {None}
  /\ streaming <=> stream # None

(* useConversation.js: a stream that ends without done must not leave a     *)
(* live spinner, whatever has been loaded or opened meanwhile.              *)
SpinnersStop == ~ streaming => \A i \in DOMAIN shown : ~ shown[i].spins

(* Once its transcript is there, an open session shows its own exchanges    *)
(* and nobody else's, also when an earlier transcript answers late or a     *)
(* turn of another session is still streaming.                              *)
ShownIsOpen ==
  (sessionId # None /\ ~ loading /\ ~ stranded) =>
    \A i \in DOMAIN shown : session[shown[i].asks] = sessionId

(* The events of a turn are written under its own question only.            *)
AnswersStayWithTheirQuestion ==
  \A i \in DOMAIN shown : shown[i].answer \in {None, shown[i].asks}

(* A question sent once the transcript was there, to a session that stayed  *)
(* open, shows its answer from its done event on.                           *)
UndisturbedAnswerIsShown ==
  \A q \in steady \cap told :
    \E i \in DOMAIN shown : shown[i].asks = q /\ shown[i].answer = q

(* The reader can ask again: a stream ends however its connection does.     *)
ReaderCanAskAgain == streaming ~> ~ streaming
=============================================================================
