-------------------------- MODULE WorkspaceProofs --------------------------
(***************************************************************************)
(* The page of Workspace stays consistent, for any papers, sessions and    *)
(* questions and any number of clicks.                                     *)
(***************************************************************************)
EXTENDS Workspace, SequenceTheorems, TLAPS

(* What a request for a transcript, a listing and a removal look like. *)
TranscriptRequest == [of : Sessions, transcript : Seq(Questions) \cup {None}]

Listings == [why : Papers \cup {"mount", "poll", "upload"},
             papers : [Papers -> S!ProcessingStatus] \cup {None}]

SessionListings == [why : Sessions \cup {"mount", "turn"},
                    sessions : (SUBSET Sessions) \cup {None}]

Removal == [at : {"no", "sent", "refresh", "refreshed"}, sessions : SUBSET Sessions]

(* Every variable of the conversation has its type. *)
ConversationTypes ==
  /\ sessionId \in Sessions \cup {None}
  /\ shown \in Seq(C!Exchange)
  /\ loading \in BOOLEAN /\ streaming \in BOOLEAN /\ stranded \in BOOLEAN
  /\ loads \subseteq TranscriptRequest
  /\ stream \in C!Turn \cup {None}
  /\ streaming <=> stream # None
  /\ session \in [Questions -> Sessions \cup {None}]
  /\ server \in [Questions -> {"none", "running", "committed", "failed"}]
  /\ saved \in [Sessions -> Seq(Questions)]
  /\ steady \subseteq Questions /\ told \subseteq Questions

(* One transcript at most is waited for, and it is the open session's. *)
OneRequest ==
  /\ \A l \in loads : l.of = sessionId
  /\ \A l, m \in loads : l = m
  /\ loads # {} => loading

(* A question the server or the stream knows was sent to a session. *)
KnownIsSent ==
  /\ \A q \in Questions : server[q] = "running" => session[q] # None
  /\ stream # None => session[stream.asks] # None
  /\ \A q \in told : session[q] # None

(* A transcript, stored or on its way, holds its session's questions. *)
TranscriptsAreTheirSessions ==
  /\ \A s \in Sessions : \A i \in DOMAIN saved[s] : session[saved[s][i]] = s
  /\ \A l \in loads : l.transcript # None =>
       \A i \in DOMAIN l.transcript : session[l.transcript[i]] = l.of

(* Only the shell of the streaming turn spins. *)
SpinsWhileStreaming ==
  \A i \in DOMAIN shown : shown[i].spins =>
    stream # None /\ shown[i].live /\ shown[i].asks = stream.asks

(* The shell at i shows what has arrived of its turn. *)
Follows(i, q) ==
  /\ shown[i].live /\ shown[i].asks = q
  /\ (stream # None /\ stream.asks = q /\ stream.at = "tokens") => shown[i].answer = q
  /\ q \in told => shown[i].answer = q

(* An undisturbed question keeps its shell. *)
SteadyIsShown ==
  /\ steady # {} => loads = {} /\ ~ loading
  /\ \A q \in steady : \E i \in DOMAIN shown : Follows(i, q)

ConversationInv ==
  /\ ConversationTypes
  /\ OneRequest
  /\ KnownIsSent
  /\ TranscriptsAreTheirSessions
  /\ SpinsWhileStreaming
  /\ C!ShownIsOpen
  /\ C!AnswersStayWithTheirQuestion
  /\ SteadyIsShown

(* Every variable of the rail has its type, and no listing names a session *)
(* the server does not have.                                                *)
ShelfInv ==
  /\ status \in [Papers -> S!ProcessingStatus]
  /\ rail \in [Papers -> S!ProcessingStatus]
  /\ timer \in BOOLEAN /\ missed \in BOOLEAN
  /\ lists \subseteq Listings
  /\ removing \in [Papers -> Removal]
  /\ uploading \in [paper : Papers, at : {"sent", "refresh"}] \cup {None}
  /\ exists \subseteq Sessions /\ known \subseteq exists /\ creating \subseteq Sessions
  /\ refreshes \subseteq SessionListings
  /\ \A r \in refreshes : r.sessions # None => r.sessions \subseteq exists
  /\ S!PollsUnlessMissed

PageInv == ConversationInv /\ ShelfInv

-----------------------------------------------------------------------------
(* The conversation. *)

LEMMA ConversationUnchanged ==
  ASSUME ConversationInv, UNCHANGED conversationVars
  PROVE  ConversationInv'
<1> USE DEF ConversationInv, conversationVars
<1>1. ConversationTypes' /\ OneRequest' /\ KnownIsSent'
  BY DEF ConversationTypes, OneRequest, KnownIsSent
<1>2. TranscriptsAreTheirSessions' /\ SpinsWhileStreaming'
  BY DEF TranscriptsAreTheirSessions, SpinsWhileStreaming
<1>3. C!ShownIsOpen' /\ C!AnswersStayWithTheirQuestion'
  BY DEF C!ShownIsOpen, C!AnswersStayWithTheirQuestion
<1>4. SteadyIsShown'
  BY DEF SteadyIsShown, Follows
<1> QED
  BY <1>1, <1>2, <1>3, <1>4

(* An update of an exchange is an exchange. *)
LEMMA UpdateTypes ==
  ASSUME NEW e \in C!Exchange
  PROVE  /\ stream \in C!Turn => C!Answered[e] \in C!Exchange
         /\ C!Stopped[e] \in C!Exchange
         /\ C!Broken[e] \in C!Exchange
<1>1. stream \in C!Turn => C!Answered[e] \in C!Exchange
  BY DEF C!Answered, C!Exchange, C!Turn
<1>2. C!Stopped[e] \in C!Exchange
  BY DEF C!Stopped, C!Exchange
<1>3. C!Broken[e] \in C!Exchange
  BY DEF C!Broken, C!Exchange
<1> QED
  BY <1>1, <1>2, <1>3

(* Patching keeps the sequence of exchanges. *)
LEMMA PatchTypes ==
  ASSUME shown \in Seq(C!Exchange), NEW q, NEW update,
         \A e \in C!Exchange : update[e] \in C!Exchange
  PROVE  C!Patch(q, update) \in Seq(C!Exchange)
<1>1. \A i \in DOMAIN shown : shown[i] \in C!Exchange
  OBVIOUS
<1>2. \A i \in DOMAIN shown : update[shown[i]] \in C!Exchange
  BY <1>1
<1> QED
  BY <1>1, <1>2 DEF C!Patch

(* What the patches keep of an exchange. *)
LEMMA PatchKeeps ==
  ASSUME shown \in Seq(C!Exchange), stream \in C!Turn,
         NEW s, s \in {C!Patch(stream.asks, C!Answered), C!Patch(stream.asks, C!Stopped),
                       C!Patch(stream.asks, C!Broken)}
  PROVE  /\ DOMAIN s = DOMAIN shown
         /\ \A i \in DOMAIN shown :
              /\ s[i].asks = shown[i].asks
              /\ s[i].live = shown[i].live
              /\ s[i].spins => shown[i].spins
              /\ s[i].answer \in {shown[i].answer, shown[i].asks}
              /\ s[i].answer # shown[i].answer => shown[i].asks = stream.asks
<1>1. \A i \in DOMAIN shown : shown[i] \in C!Exchange
  OBVIOUS
<1>2. CASE s = C!Patch(stream.asks, C!Answered)
  BY <1>1, <1>2 DEF C!Patch, C!Answered, C!Exchange
<1>3. CASE s = C!Patch(stream.asks, C!Stopped)
  BY <1>1, <1>3 DEF C!Patch, C!Stopped, C!Exchange
<1>4. CASE s = C!Patch(stream.asks, C!Broken)
  BY <1>1, <1>4 DEF C!Patch, C!Broken, C!Exchange
<1> QED
  BY <1>2, <1>3, <1>4

(* What the patches change. *)
LEMMA PatchChanges ==
  ASSUME shown \in Seq(C!Exchange), stream \in C!Turn,
         NEW i \in DOMAIN shown, shown[i].live, shown[i].asks = stream.asks
  PROVE  /\ C!Patch(stream.asks, C!Answered)[i].answer = stream.asks
         /\ ~ C!Patch(stream.asks, C!Stopped)[i].spins
         /\ ~ C!Patch(stream.asks, C!Broken)[i].spins
<1>1. shown[i] \in C!Exchange
  OBVIOUS
<1> QED
  BY <1>1 DEF C!Patch, C!Answered, C!Stopped, C!Broken, C!Exchange

-----------------------------------------------------------------------------
LEMMA Opens ==
  ASSUME ConversationInv, NEW s \in Sessions \cup {None}, C!Open(s)
  PROVE  ConversationInv'
<1> USE DEF ConversationInv
<1>1. ConversationTypes'
  <2>1. shown' \in Seq(C!Exchange)
    <3>1. <<>> \in Seq(C!Exchange)
      OBVIOUS
    <3> QED
      BY <3>1 DEF ConversationTypes, C!Open
  <2>2. loads' \subseteq TranscriptRequest
    BY DEF C!Open, C!Asked, TranscriptRequest
  <2> QED
    BY <2>1, <2>2 DEF ConversationTypes, C!Open, C!turnVars
<1>2. OneRequest'
  BY DEF OneRequest, C!Open, C!Asked
<1>3. KnownIsSent'
  BY DEF KnownIsSent, C!Open, C!turnVars
<1>4. TranscriptsAreTheirSessions'
  BY DEF TranscriptsAreTheirSessions, C!Open, C!turnVars, C!Asked
<1>5. SpinsWhileStreaming'
  BY DEF SpinsWhileStreaming, C!Open
<1>6. C!ShownIsOpen' /\ C!AnswersStayWithTheirQuestion'
  BY DEF C!ShownIsOpen, C!AnswersStayWithTheirQuestion, C!Open, C!turnVars
<1>7. SteadyIsShown'
  BY DEF SteadyIsShown, C!Open
<1> QED
  BY <1>1, <1>2, <1>3, <1>4, <1>5, <1>6, <1>7

LEMMA TranscriptIsRead ==
  ASSUME ConversationInv, NEW l \in loads, C!ReadTranscript(l)
  PROVE  ConversationInv'
<1> USE DEF ConversationInv
<1> DEFINE m == [l EXCEPT !.transcript = saved[l.of]]
<1>1. l \in TranscriptRequest /\ l.of \in Sessions
  BY DEF ConversationTypes, TranscriptRequest
<1>2. m \in TranscriptRequest /\ m.of = l.of /\ m.transcript = saved[l.of]
  BY <1>1 DEF ConversationTypes, TranscriptRequest
<1>3. loads' = {m}
  BY DEF OneRequest, C!ReadTranscript
<1> HIDE DEF m
<1>4. ConversationTypes'
  BY <1>2, <1>3 DEF ConversationTypes, C!ReadTranscript, C!turnVars
<1>5. OneRequest'
  BY <1>2, <1>3 DEF OneRequest, C!ReadTranscript
<1>6. KnownIsSent'
  BY DEF KnownIsSent, C!ReadTranscript, C!turnVars
<1>7. TranscriptsAreTheirSessions'
  BY <1>1, <1>2, <1>3 DEF TranscriptsAreTheirSessions, C!ReadTranscript, C!turnVars
<1>8. SpinsWhileStreaming' /\ C!ShownIsOpen' /\ C!AnswersStayWithTheirQuestion'
  BY DEF SpinsWhileStreaming, C!ShownIsOpen, C!AnswersStayWithTheirQuestion,
     C!ReadTranscript, C!turnVars
<1>9. SteadyIsShown'
  BY DEF SteadyIsShown, C!ReadTranscript
<1> QED
  BY <1>4, <1>5, <1>6, <1>7, <1>8, <1>9

LEMMA TranscriptIsShown ==
  ASSUME ConversationInv, NEW l \in loads, C!Loaded(l)
  PROVE  ConversationInv'
<1> USE DEF ConversationInv
<1>1. l \in TranscriptRequest /\ l.of = sessionId /\ l.of \in Sessions
  BY DEF ConversationTypes, OneRequest, TranscriptRequest
<1>2. l.transcript \in Seq(Questions)
  BY <1>1 DEF C!Loaded, TranscriptRequest
<1>3. \A i \in DOMAIN l.transcript : l.transcript[i] \in Questions
  BY <1>2
<1>4. /\ shown' \in Seq(C!Exchange)
      /\ DOMAIN shown' = DOMAIN l.transcript
      /\ \A i \in DOMAIN shown' : shown'[i] = C!SavedExchange(l.transcript[i])
  <2>1. \A i \in DOMAIN l.transcript : C!SavedExchange(l.transcript[i]) \in C!Exchange
    BY <1>3 DEF C!SavedExchange, C!Exchange
  <2> QED
    BY <1>2, <2>1 DEF C!Loaded
<1>5. loads' = {} /\ steady = {}
  BY DEF OneRequest, SteadyIsShown, C!Loaded
<1>6. ConversationTypes'
  BY <1>4, <1>5 DEF ConversationTypes, C!Loaded, C!turnVars
<1>7. OneRequest' /\ KnownIsSent'
  BY <1>5 DEF OneRequest, KnownIsSent, C!Loaded, C!turnVars
<1>8. TranscriptsAreTheirSessions'
  BY <1>5 DEF TranscriptsAreTheirSessions, C!Loaded, C!turnVars
<1>9. SpinsWhileStreaming' /\ C!AnswersStayWithTheirQuestion'
  <2>1. \A i \in DOMAIN shown' : ~ shown'[i].spins /\ shown'[i].answer = shown'[i].asks
    <3>1. ASSUME NEW q
          PROVE  ~ C!SavedExchange(q).spins
                 /\ C!SavedExchange(q).answer = C!SavedExchange(q).asks
      BY DEF C!SavedExchange
    <3> QED
      BY <1>4, <3>1
  <2> QED
    BY <2>1 DEF SpinsWhileStreaming, C!AnswersStayWithTheirQuestion
<1>10. C!ShownIsOpen'
  BY <1>1, <1>4 DEF C!ShownIsOpen, TranscriptsAreTheirSessions, C!SavedExchange,
     C!Loaded, C!turnVars
<1>11. SteadyIsShown'
  BY <1>5 DEF SteadyIsShown, C!Loaded
<1> QED
  BY <1>6, <1>7, <1>8, <1>9, <1>10, <1>11

LEMMA TranscriptIsLost ==
  ASSUME ConversationInv, NEW l \in loads, C!LoadFails(l)
  PROVE  ConversationInv'
<1> USE DEF ConversationInv
<1>1. loads' = {} /\ steady = {}
  BY DEF OneRequest, SteadyIsShown, C!LoadFails
<1>2. ConversationTypes' /\ OneRequest' /\ KnownIsSent'
  BY <1>1 DEF ConversationTypes, OneRequest, KnownIsSent, C!LoadFails, C!turnVars
<1>3. TranscriptsAreTheirSessions' /\ SpinsWhileStreaming'
  BY <1>1 DEF TranscriptsAreTheirSessions, SpinsWhileStreaming, C!LoadFails, C!turnVars
<1>4. C!ShownIsOpen' /\ C!AnswersStayWithTheirQuestion' /\ SteadyIsShown'
  BY <1>1 DEF C!ShownIsOpen, C!AnswersStayWithTheirQuestion, SteadyIsShown, C!LoadFails,
     C!turnVars
<1> QED
  BY <1>2, <1>3, <1>4

LEMMA QuestionIsSent ==
  ASSUME ConversationInv, NEW q \in Questions, C!Send(q)
  PROVE  ConversationInv'
<1> USE DEF ConversationInv
<1> DEFINE n == Len(shown) + 1
<1>1. C!Shell(q) \in C!Exchange /\ C!Shell(q).asks = q /\ C!Shell(q).live
      /\ C!Shell(q).answer = None
  BY DEF C!Shell, C!Exchange
<1>2. /\ shown' \in Seq(C!Exchange)
      /\ DOMAIN shown' = DOMAIN shown \cup {n}
      /\ \A i \in DOMAIN shown : shown'[i] = shown[i]
      /\ shown'[n] = C!Shell(q)
  BY <1>1 DEF ConversationTypes, C!Send
<1> HIDE DEF n
<1>3. stream' \in C!Turn /\ stream'.asks = q /\ stream'.at = "open" /\ stream' # None
      /\ stream = None
  BY WorkspaceAssumption DEF ConversationTypes, C!Send, C!Turn
<1>4. /\ session' \in [Questions -> Sessions \cup {None}]
      /\ session'[q] = sessionId /\ sessionId \in Sessions /\ sessionId # None
      /\ \A r \in Questions : r # q => session'[r] = session[r]
  BY DEF ConversationTypes, C!Send
<1>5. ConversationTypes'
  BY <1>2, <1>3, <1>4 DEF ConversationTypes, C!Send
<1>6. OneRequest'
  BY DEF OneRequest, C!Send
<1>7. KnownIsSent'
  BY <1>3, <1>4 DEF KnownIsSent, ConversationTypes, C!Send
<1>8. TranscriptsAreTheirSessions'
  <2>1. \A s \in Sessions : \A i \in DOMAIN saved[s] :
          saved[s][i] \in Questions /\ saved[s][i] # q
    BY WorkspaceAssumption DEF TranscriptsAreTheirSessions, ConversationTypes, C!Send
  <2>2. \A l \in loads : l.transcript # None =>
          \A i \in DOMAIN l.transcript :
            l.transcript[i] \in Questions /\ l.transcript[i] # q
    BY WorkspaceAssumption DEF TranscriptsAreTheirSessions, ConversationTypes, C!Send,
       TranscriptRequest
  <2> QED
    BY <1>4, <2>1, <2>2 DEF TranscriptsAreTheirSessions, C!Send
<1>9. SpinsWhileStreaming'
  BY <1>1, <1>2, <1>3 DEF SpinsWhileStreaming
<1>10. C!ShownIsOpen'
  <2>1. \A i \in DOMAIN shown : shown[i] \in C!Exchange
    BY DEF ConversationTypes
  <2>2. \A i \in DOMAIN shown : shown[i].asks \in Questions
    BY <2>1 DEF C!Exchange
  <2> QED
    BY <1>1, <1>2, <1>4, <2>2, WorkspaceAssumption DEF C!ShownIsOpen, C!Send
<1>11. C!AnswersStayWithTheirQuestion'
  BY <1>1, <1>2 DEF C!AnswersStayWithTheirQuestion
<1>12. SteadyIsShown'
  <2>1. steady' # {} => loads' = {} /\ ~ loading'
    BY DEF SteadyIsShown, OneRequest, C!Send
  <2>2. q \notin told /\ told' = told
    BY DEF KnownIsSent, C!Send
  <2>3. \A r \in steady' : \E i \in DOMAIN shown' : Follows(i, r)'
    <3> TAKE r \in steady'
    <3>1. CASE r = q
      BY <1>1, <1>2, <1>3, <2>2, <3>1 DEF Follows
    <3>2. CASE r # q
      <4>1. r \in steady
        BY <3>2 DEF C!Send
      <4>2. PICK i \in DOMAIN shown : Follows(i, r)
        BY <4>1 DEF SteadyIsShown
      <4> QED
        BY <1>2, <1>3, <2>2, <3>2, <4>2 DEF Follows
    <3> QED
      BY <3>1, <3>2
  <2> QED
    BY <2>1, <2>3 DEF SteadyIsShown
<1> QED
  BY <1>5, <1>6, <1>7, <1>8, <1>9, <1>10, <1>11, <1>12

LEMMA TurnIsCommitted ==
  ASSUME ConversationInv, NEW q \in Questions, C!TurnCommits(q)
  PROVE  ConversationInv'
<1> USE DEF ConversationInv
<1> DEFINE s == session[q]
<1>1. s \in Sessions
  BY DEF ConversationTypes, KnownIsSent, C!TurnCommits
<1>2. /\ saved' \in [Sessions -> Seq(Questions)]
      /\ saved'[s] = Append(saved[s], q)
      /\ \A t \in Sessions : t # s => saved'[t] = saved[t]
  BY <1>1 DEF ConversationTypes, C!TurnCommits
<1>3. ConversationTypes'
  BY <1>2 DEF ConversationTypes, C!TurnCommits
<1>4. OneRequest' /\ KnownIsSent'
  BY DEF OneRequest, KnownIsSent, ConversationTypes, C!TurnCommits
<1>5. TranscriptsAreTheirSessions'
  <2>1. \A i \in DOMAIN saved'[s] : session[saved'[s][i]] = s
    BY <1>1, <1>2 DEF TranscriptsAreTheirSessions, ConversationTypes
  <2> QED
    BY <1>2, <2>1 DEF TranscriptsAreTheirSessions, C!TurnCommits
<1>6. SpinsWhileStreaming' /\ C!ShownIsOpen' /\ C!AnswersStayWithTheirQuestion'
  BY DEF SpinsWhileStreaming, C!ShownIsOpen, C!AnswersStayWithTheirQuestion,
     C!TurnCommits
<1>7. SteadyIsShown'
  BY Zenon DEF SteadyIsShown, Follows, C!TurnCommits
<1> QED
  BY <1>3, <1>4, <1>5, <1>6, <1>7

LEMMA TurnIsRolledBack ==
  ASSUME ConversationInv, NEW q \in Questions, C!TurnFails(q)
  PROVE  ConversationInv'
<1> USE DEF ConversationInv
<1>1. ConversationTypes' /\ OneRequest' /\ KnownIsSent'
  BY DEF ConversationTypes, OneRequest, KnownIsSent, C!TurnFails
<1>2. TranscriptsAreTheirSessions' /\ SpinsWhileStreaming'
  BY DEF TranscriptsAreTheirSessions, SpinsWhileStreaming, C!TurnFails
<1>3. C!ShownIsOpen' /\ C!AnswersStayWithTheirQuestion'
  BY DEF C!ShownIsOpen, C!AnswersStayWithTheirQuestion, C!TurnFails
<1>4. SteadyIsShown'
  BY Zenon DEF SteadyIsShown, Follows, C!TurnFails
<1> QED
  BY <1>1, <1>2, <1>3, <1>4

(* An event patches the streaming shell, and the stream goes on to next; the *)
(* two cases of told are those of the done event and of any other.           *)
LEMMA EventArrives ==
  ASSUME ConversationInv, stream # None,
         shown' \in {C!Patch(stream.asks, C!Answered), C!Patch(stream.asks, C!Stopped),
                     C!Patch(stream.asks, C!Broken)},
         shown' \in Seq(C!Exchange),
         NEW next \in {"tokens", "over"}, stream' = [stream EXCEPT !.at = next],
         next = "tokens" => shown' = C!Patch(stream.asks, C!Answered),
         \/ told' = told
         \/ stream.at = "tokens" /\ told' = told \cup {stream.asks},
         UNCHANGED <<sessionId, loading, loads, streaming, session, server, saved,
                     steady, stranded>>
  PROVE  ConversationInv'
<1> USE DEF ConversationInv
<1>1. stream \in C!Turn /\ shown \in Seq(C!Exchange)
  BY DEF ConversationTypes
<1>2. /\ stream' \in C!Turn /\ stream' # None
      /\ stream'.asks = stream.asks /\ stream'.at = next
  BY <1>1, WorkspaceAssumption DEF C!Turn
<1>3. /\ DOMAIN shown' = DOMAIN shown
      /\ \A i \in DOMAIN shown :
           /\ shown'[i].asks = shown[i].asks
           /\ shown'[i].live = shown[i].live
           /\ shown'[i].spins => shown[i].spins
           /\ shown'[i].answer \in {shown[i].answer, shown[i].asks}
           /\ shown'[i].answer # shown[i].answer => shown[i].asks = stream.asks
  BY <1>1, PatchKeeps
<1>4. stream.asks \in Questions
  BY <1>1 DEF C!Turn
<1>5. ConversationTypes'
  BY <1>2, <1>4 DEF ConversationTypes
<1>6. OneRequest' /\ TranscriptsAreTheirSessions'
  BY DEF OneRequest, TranscriptsAreTheirSessions
<1>7. KnownIsSent'
  BY <1>2 DEF KnownIsSent
<1>8. SpinsWhileStreaming'
  BY <1>2, <1>3 DEF SpinsWhileStreaming
<1>9. C!ShownIsOpen' /\ C!AnswersStayWithTheirQuestion'
  BY <1>3 DEF C!ShownIsOpen, C!AnswersStayWithTheirQuestion
<1>10. SteadyIsShown'
  <2>1. ASSUME NEW q \in steady
        PROVE  \E i \in DOMAIN shown' : Follows(i, q)'
    <3>1. PICK i \in DOMAIN shown : Follows(i, q)
      BY DEF SteadyIsShown
    <3>2. shown'[i].live /\ shown'[i].asks = q
      BY <1>3, <3>1 DEF Follows
    <3>3. (stream'.asks = q /\ stream'.at = "tokens") => shown'[i].answer = q
      BY <1>1, <1>2, <3>1, PatchChanges DEF Follows
    <3>4. q \in told' => shown'[i].answer = q
      BY <1>3, <3>1 DEF Follows
    <3> QED
      BY <1>3, <3>2, <3>3, <3>4 DEF Follows
  <2> QED
    BY <2>1 DEF SteadyIsShown
<1> QED
  BY <1>5, <1>6, <1>7, <1>8, <1>9, <1>10

LEMMA Answering ==
  ASSUME ConversationInv, C!Tokens \/ C!Done \/ C!ErrorEvent \/ C!Lost
  PROVE  ConversationInv'
<1>1. stream # None /\ stream \in C!Turn /\ shown \in Seq(C!Exchange)
  BY DEF ConversationInv, ConversationTypes, C!Tokens, C!Done, C!ErrorEvent, C!Lost,
     C!Arrives
<1>2. /\ C!Patch(stream.asks, C!Answered) \in Seq(C!Exchange)
      /\ C!Patch(stream.asks, C!Stopped) \in Seq(C!Exchange)
      /\ C!Patch(stream.asks, C!Broken) \in Seq(C!Exchange)
  BY <1>1, UpdateTypes, PatchTypes
<1>3. CASE C!Tokens
  <2>1. /\ shown' = C!Patch(stream.asks, C!Answered)
        /\ stream' = [stream EXCEPT !.at = "tokens"]
    BY <1>3 DEF C!Tokens, C!Arrives
  <2>2. /\ told' = told
        /\ UNCHANGED <<sessionId, loading, loads, streaming, session, server, saved,
                       steady, stranded>>
    BY <1>3 DEF C!Tokens, C!Arrives, C!turnVars
  <2> QED
    BY <1>1, <1>2, <2>1, <2>2, EventArrives
<1>4. CASE C!Done
  <2>1. /\ shown' = C!Patch(stream.asks, C!Stopped)
        /\ stream' = [stream EXCEPT !.at = "over"]
    BY <1>4 DEF C!Done, C!Arrives
  <2>2. /\ stream.at = "tokens" /\ told' = told \cup {stream.asks}
        /\ UNCHANGED <<sessionId, loading, loads, streaming, session, server, saved,
                       steady, stranded>>
    BY <1>4 DEF C!Done, C!Arrives, C!turnVars
  <2> QED
    BY <1>1, <1>2, <2>1, <2>2, EventArrives
<1>5. CASE C!ErrorEvent \/ C!Lost
  <2>1. /\ shown' = C!Patch(stream.asks, C!Broken)
        /\ stream' = [stream EXCEPT !.at = "over"]
    BY <1>5 DEF C!ErrorEvent, C!Lost, C!Arrives
  <2>2. /\ told' = told
        /\ UNCHANGED <<sessionId, loading, loads, streaming, session, server, saved,
                       steady, stranded>>
    BY <1>5 DEF C!ErrorEvent, C!Lost, C!Arrives, C!turnVars
  <2> QED
    BY <1>1, <1>2, <2>1, <2>2, EventArrives
<1> QED
  BY <1>3, <1>4, <1>5

LEMMA BodyEnds ==
  ASSUME ConversationInv, C!Cut
  PROVE  ConversationInv'
<1> USE DEF ConversationInv
<1>1. /\ stream # None /\ stream' \in C!Turn /\ stream' # None
      /\ stream'.asks = stream.asks /\ stream'.at = "over"
  BY WorkspaceAssumption DEF ConversationTypes, C!Cut, C!Turn
<1>2. ConversationTypes'
  BY <1>1 DEF ConversationTypes, C!Cut, C!turnVars
<1>3. OneRequest' /\ TranscriptsAreTheirSessions' /\ KnownIsSent'
  BY <1>1 DEF OneRequest, TranscriptsAreTheirSessions, KnownIsSent, C!Cut, C!turnVars
<1>4. SpinsWhileStreaming'
  BY <1>1 DEF SpinsWhileStreaming, C!Cut
<1>5. C!ShownIsOpen' /\ C!AnswersStayWithTheirQuestion'
  BY DEF C!ShownIsOpen, C!AnswersStayWithTheirQuestion, C!Cut, C!turnVars
<1>6. SteadyIsShown'
  BY <1>1 DEF SteadyIsShown, Follows, C!Cut
<1> QED
  BY <1>2, <1>3, <1>4, <1>5, <1>6

LEMMA StreamFinishes ==
  ASSUME ConversationInv, C!Finish
  PROVE  ConversationInv'
<1> USE DEF ConversationInv
<1>1. /\ stream # None /\ stream \in C!Turn /\ stream.at = "over"
      /\ shown \in Seq(C!Exchange)
  BY DEF ConversationTypes, C!Finish
<1>2. shown' = C!Patch(stream.asks, C!Stopped) /\ shown' \in Seq(C!Exchange)
  BY <1>1, UpdateTypes, PatchTypes DEF C!Finish
<1>3. /\ DOMAIN shown' = DOMAIN shown
      /\ \A i \in DOMAIN shown :
           /\ shown'[i].asks = shown[i].asks
           /\ shown'[i].live = shown[i].live
           /\ shown'[i].spins => shown[i].spins
           /\ shown'[i].answer \in {shown[i].answer, shown[i].asks}
  BY <1>1, <1>2, PatchKeeps
<1>4. \A i \in DOMAIN shown' : ~ shown'[i].spins
  BY <1>1, <1>2, <1>3, PatchChanges DEF SpinsWhileStreaming
<1>5. ConversationTypes'
  BY <1>2 DEF ConversationTypes, C!Finish, C!turnVars
<1>6. OneRequest' /\ TranscriptsAreTheirSessions' /\ KnownIsSent'
  BY DEF OneRequest, TranscriptsAreTheirSessions, KnownIsSent, C!Finish, C!turnVars
<1>7. SpinsWhileStreaming'
  BY <1>4 DEF SpinsWhileStreaming
<1>8. C!ShownIsOpen' /\ C!AnswersStayWithTheirQuestion'
  BY <1>3 DEF C!ShownIsOpen, C!AnswersStayWithTheirQuestion, C!Finish, C!turnVars
<1>9. SteadyIsShown'
  <2>1. ASSUME NEW q \in steady
        PROVE  \E i \in DOMAIN shown' : Follows(i, q)'
    <3>1. PICK i \in DOMAIN shown : Follows(i, q)
      BY DEF SteadyIsShown
    <3> QED
      BY <1>3, <3>1 DEF Follows, C!Finish
  <2> QED
    BY <2>1 DEF SteadyIsShown, C!Finish
<1> QED
  BY <1>5, <1>6, <1>7, <1>8, <1>9

-----------------------------------------------------------------------------
(* The rail. *)

LEMMA ShelfUnchanged ==
  ASSUME ShelfInv, UNCHANGED shelfVars
  PROVE  ShelfInv'
  BY DEF ShelfInv, S!PollsUnlessMissed, shelfVars, paperVars, sessionVars

(* A request for a listing. *)
LEMMA ListingTypes ==
  \A w \in Papers \cup {"mount", "poll", "upload"} : S!ListingFor(w) \in Listings
  BY DEF S!ListingFor, Listings

(* What a listing leaves of the removals and the upload keeps its type. *)
LEMMA ResumedTypes ==
  ASSUME ShelfInv, NEW l, S!Resumed(l)
  PROVE  /\ removing' \in [Papers -> Removal]
         /\ uploading' \in [paper : Papers, at : {"sent", "refresh"}] \cup {None}
<1>1. ASSUME NEW p \in Papers
      PROVE  [removing EXCEPT ![p].at = "refreshed"] \in [Papers -> Removal]
  <2>1. removing[p] \in Removal
    BY DEF ShelfInv
  <2>2. [removing[p] EXCEPT !.at = "refreshed"] \in Removal
    BY <2>1 DEF Removal
  <2> QED
    BY <2>2 DEF ShelfInv
<1> QED
  BY <1>1 DEF ShelfInv, S!Resumed

LEMMA PapersAreListed ==
  ASSUME ShelfInv, NEW l \in lists, S!List(l) \/ S!Listed(l) \/ S!ListFails(l)
  PROVE  ShelfInv'
<1>1. l \in Listings
  BY DEF ShelfInv
<1>2. CASE S!List(l)
  <2>1. [l EXCEPT !.papers = status] \in Listings
    BY <1>1 DEF Listings, ShelfInv
  <2>2. lists' # {} /\ lists' \subseteq Listings
    BY <1>2, <2>1 DEF S!List, ShelfInv
  <2> QED
    BY <1>2, <2>2 DEF ShelfInv, S!List, S!PollsUnlessMissed, S!sessionVars
<1>3. CASE S!Listed(l)
  <2>1. rail' \in [Papers -> S!ProcessingStatus]
    BY <1>1, <1>3 DEF S!Listed, Listings
  <2>2. timer' \in BOOLEAN /\ S!PollsUnlessMissed'
    BY <1>3 DEF S!Listed, S!Schedule, S!PollsUnlessMissed
  <2>3. lists' \subseteq Listings
    BY <1>3 DEF S!Listed, ShelfInv
  <2> QED
    BY <1>3, <2>1, <2>2, <2>3, ResumedTypes DEF ShelfInv, S!Listed, S!sessionVars
<1>4. CASE S!ListFails(l)
  <2>1. lists' \subseteq Listings /\ missed'
    BY <1>4 DEF S!ListFails, ShelfInv
  <2> QED
    BY <1>4, <2>1, ResumedTypes
       DEF ShelfInv, S!ListFails, S!PollsUnlessMissed, S!sessionVars
<1> QED
  BY <1>2, <1>3, <1>4

LEMMA PapersMove ==
  ASSUME ShelfInv, NEW p \in Papers, S!Settle(p) \/ S!Upload(p)
  PROVE  ShelfInv'
<1>1. CASE S!Settle(p)
  BY <1>1 DEF ShelfInv, S!Settle, S!ProcessingStatus, S!PollsUnlessMissed,
     S!sessionVars
<1>2. CASE S!Upload(p)
  BY <1>2 DEF ShelfInv, S!Upload, S!PollsUnlessMissed, S!sessionVars
<1> QED
  BY <1>1, <1>2

LEMMA PapersAreAskedFor ==
  ASSUME ShelfInv, S!Poll \/ S!Rejected
  PROVE  ShelfInv'
<1>1. CASE S!Poll
  BY <1>1, ListingTypes DEF ShelfInv, S!Poll, S!PollsUnlessMissed, S!sessionVars
<1>2. CASE S!Rejected
  BY <1>2 DEF ShelfInv, S!Rejected, S!PollsUnlessMissed, S!sessionVars
<1> QED
  BY <1>1, <1>2

LEMMA UploadIsAccepted ==
  ASSUME ShelfInv, S!Accepted
  PROVE  ShelfInv'
<1>1. uploading \in [paper : Papers, at : {"sent", "refresh"}]
  BY DEF ShelfInv, S!Accepted
<1>2. uploading' \in [paper : Papers, at : {"sent", "refresh"}]
  BY <1>1 DEF S!Accepted
<1>3. status' \in [Papers -> S!ProcessingStatus]
  BY <1>1 DEF ShelfInv, S!Accepted, S!ProcessingStatus
<1>4. lists' \subseteq Listings /\ lists' # {}
  BY ListingTypes DEF ShelfInv, S!Accepted
<1> QED
  BY <1>2, <1>3, <1>4 DEF ShelfInv, S!Accepted, S!PollsUnlessMissed, S!sessionVars

LEMMA PaperIsRemoved ==
  ASSUME ShelfInv, NEW p \in Papers,
         S!Remove(p) \/ S!Revoked(p) \/ S!RemoveFails(p) \/ S!Removed(p)
  PROVE  ShelfInv'
<1>1. removing[p] \in Removal /\ S!NotRemoving \in Removal
  BY DEF ShelfInv, S!NotRemoving, Removal
<1>2. CASE S!Remove(p)
  <2>1. [at |-> "sent", sessions |-> known] \in Removal
    BY DEF ShelfInv, Removal
  <2>2. rail' \in [Papers -> S!ProcessingStatus] /\ removing' \in [Papers -> Removal]
    BY <1>2, <2>1 DEF ShelfInv, S!Remove, S!ProcessingStatus
  <2>3. timer' \in BOOLEAN /\ S!PollsUnlessMissed'
    BY <1>2 DEF S!Remove, S!Schedule, S!PollsUnlessMissed
  <2> QED
    BY <1>2, <2>2, <2>3 DEF ShelfInv, S!Remove, S!sessionVars
<1>3. CASE S!Revoked(p)
  <2>1. [removing[p] EXCEPT !.at = "refresh"] \in Removal
    BY <1>1 DEF Removal
  <2>2. removing' \in [Papers -> Removal] /\ status' \in [Papers -> S!ProcessingStatus]
    BY <1>3, <2>1 DEF ShelfInv, S!Revoked, S!ProcessingStatus
  <2>3. lists' \subseteq Listings /\ lists' # {}
    BY <1>3, ListingTypes DEF ShelfInv, S!Revoked
  <2> QED
    BY <1>3, <2>2, <2>3 DEF ShelfInv, S!Revoked, S!PollsUnlessMissed, S!sessionVars
<1>4. CASE S!RemoveFails(p)
  <2>1. lists' \subseteq Listings /\ lists' # {}
    BY <1>4, ListingTypes DEF ShelfInv, S!RemoveFails
  <2> QED
    BY <1>1, <1>4, <2>1 DEF ShelfInv, S!RemoveFails, S!PollsUnlessMissed, S!sessionVars
<1>5. CASE S!Removed(p)
  BY <1>1, <1>5 DEF ShelfInv, S!Removed, S!PollsUnlessMissed, S!sessionVars
<1> QED
  BY <1>2, <1>3, <1>4, <1>5

LEMMA SessionIsCreated ==
  ASSUME ShelfInv, NEW s \in Sessions,
         S!Create(s) \/ S!CreatedOnServer(s) \/ S!CreateFails(s)
  PROVE  ShelfInv'
<1>1. CASE S!Create(s) \/ S!CreateFails(s)
  BY <1>1 DEF ShelfInv, S!Create, S!CreateFails, S!PollsUnlessMissed, S!paperVars
<1>2. CASE S!CreatedOnServer(s)
  <2>1. S!Refreshing(s) \in SessionListings /\ S!Refreshing(s).sessions = None
    BY DEF S!Refreshing, SessionListings
  <2>2. /\ refreshes' \subseteq SessionListings
        /\ \A r \in refreshes' : r.sessions # None => r.sessions \subseteq exists'
    BY <1>2, <2>1 DEF ShelfInv, S!CreatedOnServer
  <2> QED
    BY <1>2, <2>2 DEF ShelfInv, S!CreatedOnServer, S!PollsUnlessMissed, S!paperVars
<1> QED
  BY <1>1, <1>2

LEMMA SessionsAreListed ==
  ASSUME ShelfInv, NEW r \in refreshes,
         S!ListSessions(r) \/ S!SessionsListed(r) \/ S!RefreshFails(r)
  PROVE  ShelfInv'
<1>1. r \in SessionListings
  BY DEF ShelfInv
<1>2. CASE S!ListSessions(r)
  <2> DEFINE x == [r EXCEPT !.sessions = exists]
  <2>1. x \in SessionListings /\ x.sessions = exists
    BY <1>1 DEF SessionListings, ShelfInv
  <2>2. refreshes' = (refreshes \ {r}) \cup {x} /\ exists' = exists
    BY <1>2 DEF S!ListSessions
  <2> HIDE DEF x
  <2>3. /\ refreshes' \subseteq SessionListings
        /\ \A y \in refreshes' : y.sessions # None => y.sessions \subseteq exists'
    BY <2>1, <2>2 DEF ShelfInv
  <2> QED
    BY <1>2, <2>3 DEF ShelfInv, S!ListSessions, S!PollsUnlessMissed, S!paperVars
<1>3. CASE S!SessionsListed(r)
  BY <1>3 DEF ShelfInv, S!SessionsListed, S!PollsUnlessMissed, S!paperVars
<1>4. CASE S!RefreshFails(r)
  BY <1>4 DEF ShelfInv, S!RefreshFails, S!PollsUnlessMissed, S!paperVars
<1> QED
  BY <1>2, <1>3, <1>4

LEMMA TurnRefreshesSessions ==
  ASSUME ShelfInv, S!RefreshSessions
  PROVE  ShelfInv'
<1>1. S!Refreshing("turn") \in SessionListings /\ S!Refreshing("turn").sessions = None
  BY DEF S!Refreshing, SessionListings
<1> QED
  BY <1>1 DEF ShelfInv, S!RefreshSessions, S!PollsUnlessMissed, S!paperVars

-----------------------------------------------------------------------------
(* The page. *)

LEMMA PageStarts == Init => PageInv
<1> SUFFICES ASSUME Init PROVE PageInv
  OBVIOUS
<1>1. ConversationTypes
  <2>1. <<>> \in Seq(C!Exchange) /\ <<>> \in Seq(Questions)
    OBVIOUS
  <2> QED
    BY <2>1 DEF Init, C!ConversationInit, ConversationTypes
<1>2. OneRequest /\ KnownIsSent /\ SpinsWhileStreaming /\ SteadyIsShown
  BY DEF Init, C!ConversationInit, OneRequest, KnownIsSent, SpinsWhileStreaming,
     SteadyIsShown
<1>3. TranscriptsAreTheirSessions
  BY DEF Init, C!ConversationInit, TranscriptsAreTheirSessions
<1>4. C!ShownIsOpen /\ C!AnswersStayWithTheirQuestion
  BY DEF Init, C!ConversationInit, C!ShownIsOpen, C!AnswersStayWithTheirQuestion
<1>5. ShelfInv
  <2>1. [at |-> "no", sessions |-> {}] \in Removal
    BY DEF Removal
  <2>2. S!ListingFor("mount") \in Listings
    BY ListingTypes
  <2>3. LET r == [why |-> "mount", sessions |-> None]
        IN  r \in SessionListings /\ r.sessions = None
    BY DEF SessionListings
  <2>4. lists # {} /\ lists \subseteq Listings /\ rail \in [Papers -> S!ProcessingStatus]
    BY <2>2 DEF Init, S!ShelfInit, S!ProcessingStatus
  <2>5. /\ refreshes \subseteq SessionListings
        /\ \A r \in refreshes : r.sessions # None => r.sessions \subseteq exists
    BY <2>3 DEF Init, S!ShelfInit
  <2> QED
    BY <2>1, <2>4, <2>5 DEF Init, S!ShelfInit, ShelfInv, S!PollsUnlessMissed
<1> QED
  BY <1>1, <1>2, <1>3, <1>4, <1>5 DEF PageInv, ConversationInv

LEMMA ShowsOpen ==
  ASSUME ConversationInv, NEW s \in Sessions \cup {None}, Show(s)
  PROVE  ConversationInv'
  BY Opens, ConversationUnchanged DEF Show

LEMMA PageStep ==
  ASSUME PageInv, [Next]_vars
  PROVE  PageInv'
<1> USE DEF PageInv
<1>1. CASE Rail /\ UNCHANGED conversationVars
  <2>1. ConversationInv'
    BY <1>1, ConversationUnchanged
  <2>2. ShelfInv'
    BY <1>1, PapersAreListed, PapersMove, PapersAreAskedFor, UploadIsAccepted,
       PaperIsRemoved, SessionIsCreated, SessionsAreListed DEF Rail
  <2> QED
    BY <2>1, <2>2
<1>2. CASE Talk /\ UNCHANGED shelfVars
  <2>1. ShelfInv'
    BY <1>2, ShelfUnchanged
  <2>2. ConversationInv'
    BY <1>2, TranscriptIsRead, TranscriptIsShown, TranscriptIsLost, QuestionIsSent,
       TurnIsCommitted, TurnIsRolledBack, Answering, BodyEnds DEF Talk
  <2> QED
    BY <2>1, <2>2
<1>3. ASSUME NEW s \in Sessions, Select(s)
      PROVE  PageInv'
  <2>1. ConversationInv'
    BY <1>3, Opens DEF Select
  <2>2. ShelfInv'
    BY <1>3 DEF Select, ShelfInv, S!PollsUnlessMissed, paperVars, sessionVars
  <2> QED
    BY <2>1, <2>2
<1>4. ASSUME NEW r \in refreshes, SessionsListed(r)
      PROVE  PageInv'
  <2>1. ConversationInv'
    BY <1>4, ShowsOpen, ConversationUnchanged DEF SessionsListed
  <2>2. ShelfInv'
    BY <1>4, SessionsAreListed DEF SessionsListed
  <2> QED
    BY <2>1, <2>2
<1>5. ASSUME NEW p \in Papers, Removed(p)
      PROVE  PageInv'
  <2>1. S!SessionAfter(p, sessionId) \in Sessions \cup {None}
    BY DEF S!SessionAfter, ConversationInv, ConversationTypes
  <2>2. ConversationInv'
    BY <1>5, <2>1, ShowsOpen DEF Removed
  <2>3. ShelfInv'
    BY <1>5, PaperIsRemoved DEF Removed
  <2> QED
    BY <2>2, <2>3
<1>6. CASE Finish
  BY <1>6, StreamFinishes, TurnRefreshesSessions DEF Finish
<1>7. CASE UNCHANGED vars
  BY <1>7, ConversationUnchanged, ShelfUnchanged DEF vars
<1> QED
  BY <1>1, <1>2, <1>3, <1>4, <1>5, <1>6, <1>7 DEF Next

LEMMA PageInvariant == Spec => []PageInv
<1> QED
  BY PageStarts, PageStep, PTL DEF Spec

(* The page stays consistent: spinners end with their stream, the open      *)
(* session shows its own exchanges, events stay under their question, an    *)
(* undisturbed question shows its answer, and a paper shown as processing   *)
(* is being asked about.                                                    *)
THEOREM PageConsistent == Spec => []PageIsConsistent
<1>1. PageInv => PageIsConsistent
  <2> SUFFICES ASSUME PageInv PROVE PageIsConsistent
    OBVIOUS
  <2> USE DEF PageInv, ConversationInv
  <2>1. C!ConversationTypeOK
    BY DEF C!ConversationTypeOK, ConversationTypes, OneRequest
  <2>2. S!ShelfTypeOK
    <3>1. \A p \in Papers : removing[p] \in Removal
      BY DEF ShelfInv
    <3>2. \A p \in Papers : removing[p].at \in {"no", "sent", "refresh", "refreshed"}
      BY <3>1 DEF Removal
    <3> QED
      BY <3>2 DEF S!ShelfTypeOK, ShelfInv
  <2>3. C!SpinnersStop
    BY DEF C!SpinnersStop, SpinsWhileStreaming, ConversationTypes
  <2>4. C!UndisturbedAnswerIsShown
    BY DEF C!UndisturbedAnswerIsShown, SteadyIsShown, Follows
  <2>5. C!ShownIsOpen /\ C!AnswersStayWithTheirQuestion /\ S!PollsUnlessMissed
    BY DEF ShelfInv
  <2> QED
    BY <2>1, <2>2, <2>3, <2>4, <2>5 DEF PageIsConsistent, TypeOK
<1> QED
  BY <1>1, PageInvariant, PTL
=============================================================================
