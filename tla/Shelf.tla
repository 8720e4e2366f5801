------------------------------- MODULE Shelf -------------------------------
(***************************************************************************)
(* The rail in the browser: the list of papers, polled while one of them   *)
(* is being processed (frontend/src/hooks/usePapers.js), the list of       *)
(* sessions (hooks/useSessions.js), and the clicks that open and remove    *)
(* them (App.jsx).  Answers to requests may arrive in any order, and any   *)
(* request may fail.                                                       *)
(***************************************************************************)
EXTENDS Naturals, FiniteSets

CONSTANTS
  Papers, Sessions,
  About,       \* the paper a session is about, or None
  Listing,     \* the ways a request may go wrong: "fails", or nothing
  MaxClicks,   \* a bound on the reader's clicks
  None

VARIABLES
  status,      \* the reader's papers on the server
  rail,        \* the papers shown
  timer,       \* a poll is scheduled
  lists,       \* listings in flight
  removing,    \* removals in progress, with the sessions known at the click
  uploading,   \* the upload in progress
  known,       \* the sessions listed in the rail
  exists,      \* the sessions on the server
  creating,    \* sessions being created
  refreshes,   \* session listings in flight
  missed,      \* history: the last listing failed
  clicks       \* the reader's clicks left, a bound

paperVars == <<status, rail, timer, lists, removing, uploading, missed>>
sessionVars == <<known, exists, creating, refreshes>>
shelfVars == <<paperVars, sessionVars, clicks>>

ProcessingStatus == {"absent", "queued", "settled"}

(* Mutant: polled as long as nothing has settled. *)
ScheduleAll(list) == \A p \in Papers : list[p] = "queued"

(* The polling effect, run whenever the list of papers changes. *)
Schedule(list) == \E p \in Papers : list[p] = "queued"

Click == clicks > 0 /\ clicks' = clicks - 1

ListingFor(why) == [why |-> why, papers |-> None]

(* The page is loaded: both lists are asked for. *)
ShelfInit ==
  /\ status \in [Papers -> ProcessingStatus]
  /\ rail = [p \in Papers |-> "absent"]
  /\ timer = FALSE
  /\ lists = {ListingFor("mount")}
  /\ removing = [p \in Papers |-> [at |-> "no", sessions |-> {}]]
  /\ uploading = None
  /\ known = {} /\ exists \in SUBSET Sessions
  /\ creating = {}
  /\ refreshes = {[why |-> "mount", sessions |-> None]}
  /\ missed = FALSE
  /\ clicks \in 0..MaxClicks

-----------------------------------------------------------------------------
(* Listings. *)

(* The timer fires: refresh.  A bound: of two polls that are both without   *)
(* an answer, or both with the same one, only one is kept.                  *)
Poll ==
  /\ timer
  /\ timer' = FALSE
  /\ lists' = lists \cup {ListingFor("poll")}
  /\ UNCHANGED <<status, rail, removing, uploading, missed, sessionVars, clicks>>

(* The server answers a listing. *)
List(l) ==
  /\ l.papers = None
  /\ lists' = (lists \ {l}) \cup {[l EXCEPT !.papers = status]}
  /\ UNCHANGED <<status, rail, timer, removing, uploading, missed, sessionVars, clicks>>

(* What waited for this refresh goes on. *)
Resumed(l) ==
  /\ removing' = IF l.why \in Papers /\ removing[l.why].at = "refresh"
                 THEN [removing EXCEPT ![l.why].at = "refreshed"] ELSE removing
  /\ uploading' = IF l.why = "upload" THEN None ELSE uploading

Listed(l) ==
  /\ l.papers # None
  /\ rail' = l.papers
  /\ timer' = Schedule(rail')
  /\ lists' = lists \ {l}
  /\ missed' = FALSE
  /\ Resumed(l)
  /\ UNCHANGED <<status, sessionVars, clicks>>

(* The list keeps its rows; no effect runs, so no poll is scheduled. *)
ListFails(l) ==
  /\ "fails" \in Listing
  /\ lists' = lists \ {l}
  /\ missed' = TRUE
  /\ Resumed(l)
  /\ UNCHANGED <<status, rail, timer, sessionVars, clicks>>

(* Ingestion settles on the server. *)
Settle(p) ==
  /\ status[p] = "queued"
  /\ status' = [status EXCEPT ![p] = "settled"]
  /\ UNCHANGED <<rail, timer, lists, removing, uploading, missed, sessionVars, clicks>>

-----------------------------------------------------------------------------
(* Uploading. *)

Upload(p) ==
  /\ Click
  /\ uploading = None /\ status[p] = "absent" /\ rail[p] = "absent"
  /\ uploading' = [paper |-> p, at |-> "sent"]
  /\ UNCHANGED <<status, rail, timer, lists, removing, missed, sessionVars>>

Accepted ==
  /\ uploading # None /\ uploading.at = "sent"
  /\ status' = [status EXCEPT ![uploading.paper] = "queued"]
  /\ uploading' = [uploading EXCEPT !.at = "refresh"]
  /\ lists' = lists \cup {ListingFor("upload")}
  /\ UNCHANGED <<rail, timer, removing, missed, sessionVars, clicks>>

Rejected ==
  /\ "fails" \in Listing
  /\ uploading # None /\ uploading.at = "sent"
  /\ uploading' = None
  /\ UNCHANGED <<status, rail, timer, lists, removing, missed, sessionVars, clicks>>

-----------------------------------------------------------------------------
(* Removing. *)

NotRemoving == [at |-> "no", sessions |-> {}]

(* The row goes at once; the sessions are those of this render.  A bound:   *)
(* one removal of a paper at a time.                                        *)
Remove(p) ==
  /\ Click
  /\ rail[p] # "absent" /\ removing[p].at = "no"
  /\ rail' = [rail EXCEPT ![p] = "absent"]
  /\ timer' = Schedule(rail')
  /\ removing' = [removing EXCEPT ![p] = [at |-> "sent", sessions |-> known]]
  /\ UNCHANGED <<status, lists, uploading, missed, sessionVars>>

(* The grant is revoked, or was already; refresh follows. *)
Revoked(p) ==
  /\ removing[p].at = "sent"
  /\ status' = [status EXCEPT ![p] = "absent"]
  /\ removing' = [removing EXCEPT ![p].at = "refresh"]
  /\ lists' = lists \cup {ListingFor(p)}
  /\ UNCHANGED <<rail, timer, uploading, missed, sessionVars, clicks>>

(* The request is lost: finally refreshes, and the rest is skipped. *)
RemoveFails(p) ==
  /\ "fails" \in Listing
  /\ removing[p].at = "sent"
  /\ removing' = [removing EXCEPT ![p] = NotRemoving]
  /\ lists' = lists \cup {ListingFor(p)}
  /\ UNCHANGED <<status, rail, timer, uploading, missed, sessionVars, clicks>>

(* removePaper after its refresh: what it makes of the open session. *)
SessionAfter(p, open) ==
  IF open \in removing[p].sessions /\ About[open] = p THEN None ELSE open

Removed(p) ==
  /\ removing[p].at = "refreshed"
  /\ removing' = [removing EXCEPT ![p] = NotRemoving]
  /\ UNCHANGED <<status, rail, timer, lists, uploading, missed, sessionVars, clicks>>

-----------------------------------------------------------------------------
(* Sessions. *)

SessionsOf(p) == {s \in known : About[s] = p}

(* A click on a paper without a session, or on "new". *)
Create(s) ==
  /\ Click
  /\ s \notin exists \cup creating
  /\ About[s] # None => rail[About[s]] # "absent" /\ SessionsOf(About[s]) = {}
  /\ creating' = creating \cup {s}
  /\ UNCHANGED <<paperVars, known, exists, refreshes>>

Refreshing(why) == [why |-> why, sessions |-> None]

CreatedOnServer(s) ==
  /\ s \in creating \ exists
  /\ exists' = exists \cup {s}
  /\ refreshes' = refreshes \cup {Refreshing(s)}
  /\ UNCHANGED <<paperVars, known, creating, clicks>>

CreateFails(s) ==
  /\ "fails" \in Listing
  /\ s \in creating \ exists
  /\ creating' = creating \ {s}
  /\ UNCHANGED <<paperVars, known, exists, refreshes, clicks>>

ListSessions(r) ==
  /\ r.sessions = None
  /\ refreshes' = (refreshes \ {r}) \cup {[r EXCEPT !.sessions = exists]}
  /\ UNCHANGED <<paperVars, known, exists, creating, clicks>>

SessionsListed(r) ==
  /\ r.sessions # None
  /\ known' = r.sessions
  /\ creating' = creating \ {r.why}
  /\ refreshes' = refreshes \ {r}
  /\ UNCHANGED <<paperVars, exists, clicks>>

(* Nothing is caught: a creation that waits for this opens nothing. *)
RefreshFails(r) ==
  /\ "fails" \in Listing
  /\ creating' = creating \ {r.why}
  /\ refreshes' = refreshes \ {r}
  /\ UNCHANGED <<paperVars, known, exists, clicks>>

(* onTurnComplete. *)
RefreshSessions ==
  /\ refreshes' = refreshes \cup {Refreshing("turn")}
  /\ UNCHANGED <<paperVars, known, exists, creating, clicks>>

-----------------------------------------------------------------------------
(* Properties. *)

(* Every variable has its type. *)
ShelfTypeOK ==
  /\ status \in [Papers -> ProcessingStatus]
  /\ rail \in [Papers -> ProcessingStatus]
  /\ timer \in BOOLEAN /\ missed \in BOOLEAN
  /\ known \subseteq exists
  /\ creating \subseteq Sessions
  /\ \A p \in Papers : removing[p].at \in {"no", "sent", "refresh", "refreshed"}

(* A paper shown as processing is being asked about: a poll is scheduled or *)
(* a listing is on its way, whatever uploads and removals come between.     *)
PollsUnlessMissed ==
  (\E p \in Papers : rail[p] = "queued") => timer \/ lists # {} \/ missed

(* What has settled, or is gone, is not shown as processing for ever,       *)
(* however late and in whatever order listings are answered, unless one of  *)
(* them fails or the paper is uploaded again.                               *)
SettledIsShown ==
  \A p \in Papers :
    (rail[p] = "queued" /\ status[p] # "queued")
      ~> (rail[p] # "queued" \/ status[p] = "queued" \/ missed)
=============================================================================
