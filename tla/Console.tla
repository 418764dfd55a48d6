------------------------------- MODULE Console -------------------------------
(***************************************************************************)
(* The operator's session in the web console, State of                     *)
(* frontend/frontend.py: signing in and out, and the two background tasks, *)
(* live_feed, which polls, and alert_ws_feed, which holds a WebSocket.     *)
(*                                                                         *)
(* A handler of the page holds the client's state from its first line to   *)
(* its last, so it is one step; a background task holds it only inside     *)
(* `async with self`, and the calls to the backend are between.  A task    *)
(* that is asked for begins later, and ends at once if one runs.           *)
(*                                                                         *)
(* Of what the console shows, the threat list stands for all the lists.    *)
(***************************************************************************)
EXTENDS Naturals

CONSTANTS SignedOut,      \* no token
          NoAnswerYet,    \* no list
          MaxLogins, MaxThreatChanges, MaxToggles, MaxUpsets

ASSUME ConsoleAssumption ==
    /\ SignedOut \notin Nat /\ NoAnswerYet \notin Nat
    /\ {MaxLogins, MaxThreatChanges, MaxToggles, MaxUpsets} \subseteq Nat

VARIABLES token,          \* the token of the session
          connected,      \* set by login and guard
          live,           \* live_enabled
          liveRunning,    \* live_feed is running, as it says
          wsRunning,      \* alert_ws_feed is running, as it says
          wsConnected,    \* the channel is shown as connected
          shown,          \* the threats shown
          feed,           \* live_feed: its step, and the token and threats it holds
          sock,           \* alert_ws_feed: its step, and the token it holds
          asked,          \* the tasks asked for
          accepted,       \* the tokens that the backend accepts
          threatList,     \* the backend's list, as a version
          logins, toggles, upsets

consoleVars == <<token, connected, live, liveRunning, wsRunning, wsConnected, shown, feed, sock,
                 asked, accepted, threatList, logins, toggles, upsets>>

Session == 1..MaxLogins
List == 0..MaxThreatChanges

ConsoleTypeOK ==
    /\ token \in Session \cup {SignedOut}
    /\ connected \in BOOLEAN /\ live \in BOOLEAN
    /\ liveRunning \in BOOLEAN /\ wsRunning \in BOOLEAN /\ wsConnected \in BOOLEAN
    /\ shown \in List
    /\ feed \in [at : {"off", "top", "poll", "expired", "apply", "end"},
                 tok : Session \cup {SignedOut}, got : List \cup {NoAnswerYet}]
    /\ sock \in [at : {"off", "top", "dial", "open", "end"}, tok : Session \cup {SignedOut}]
    /\ asked \subseteq {"feed", "sock"}
    /\ accepted \subseteq Session
    /\ threatList \in List
    /\ logins \in 0..MaxLogins
    /\ toggles \in 0..MaxToggles /\ upsets \in 0..MaxUpsets

NoFeed == [at |-> "off", tok |-> SignedOut, got |-> NoAnswerYet]
NoSock == [at |-> "off", tok |-> SignedOut]

ConsoleInit ==
    /\ token = SignedOut
    /\ connected = FALSE
    /\ live = TRUE
    /\ liveRunning = FALSE /\ wsRunning = FALSE /\ wsConnected = FALSE
    /\ shown = 0
    /\ feed = NoFeed
    /\ sock = NoSock
    /\ asked = {}
    /\ accepted = {}
    /\ threatList = 0
    /\ logins = 0 /\ toggles = 0 /\ upsets = 0

Tasks == <<feed, sock, liveRunning, wsRunning>>
Outside == <<accepted, threatList>>
Bounds == <<logins, toggles, upsets>>

\* The network fails a call.
Lost == upsets < MaxUpsets /\ upsets' = upsets + 1

-----------------------------------------------------------------------------
(* The page's handlers.                                                     *)

\* login, which a page with a token does not offer: the devices are loaded and probed, and
\* both tasks asked for.
Login ==
    /\ token = SignedOut
    /\ logins < MaxLogins
    /\ logins' = logins + 1
    /\ token' = logins + 1
    /\ accepted' = accepted \cup {logins + 1}
    /\ connected' = TRUE
    /\ asked' = {"feed", "sock"}
    /\ UNCHANGED <<live, wsConnected, shown, Tasks, threatList, toggles, upsets>>

Logout ==
    /\ token # SignedOut
    /\ token' = SignedOut
    /\ connected' = FALSE
    /\ live' = TRUE
    /\ wsConnected' = FALSE
    /\ UNCHANGED <<shown, Tasks, asked, Outside, Bounds>>

\* The page of a state that was built anew has the token of the browser's storage: it is
\* tried, dropped if the backend says 401, and kept if the backend cannot be reached.
Guard ==
    /\ token # SignedOut
    /\ ~connected
    /\ \/ /\ token \notin accepted
          /\ token' = SignedOut
          /\ UNCHANGED <<connected, asked, upsets>>
       \/ /\ token \in accepted
          /\ connected' = TRUE /\ asked' = {"feed", "sock"}
          /\ UNCHANGED <<token, upsets>>
       \/ /\ Lost
          /\ connected' = TRUE /\ asked' = {"feed", "sock"}
          /\ UNCHANGED token
    /\ UNCHANGED <<live, wsConnected, shown, Tasks, Outside, logins, toggles>>

\* toggle_live asks for the poll when it turns the updates on.
ToggleLive ==
    /\ connected
    /\ toggles < MaxToggles
    /\ toggles' = toggles + 1
    /\ live' = ~live
    /\ asked' = IF live' /\ token # SignedOut /\ ~liveRunning THEN asked \cup {"feed"} ELSE asked
    /\ UNCHANGED <<token, connected, wsConnected, shown, Tasks, Outside, logins, upsets>>

\* load_security, also as part of refresh_all and of the security page.
LoadSecurity ==
    /\ token \in accepted
    /\ shown' = threatList
    /\ UNCHANGED <<token, connected, live, wsConnected, Tasks, asked, Outside, Bounds>>

-----------------------------------------------------------------------------
(* live_feed.                                                               *)

FeedRest == <<wsRunning, wsConnected, sock, Outside, logins, toggles>>

StartFeed ==
    /\ "feed" \in asked
    /\ asked' = asked \ {"feed"}
    /\ liveRunning' = TRUE
    /\ feed' = IF liveRunning THEN feed ELSE [NoFeed EXCEPT !.at = "top"]
    /\ UNCHANGED <<token, connected, live, shown, upsets, FeedRest>>

FeedTop ==
    /\ feed.at = "top"
    /\ feed' = [NoFeed EXCEPT !.at = IF token # SignedOut /\ live THEN "poll" ELSE "end",
                              !.tok = token]
    /\ UNCHANGED <<token, connected, live, shown, liveRunning, asked, upsets, FeedRest>>

\* The calls, with the token read before; one that fails leaves its list out.
FeedPoll ==
    /\ feed.at = "poll"
    /\ \/ /\ feed.tok \notin accepted
          /\ feed' = [feed EXCEPT !.at = "expired"]
          /\ UNCHANGED upsets
       \/ /\ feed.tok \in accepted
          /\ feed' = [feed EXCEPT !.at = "apply", !.got = threatList]
          /\ UNCHANGED upsets
       \/ /\ Lost
          /\ feed' = [feed EXCEPT !.at = "apply"]
    /\ UNCHANGED <<token, connected, live, shown, liveRunning, asked, FeedRest>>

\* A 401 ends the session.
FeedExpired ==
    /\ feed.at = "expired"
    /\ feed' = [feed EXCEPT !.at = "end"]
    /\ token' = SignedOut
    /\ connected' = FALSE
    /\ UNCHANGED <<live, shown, liveRunning, asked, upsets, FeedRest>>

\* A bug: the poll leaves the list to the alert channel while that is open.
FeedApplyUnlessPushed ==
    /\ feed.at = "apply"
    /\ feed' = [NoFeed EXCEPT !.at = "top"]
    /\ shown' = IF feed.got = NoAnswerYet \/ wsConnected THEN shown ELSE feed.got
    /\ UNCHANGED <<token, connected, live, liveRunning, asked, upsets, FeedRest>>

FeedApply ==
    /\ feed.at = "apply"
    /\ feed' = [NoFeed EXCEPT !.at = "top"]
    /\ shown' = IF feed.got = NoAnswerYet THEN shown ELSE feed.got
    /\ UNCHANGED <<token, connected, live, liveRunning, asked, upsets, FeedRest>>

FeedEnd ==
    /\ feed.at = "end"
    /\ feed' = NoFeed
    /\ liveRunning' = FALSE
    /\ UNCHANGED <<token, connected, live, shown, asked, upsets, FeedRest>>

-----------------------------------------------------------------------------
(* alert_ws_feed.                                                           *)

SockRest == <<token, connected, live, liveRunning, shown, feed, Outside,
              logins, toggles>>

StartSock ==
    /\ "sock" \in asked
    /\ asked' = asked \ {"sock"}
    /\ wsRunning' = TRUE
    /\ sock' = IF wsRunning THEN sock ELSE [NoSock EXCEPT !.at = "top"]
    /\ UNCHANGED <<wsConnected, upsets, SockRest>>

SockTop ==
    /\ sock.at = "top"
    /\ sock' = [at |-> IF token # SignedOut /\ live THEN "dial" ELSE "end", tok |-> token]
    /\ UNCHANGED <<wsRunning, wsConnected, asked, upsets, SockRest>>

\* The backend takes the connection, or refuses the token, or cannot be reached.  After a
\* pause, which grows, the task tries again.
SockDial ==
    /\ sock.at = "dial"
    /\ \/ /\ sock.tok \in accepted
          /\ sock' = [sock EXCEPT !.at = "open"]
          /\ UNCHANGED <<wsConnected, upsets>>
       \/ /\ IF sock.tok \in accepted THEN Lost ELSE UNCHANGED upsets
          /\ sock' = [NoSock EXCEPT !.at = "top"]
          /\ wsConnected' = FALSE
    /\ UNCHANGED <<wsRunning, asked, SockRest>>

\* A bug: an event is shown whatever has become of the session.
SockEventUnchecked ==
    /\ sock.at = "open"
    /\ wsConnected' = TRUE
    /\ UNCHANGED <<sock, wsRunning, asked, upsets, SockRest>>

\* An event, an alert or a heartbeat: shown, or the connection closed.
SockEvent ==
    /\ sock.at = "open"
    /\ IF token = SignedOut \/ ~live
       THEN /\ sock' = [NoSock EXCEPT !.at = "top"]
            /\ UNCHANGED wsConnected
       ELSE /\ wsConnected' = TRUE
            /\ UNCHANGED sock
    /\ UNCHANGED <<wsRunning, asked, upsets, SockRest>>

\* The connection breaks, which shows, or is closed by the backend, which does not.
SockDropped ==
    /\ sock.at = "open"
    /\ Lost
    /\ sock' = [NoSock EXCEPT !.at = "top"]
    /\ wsConnected' \in {FALSE, wsConnected}
    /\ UNCHANGED <<wsRunning, asked, SockRest>>

SockEnd ==
    /\ sock.at = "end"
    /\ sock' = NoSock
    /\ wsRunning' = FALSE
    /\ wsConnected' = FALSE
    /\ UNCHANGED <<asked, upsets, SockRest>>

-----------------------------------------------------------------------------
(* What happens around the console.                                         *)

Expire ==
    /\ \E t \in accepted : accepted' = accepted \ {t}
    /\ UNCHANGED <<token, connected, live, wsConnected, shown, Tasks, asked, threatList, Bounds>>

ThreatsChange ==
    /\ threatList < MaxThreatChanges
    /\ threatList' = threatList + 1
    /\ UNCHANGED <<token, connected, live, wsConnected, shown, Tasks, asked, accepted, Bounds>>

\* The console's server restarts: its tasks are gone and the state is built anew, but the
\* browser has kept the token.
ConsoleRestart ==
    /\ Lost
    /\ connected' = FALSE
    /\ live' = TRUE
    /\ liveRunning' = FALSE /\ wsRunning' = FALSE /\ wsConnected' = FALSE
    /\ shown' = 0
    /\ feed' = NoFeed
    /\ sock' = NoSock
    /\ asked' = {}
    /\ UNCHANGED <<token, Outside, logins, toggles>>

FeedGoesOn == FeedTop \/ FeedPoll \/ FeedExpired \/ FeedApply \/ FeedEnd
SockGoesOn == SockTop \/ SockDial \/ SockEvent \/ SockEnd

ConsoleNext ==
    \/ Login \/ Logout \/ Guard \/ ToggleLive \/ LoadSecurity
    \/ StartFeed \/ FeedGoesOn \/ StartSock \/ SockGoesOn \/ SockDropped
    \/ Expire \/ ThreatsChange \/ ConsoleRestart

\* The tasks run on, the backend's heartbeat wakes the socket, and the page that is opened
\* runs its guard; nothing says that the operator acts.
ConsoleFairness ==
    /\ WF_consoleVars(StartFeed) /\ WF_consoleVars(StartSock)
    /\ WF_consoleVars(FeedGoesOn) /\ WF_consoleVars(SockGoesOn)
    /\ WF_consoleVars(Guard)

ConsoleSpec == ConsoleInit /\ [][ConsoleNext]_consoleVars
FairConsoleSpec == ConsoleSpec /\ ConsoleFairness

-----------------------------------------------------------------------------

\* Once the operator is signed out for good, both tasks end, also the one that waits on an
\* open connection: neither a poll nor a socket outlives the session.
TasksEnd ==
    <>[](token = SignedOut) => <>[](feed.at = "off" /\ sock.at = "off")

\* While the poll runs on, what is shown becomes, and stays, what the backend lists: also
\* when the answer of an earlier poll is applied after a newer list was loaded.
FeedConverges ==
    <>[](liveRunning /\ live /\ token \in accepted) => <>[](shown = threatList)

\* The channel "Reconnects with backoff while signed in" (alert_ws_feed): an operator who
\* stays signed in, with the updates on, has it again and again.
AlertsReconnect ==
    <>[](live /\ connected /\ token \in accepted) => []<>(sock.at = "open")

=============================================================================
