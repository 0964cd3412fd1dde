------------------------------- MODULE Shell --------------------------------
(***************************************************************************)
(* A tab of the web application and the session behind it.  The cookie is  *)
(* the browser's: other tabs log in and out too.  A request carries the    *)
(* cookie of the moment it was sent, and the browser takes the cookie an   *)
(* answer sets when the answer comes, in whatever order answers come.      *)
(***************************************************************************)
EXTENDS Naturals, FiniteSets

CONSTANTS Cookie,     \* session ids the server hands out
          MaxEndings  \* bound: lost answers, sessions ended, logins elsewhere

ASSUME ShellAssumption == MaxEndings \in Nat

VARIABLES jar,      \* the cookie: a session id, "other" or "none"
          store,    \* sessions the server keeps
          screen,   \* "closed", "loading", "anon", "provider" or "authed"
          dialog,   \* a dialog is open
          timer,    \* the idle timer: "off", "reset", "elapsed" or "fired"
          portal,   \* the document was opened from the portal
          asks,     \* requests in flight, with the answer of the server
          away,     \* the user has left for good
          endings,
          pardoned  \* a request no one repeats was lost, or two /auth/me crossed

shellVars == <<jar, store, screen, dialog, timer, portal, asks, away, endings,
               pardoned>>
Tabs == <<screen, dialog, timer>>
Idling == <<away, endings, pardoned>>

Kind == {"me", "login", "logout"}
Sent(kind, sid) == [kind |-> kind, sid |-> sid, answer |-> "none"]
InFlight(kind) == \E c \in asks : c.kind = kind
Ending == endings < MaxEndings /\ endings' = endings + 1

\* The browser has a session of earlier, dead or alive, or none.
ShellInit ==
  /\ jar \in Cookie \cup {"none"}
  /\ store \in {{}, {jar}} /\ store \subseteq Cookie
  /\ screen = "closed" /\ timer = "off"
  /\ dialog = FALSE
  /\ portal \in BOOLEAN
  /\ asks = {}
  /\ away = FALSE /\ endings = 0 /\ pardoned = FALSE

-----------------------------------------------------------------------------
\* A navigation drops the document, its state and its requests; the new one asks
\* who the user is.
LoadPage == /\ screen' = "loading" /\ timer' = "off" /\ dialog' = FALSE
            /\ asks' = {Sent("me", jar')}

\* The tab is opened, from the portal or not.
OpenTab == /\ screen = "closed" /\ ~away
           /\ UNCHANGED <<jar, store, portal, Idling>>
           /\ LoadPage

\* establishSession: a new id; the session the browser had before stays, and is
\* left out once nothing of the browser names it.
Carried == {c.sid : c \in asks}
Establish(new) == /\ new \notin store \cup Carried
                  /\ store' = (store \cap ({jar} \cup Carried)) \cup {new}

\* A document opened from the portal that has nobody logged in hands off by
\* itself; elsewhere the user types an address.
ShouldAutostart == screen = "anon" /\ portal
OnContinue == screen = "anon" /\ ~portal /\ ~away

ToProvider == /\ ShouldAutostart \/ OnContinue
              /\ screen' = "provider" /\ asks' = {}
              /\ UNCHANGED <<jar, store, dialog, timer, portal, Idling>>

\* The document the provider sends the user back to was opened by the page of
\* the provider only if a password was typed there.
FromPortal(typed) == portal' = typed

\* The provider sends the user back, through the callback, with a session; or
\* denied, to a page that does not hand off again.
Returns == /\ screen = "provider"
           /\ \/ UNCHANGED <<jar, store>> /\ FromPortal(FALSE)
              \/ \E typed \in BOOLEAN : /\ typed => ~away
                                        /\ jar' \in Cookie /\ Establish(jar')
                                        /\ FromPortal(typed)
           /\ LoadPage
           /\ UNCHANGED Idling

\* A user name of LoginPage signs in here; the button is busy meanwhile.
OnSignIn == /\ screen = "anon" /\ ~portal /\ ~away
            /\ ~InFlight("login") /\ ~InFlight("me")
            /\ asks' = asks \cup {Sent("login", jar)}
            /\ UNCHANGED <<jar, store, Tabs, portal, Idling>>

\* Bound: nobody clicks while an answer about the user is awaited.
LogOut == /\ screen = "authed" /\ ~away
          /\ ~InFlight("logout") /\ ~InFlight("me")
          /\ asks' = asks \cup {Sent("logout", jar)}
          /\ UNCHANGED <<jar, store, Tabs, portal, Idling>>

\* Moving the mouse resets the timer, also one that has run out.
Touch == /\ screen = "authed" /\ ~away
         /\ timer' = "reset"
         /\ UNCHANGED <<jar, store, screen, dialog, portal, asks, Idling>>

Dialog == /\ screen = "authed" /\ ~away
          /\ dialog' = ~dialog
          /\ UNCHANGED <<jar, store, screen, timer, portal, asks, Idling>>

Leave == /\ ~away /\ away' = TRUE
         /\ UNCHANGED <<jar, store, Tabs, portal, asks, endings, pardoned>>

\* Another tab of the browser logs in, or out.
Elsewhere == /\ ~away /\ Ending
             /\ \/ jar' = "other" /\ Establish(jar')
                \/ jar' = "none" /\ store' = store \ {jar}
             /\ UNCHANGED <<Tabs, portal, asks, away, pardoned>>

\* handle(): a tab whose session has expired leaves for the login page, but
\* never under an open dialog.
OnSessionExpired == IF dialog THEN UNCHANGED <<Tabs, asks>> ELSE LoadPage

\* Fault: what the page asks by itself counts as activity.
PollTouches == IF jar \in store THEN timer' = "reset" /\ UNCHANGED <<screen, dialog, asks>>
                                ELSE OnSessionExpired

\* The bell and the boards load every thirty seconds; the answer is taken at once.
LoadViews == IF jar \in store THEN UNCHANGED <<Tabs, asks>> ELSE OnSessionExpired

PollPage == /\ screen = "authed"
            /\ UNCHANGED <<jar, store, portal, Idling>>
            /\ LoadViews

\* useIdleLogout: some of the fifteen minutes have passed, and then all have;
\* the logout is sent once.
Elapse == /\ timer = "reset"
          /\ timer' = "elapsed"
          /\ UNCHANGED <<jar, store, screen, dialog, portal, asks, Idling>>
OnIdle == /\ timer = "elapsed"
          /\ timer' = "fired"
          /\ asks' = asks \cup {Sent("logout", jar)}
          /\ UNCHANGED <<jar, store, screen, dialog, portal, Idling>>

-----------------------------------------------------------------------------
\* The server: the guard looks the session up, a logout needs no live one, and a
\* login may be refused or locked out, which leaves the form as it is.
Replied(c, sid, answer) ==
  asks' = (asks \ {c}) \cup {[c EXCEPT !.sid = sid, !.answer = answer]}
Dropped(c) == asks' = asks \ {c}

ServeCall(c) ==
  /\ c.answer = "none"
  /\ \/ /\ c.kind = "me"
        /\ Replied(c, "none", IF c.sid \in store THEN "ok" ELSE "401")
        /\ UNCHANGED store
     \/ /\ c.kind = "logout"
        /\ store' = store \ {c.sid}
        /\ Replied(c, "none", "ok")
     \/ /\ c.kind = "login"
        /\ \/ \E new \in Cookie : Establish(new) /\ Replied(c, new, "ok")
           \/ UNCHANGED store /\ Dropped(c)
  /\ UNCHANGED <<jar, Tabs, portal, Idling>>

-----------------------------------------------------------------------------
\* setState of useCurrentUser mounts the shell or unmounts it, with its dialogs;
\* the idle timer is armed only when the shell was not there.
Mounted == /\ screen' = "authed"
           /\ timer' = IF screen = "authed" THEN timer ELSE "reset"
           /\ UNCHANGED dialog
Unmounted == screen' = "anon" /\ timer' = "off" /\ dialog' = FALSE

\* The answer of /auth/me, good or not, is what the tab shows, be it older than
\* what it shows already.
MeAnswered(c) == /\ c.kind = "me"
                 /\ IF c.answer = "ok" THEN Mounted ELSE Unmounted
                 /\ Dropped(c)
                 /\ pardoned' = (pardoned \/ \E d \in asks \ {c} : d.kind = "me")
                 /\ UNCHANGED jar

\* Set-Cookie, and then reload(): a logout clears whatever cookie is there.
CookieAnswered(c) == /\ c.kind \in {"login", "logout"}
                     /\ jar' = IF c.kind = "login" THEN c.sid ELSE "none"
                     /\ asks' = (asks \ {c}) \cup {Sent("me", jar')}
                     /\ UNCHANGED <<Tabs, pardoned>>

Arrives(c) == /\ c.answer # "none"
              /\ MeAnswered(c) \/ CookieAnswered(c)
              /\ UNCHANGED <<store, portal, away, endings>>

\* The network loses a request or its answer: an /auth/me without answer shows
\* the login page, a logout is not sent again.
CallLost(c) == /\ Ending
               /\ pardoned' = TRUE
               /\ Dropped(c)
               /\ IF c.kind = "me" THEN Unmounted ELSE UNCHANGED Tabs
               /\ UNCHANGED <<jar, store, portal, away>>

\* The twelve hours are over, the provider ended it, or the process restarted.
SessionEnds == /\ Ending /\ store # {}
               /\ store' \in {{}} \cup {store \ {s} : s \in store}
               /\ UNCHANGED <<jar, Tabs, portal, asks, away, pardoned>>

Passes(kind) == \E c \in asks : c.kind = kind /\ (ServeCall(c) \/ Arrives(c))

ShellNext ==
  \/ OpenTab \/ ToProvider \/ Returns \/ OnSignIn \/ LogOut
  \/ Touch \/ Dialog \/ Leave \/ Elsewhere \/ PollPage \/ Elapse \/ OnIdle \/ SessionEnds
  \/ \E c \in asks : ServeCall(c) \/ Arrives(c) \/ CallLost(c)

\* Requests are answered, intervals and timers run out; the user does as he
\* likes, and so does the provider.
ShellFairness == /\ \A kind \in Kind : WF_shellVars(Passes(kind))
                 /\ WF_shellVars(PollPage)
                 /\ WF_shellVars(away /\ Elapse) /\ WF_shellVars(away /\ OnIdle)

ShellSpec == ShellInit /\ [][ShellNext]_shellVars /\ ShellFairness

\* Requests are of their kind, the idle timer runs under a mounted shell only, and
\* so do dialogs.
ShellTypeOK ==
  /\ jar \in Cookie \cup {"other", "none"} /\ store \subseteq Cookie \cup {"other"}
  /\ asks \subseteq [kind : Kind, sid : Cookie \cup {"other", "none"},
                     answer : {"none", "ok", "401"}]
  /\ (timer # "off") = (screen = "authed")
  /\ dialog => screen = "authed"
-----------------------------------------------------------------------------
\* A tab over a dead session does not stay: it leaves for the login page, unless
\* a dialog is open, or the browser has a live session again ("defer the bounce
\* until an interactive call 401s with nothing open").
DeadSessionLeaves ==
  (screen = "authed" /\ jar \notin store)
     ~> (screen # "authed" \/ dialog \/ jar \in store)

\* A tab left alone ends up without its session for good, although its polls
\* keep the session fresh and a document from the portal logs in again, unless a
\* request that no one repeats was lost or two answers of /auth/me crossed; a
\* session of another tab is for the timer of that tab ("rồi gọi logout để đóng
\* phiên server").
LeftAlone == (away /\ screen = "authed") ~> [](jar \notin store \cap Cookie \/ pardoned)

\* Sessions end where they should, and the screens follow.
ShellHolds == DeadSessionLeaves /\ LeftAlone
=============================================================================
