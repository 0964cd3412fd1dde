----------------------------- MODULE Sessions ------------------------------
(***************************************************************************)
(* The sessions of one SSO user: login, silent refresh of an expired       *)
(* access token, logout, and offboarding by the identity provider's        *)
(* webhook.  The store lives in the memory of the one API process; each    *)
(* await of a handler is a place where the others run.  The provider       *)
(* rotates refresh tokens: one it has exchanged before is refused.         *)
(***************************************************************************)
EXTENDS Naturals, FiniteSets

CONSTANTS Sid,           \* session ids
          MaxRotations,  \* bound: refreshes of one session
          MaxOutages     \* bound: lost answers, failed deliveries, restarts

ASSUME SessionsAssumption == MaxRotations \in Nat /\ MaxOutages \in Nat

VARIABLES session,  \* session[s]: its state, refresh token, and access token
          logins,   \* sessions of logins between the code exchange and create()
          calls,    \* refreshes in flight, with the provider's answer
          idp,      \* idp[s]: the refresh token the provider will take next
          grant,    \* whether the provider still knows the user
          event,    \* the user.locked delivery
          processed,\* its event_id is in processed_webhook_event
          userStatus,\* status of the user in the local directory
          outages,
          lost,     \* sessions an answer to which was lost on the way
          refused   \* sessions ended as revoked under a live grant

sessionVars == <<session, logins, calls, idp, grant, event, processed, userStatus,
                 outages, lost, refused>>

Unused == [state |-> "unused", token |-> 0, expired |-> FALSE]
Live(s) == session[s].state = "live"

SessionsInit ==
  /\ session = [s \in Sid |-> Unused]
  /\ logins = {} /\ calls = {}
  /\ idp = [s \in Sid |-> 0]
  /\ grant = TRUE
  /\ event = "none" /\ processed = FALSE /\ userStatus = "active"
  /\ outages = 0 /\ lost = {} /\ refused = {}

AtProvider == <<idp, grant>>
Webhook == <<event, processed, userStatus>>
Ghosts == <<lost, refused>>

End(ss) == session' = [s \in Sid |-> IF s \in ss /\ Live(s)
                                       THEN [session[s] EXCEPT !.state = "ended"]
                                       ELSE session[s]]
Outage == outages < MaxOutages /\ outages' = outages + 1

-----------------------------------------------------------------------------
\* The callback takes its one-time state and exchanges the code ...
Callback(s) == /\ grant
               /\ session[s] = Unused /\ s \notin logins
               /\ logins' = logins \cup {s}
               /\ UNCHANGED <<session, calls, AtProvider, Webhook, outages, Ghosts>>

\* ... and, after three awaits, creates the session, whatever happened since.
EstablishSession(s) ==
  /\ s \in logins
  /\ logins' = logins \ {s}
  /\ session' = [session EXCEPT ![s].state = "live"]
  /\ UNCHANGED <<calls, AtProvider, Webhook, outages, Ghosts>>

TokenExpires(s) == /\ Live(s) /\ ~session[s].expired
                   /\ session' = [session EXCEPT ![s].expired = TRUE]
                   /\ UNCHANGED <<logins, calls, AtProvider, Webhook, outages, Ghosts>>

Call(s, answer) == [sid |-> s, token |-> session[s].token, answer |-> answer]

\* Fault: concurrent requests each refresh the expired token.
RefreshEach(s) ==
  /\ Live(s) /\ session[s].expired
  /\ session[s].token < MaxRotations
  /\ Call(s, "none") \notin calls
  /\ calls' = calls \cup {Call(s, "none")}
  /\ UNCHANGED <<session, logins, AtProvider, Webhook, outages, Ghosts>>

\* A request on an expired token starts a refresh, or joins the one in flight.
Refresh(s) ==
  /\ Live(s) /\ session[s].expired
  /\ session[s].token < MaxRotations
  /\ \A c \in calls : c.sid # s
  /\ calls' = calls \cup {Call(s, "none")}
  /\ UNCHANGED <<session, logins, AtProvider, Webhook, outages, Ghosts>>

Answered(c, answer) == calls' = (calls \ {c}) \cup {[c EXCEPT !.answer = answer]}

ProviderAnswers(c) ==
  /\ c.answer = "none"
  /\ IF grant /\ idp[c.sid] = c.token
       THEN Answered(c, "tokens") /\ idp' = [idp EXCEPT ![c.sid] = @ + 1]
       ELSE Answered(c, "revoked") /\ UNCHANGED idp
  /\ UNCHANGED <<session, logins, grant, Webhook, outages, Ghosts>>

\* The network fails before the provider sees the call, or after it answered.
AnswerLost(c) == /\ c.answer # "outage"
                 /\ Outage
                 /\ Answered(c, "outage")
                 /\ lost' = lost \cup {c.sid}
                 /\ UNCHANGED <<session, logins, AtProvider, Webhook, refused>>

\* Fault: the rotated tokens are written back whether or not the session lives.
UpdateTokensAnyway(c) ==
  session' = [session EXCEPT ![c.sid] =
    [state |-> "live", token |-> c.token + 1, expired |-> FALSE]]

\* updateTokens: a session that vanished while the provider was asked stays gone.
UpdateTokens(c) ==
  session' = IF ~Live(c.sid) THEN session
             ELSE [session EXCEPT ![c.sid].token = c.token + 1,
                                  ![c.sid].expired = FALSE]

Refreshed(c) == /\ c.answer = "tokens"
                /\ UpdateTokens(c)
                /\ calls' = calls \ {c}
                /\ UNCHANGED <<logins, AtProvider, Webhook, outages, Ghosts>>

\* Fault: invalid_grant is taken for an outage.
RevokedAsOutage(c) == /\ c.answer = "revoked"
                      /\ calls' = calls \ {c}
                      /\ UNCHANGED <<session, logins, AtProvider, Webhook, outages, Ghosts>>

Revoked(c) == /\ c.answer = "revoked"
              /\ End({c.sid})
              /\ refused' = IF grant /\ Live(c.sid) THEN refused \cup {c.sid} ELSE refused
              /\ calls' = calls \ {c}
              /\ UNCHANGED <<logins, AtProvider, Webhook, outages, lost>>

\* Stale claims are served, and the next request tries again.
Transient(c) == /\ c.answer = "outage"
                /\ calls' = calls \ {c}
                /\ UNCHANGED <<session, logins, AtProvider, Webhook, outages, Ghosts>>

Logout(s) == /\ Live(s)
             /\ End({s})
             /\ UNCHANGED <<logins, calls, AtProvider, Webhook, outages, Ghosts>>

\* Back-channel logout, and the cap of twelve hours on all of them.
EndAll == /\ \E s \in Sid : Live(s)
          /\ End(Sid)
          /\ UNCHANGED <<logins, calls, AtProvider, Webhook, outages, Ghosts>>

-----------------------------------------------------------------------------
\* The provider locks the user and posts the event until it gets a 2xx.
LockUser == /\ grant
            /\ grant' = FALSE
            /\ event' = "sent"
            /\ UNCHANGED <<session, logins, calls, idp, processed, userStatus, outages, Ghosts>>

\* Fault: the event is marked before it is acted on.
DeliverEventMarked == /\ event = "sent"
                      /\ event' = IF processed THEN "done" ELSE "killed"
                      /\ processed' = TRUE
                      /\ IF processed THEN UNCHANGED session ELSE End(Sid)
                      /\ UNCHANGED <<logins, calls, AtProvider, userStatus, outages, Ghosts>>

\* Checked before, marked after: a known event is acknowledged and no more.
DeliverEvent == /\ event = "sent"
                /\ event' = IF processed THEN "done" ELSE "killed"
                /\ IF processed THEN UNCHANGED session ELSE End(Sid)
                /\ UNCHANGED <<logins, calls, AtProvider, processed, userStatus, outages, Ghosts>>

SetStatus == /\ event = "killed"
             /\ event' = "recorded"
             /\ userStatus' = "locked"
             /\ UNCHANGED <<session, logins, calls, AtProvider, processed, outages, Ghosts>>

MarkProcessed == /\ event = "recorded"
                 /\ event' = "done"
                 /\ processed' = TRUE
                 /\ UNCHANGED <<session, logins, calls, AtProvider, userStatus, outages, Ghosts>>

\* The database fails under the handler, or its 200 is lost: delivered again.
Redelivered == /\ event \in {"killed", "recorded", "done"}
               /\ Outage
               /\ event' = "sent"
               /\ UNCHANGED <<session, logins, calls, AtProvider, processed, userStatus, Ghosts>>

\* The process restarts: sessions and everything in flight are lost.
Restart == /\ Outage
           /\ End(Sid)
           /\ logins' = {} /\ calls' = {}
           /\ event' = IF event \in {"killed", "recorded"} THEN "sent" ELSE event
           /\ UNCHANGED <<AtProvider, processed, userStatus, Ghosts>>

-----------------------------------------------------------------------------
HandleCall(c) == ProviderAnswers(c) \/ Refreshed(c) \/ Revoked(c) \/ Transient(c)
Offboard == DeliverEvent \/ SetStatus \/ MarkProcessed

SessionsNext ==
  \/ \E s \in Sid : \/ Callback(s) \/ EstablishSession(s) \/ TokenExpires(s)
                    \/ Refresh(s) \/ Logout(s)
  \/ \E c \in calls : HandleCall(c) \/ AnswerLost(c)
  \/ EndAll \/ LockUser \/ Offboard \/ Redelivered \/ Restart

\* Tokens expire, pages poll, the provider answers and delivers again until it
\* is acknowledged; nobody need log out.
SessionsFairness ==
  /\ \A s \in Sid : /\ WF_sessionVars(EstablishSession(s))
                    /\ WF_sessionVars(TokenExpires(s))
                    /\ WF_sessionVars(Refresh(s))
  /\ WF_sessionVars(\E c \in calls : HandleCall(c))
  /\ WF_sessionVars(Offboard)

SessionsSpec == SessionsInit /\ [][SessionsNext]_sessionVars /\ SessionsFairness
-----------------------------------------------------------------------------
\* A session is refreshed by one call at a time, with a token it was given.
SessionsTypeOK ==
  /\ \A s \in Sid : /\ session[s].state \in {"unused", "live", "ended"}
                    /\ session[s].token \in 0..MaxRotations
                    /\ session[s].token <= idp[s]
  /\ \A c, d \in calls : c.sid = d.sid => c = d
  /\ event \in {"none", "sent", "killed", "recorded", "done"}
  /\ userStatus \in {"active", "locked"} /\ outages \in 0..MaxOutages

\* A session that a logout, a kick or a restart has ended does not come back,
\* although a refresh of it may be in flight at that moment.
EndedStaysEnded ==
  [][\A s \in Sid : session[s].state = "ended" => session'[s].state = "ended"]_sessionVars

\* The requests of one page never log their own user out: under a live grant a
\* session is refused only after an answer to it was lost ("coalesce concurrent
\* expired requests so a rotating refresh token is spent once").
TokenSpentOnce == refused \subseteq lost

\* A user the provider has locked is out once the tokens have expired, even one
\* whose login was in flight when the webhook ended all sessions.
OffboardedIsOut == ~grant ~> \A s \in Sid : ~Live(s)

\* However often the handler fails half way, the directory learns of the lock.
OffboardingRecorded == event = "sent" ~> userStatus = "locked"

\* Off-boarding takes its course on both sides.
OffboardingHolds == OffboardedIsOut /\ OffboardingRecorded
=============================================================================
