------------------------------ MODULE Sessions ------------------------------
(***************************************************************************)
(* The demonstration sessions of one browser: the page                     *)
(* (app/demo/demo-experience.tsx), the routes of the BFF that hold the     *)
(* cookie (app/api/v1/auth/session, _session.ts, _proxy.ts) and the        *)
(* sessions of the API (api/auth/demo-session.service.ts).  The tabs share *)
(* the cookie and each has its own idea of who is signed in; requests and  *)
(* answers cross, and any of them may be lost.                             *)
(***************************************************************************)
EXTENDS Naturals

CONSTANTS Tabs, DemoRoles,
          SharedLists, \* allowed roles of the routes that are of several
          MaxSessions, \* bound of the model, on the sessions created
          NoFlight

VARIABLES session,  \* demo_sessions by token: role and status
          cookie,   \* token of ms_demo_session, 0 when there is none
          tabRole,  \* the role each tab shows, "out" on the access screen
          authFlight,   \* the request of each tab in progress
          stray     \* history: live sessions the browser lost track of

sessionVars == <<session, cookie, tabRole, authFlight, stray>>

Tokens == 1..MaxSessions
SessionRoles == DemoRoles \cup {"out"}
SessionRows == [role : SessionRoles, status : {"unused", "live", "ended"}]
SessionFlights == [kind : {"enter", "leave", "load", "act"}, role : SessionRoles,
                   allowed : SUBSET DemoRoles,
                   token : 0..MaxSessions, made : 0..MaxSessions, ok : BOOLEAN,
                   at : {"sent", "revoked", "authorized", "answered"}]

ASSUME SessionsAssumption ==
  /\ MaxSessions \in Nat /\ SharedLists \subseteq SUBSET DemoRoles
  /\ NoFlight \notin SessionFlights

SessionsTypeOK ==
  /\ session \in [Tokens -> SessionRows] /\ cookie \in 0..MaxSessions
  /\ tabRole \in [Tabs -> SessionRoles] /\ authFlight \in [Tabs -> SessionFlights \cup {NoFlight}]
  /\ stray \subseteq Tokens

SessionsInit ==
  /\ session = [s \in Tokens |-> [role |-> "out", status |-> "unused"]]
  /\ cookie = 0 /\ tabRole = [t \in Tabs |-> "out"]
  /\ authFlight = [t \in Tabs |-> NoFlight] /\ stray = {}

Live(s) == s # 0 /\ session[s].status = "live"
Ended(s) == IF Live(s) THEN [session EXCEPT ![s].status = "ended"] ELSE session
FlightAt(t, kinds, at) == authFlight[t] # NoFlight /\ authFlight[t].kind \in kinds /\ authFlight[t].at = at
AnswersFlight(t, made, ok) ==
  authFlight' = [authFlight EXCEPT ![t].at = "answered", ![t].made = made, ![t].ok = ok]

-----------------------------------------------------------------------------
(* The page and the browser *)

Sends(t, kind, role, allowed) ==
  /\ authFlight[t] = NoFlight
  /\ authFlight' = [authFlight EXCEPT ![t] =
       [kind |-> kind, role |-> role, allowed |-> allowed, token |-> cookie, at |-> "sent",
        made |-> 0, ok |-> FALSE]]
  /\ UNCHANGED <<session, cookie, stray>>

\* createSession of the access screen and changeRole of the shell.
ChangeRole(t, role) == tabRole[t] # role /\ Sends(t, "enter", role, {}) /\ UNCHANGED tabRole
SignOut(t) == tabRole[t] # "out" /\ Sends(t, "leave", "out", {}) /\ UNCHANGED tabRole
LoadPage(t) == Sends(t, "load", "out", {}) /\ tabRole' = [tabRole EXCEPT ![t] = "out"]

\* The page a tab shows calls the routes of its role, and those it has with others:
\* categories, regions, privacy and onboarding, which are not told who asks.
CallApi(t) ==
  /\ tabRole[t] # "out"
  /\ \E allowed \in {{tabRole[t]}} \cup {list \in SharedLists : tabRole[t] \in list} :
       Sends(t, "act", tabRole[t], allowed)
  /\ UNCHANGED tabRole

\* The browser stores what the answer sets, whatever the cookie is by now; a live
\* session it overwrites without having carried it has nobody left to revoke it.
StoreCookie(token, carried) ==
  /\ cookie' = token
  /\ stray' = IF cookie \notin {token, carried} /\ Live(cookie) THEN stray \cup {cookie} ELSE stray

SessionArrives(t) ==
  /\ FlightAt(t, {"enter", "leave", "load", "act"}, "answered")
  /\ LET f == authFlight[t] IN
       /\ CASE f.kind = "enter" /\ f.ok ->
                 StoreCookie(f.made, f.token) /\ tabRole' = [tabRole EXCEPT ![t] = f.role]
            [] f.kind = "leave" ->
                 StoreCookie(0, f.token) /\ tabRole' = [tabRole EXCEPT ![t] = "out"]
            [] f.kind = "load" /\ f.ok ->
                 tabRole' = [tabRole EXCEPT ![t] = f.role] /\ UNCHANGED <<cookie, stray>>
            [] f.kind = "load" /\ ~f.ok ->
                 StoreCookie(0, f.token) /\ UNCHANGED tabRole
            [] OTHER -> UNCHANGED <<cookie, tabRole, stray>>
  /\ authFlight' = [authFlight EXCEPT ![t] = NoFlight]
  /\ UNCHANGED session

\* A request or an answer is lost: signOut shows the access screen all the same.
LoseFlight(t) ==
  /\ FlightAt(t, {"enter", "leave", "load", "act"}, "sent")
     \/ FlightAt(t, {"enter", "leave", "load", "act"}, "answered")
  /\ tabRole' = IF authFlight[t].kind = "leave" THEN [tabRole EXCEPT ![t] = "out"] ELSE tabRole
  /\ stray' = IF Live(authFlight[t].made) THEN stray \cup {authFlight[t].made} ELSE stray
  /\ authFlight' = [authFlight EXCEPT ![t] = NoFlight]
  /\ UNCHANGED <<session, cookie>>

-----------------------------------------------------------------------------
(* The routes of the BFF and the sessions of the API *)

\* Mutant: a session is created beside the one the browser has.
CreateBeside(t) ==
  /\ FlightAt(t, {"enter"}, "sent")
  /\ authFlight' = [authFlight EXCEPT ![t].at = "revoked"]
  /\ UNCHANGED <<session, cookie, tabRole, stray>>

\* create() revokes the session it is given, and ignores that it could not.
RevokePrevious(t) ==
  /\ FlightAt(t, {"enter"}, "sent")
  /\ \/ session' = Ended(authFlight[t].token) /\ UNCHANGED stray
     \/ /\ Live(authFlight[t].token) /\ stray' = stray \cup {authFlight[t].token}
        /\ UNCHANGED session
  /\ authFlight' = [authFlight EXCEPT ![t].at = "revoked"]
  /\ UNCHANGED <<cookie, tabRole>>

InsertSession(t, s) ==
  /\ FlightAt(t, {"enter"}, "revoked") /\ session[s].status = "unused"
  /\ \A r \in 1..(s - 1) : session[r].status # "unused"
  /\ session' = [session EXCEPT ![s] = [role |-> authFlight[t].role, status |-> "live"]]
  /\ AnswersFlight(t, s, TRUE)
  /\ UNCHANGED <<cookie, tabRole, stray>>

\* The insertion fails: the cookie keeps a session that is revoked.
InsertionFails(t) ==
  /\ FlightAt(t, {"enter"}, "revoked") /\ AnswersFlight(t, 0, FALSE)
  /\ UNCHANGED <<session, cookie, tabRole, stray>>

\* DELETE answers the same whether the API revoked the session or failed.
RevokeCurrent(t) ==
  /\ FlightAt(t, {"leave"}, "sent")
  /\ \/ session' = Ended(authFlight[t].token) /\ UNCHANGED stray
     \/ /\ Live(authFlight[t].token) /\ stray' = stray \cup {authFlight[t].token}
        /\ UNCHANGED session
  /\ AnswersFlight(t, 0, TRUE)
  /\ UNCHANGED <<cookie, tabRole>>

\* GET: an API that fails is answered like a session that ended.
ResolveSession(t) ==
  /\ FlightAt(t, {"load"}, "sent")
  /\ \/ /\ Live(authFlight[t].token)
        /\ authFlight' = [authFlight EXCEPT ![t].at = "answered", ![t].ok = TRUE,
                        ![t].role = session[authFlight[t].token].role]
        /\ UNCHANGED stray
     \/ /\ AnswersFlight(t, 0, FALSE)
        /\ stray' = IF Live(authFlight[t].token) THEN stray \cup {authFlight[t].token} ELSE stray
  /\ UNCHANGED <<session, cookie, tabRole>>

\* Mutant: any session may use any route.
AuthorizeAnyRole(t) ==
  /\ FlightAt(t, {"act"}, "sent") /\ Live(authFlight[t].token)
  /\ authFlight' = [authFlight EXCEPT ![t].at = "authorized"]
  /\ UNCHANGED <<session, cookie, tabRole, stray>>

\* authorize of _proxy.ts: the session is resolved, and its role is one of the route's.
Authorize(t) ==
  /\ FlightAt(t, {"act"}, "sent")
  /\ Live(authFlight[t].token) /\ session[authFlight[t].token].role \in authFlight[t].allowed
  /\ authFlight' = [authFlight EXCEPT ![t].at = "authorized"]
  /\ UNCHANGED <<session, cookie, tabRole, stray>>

Unauthorized(t) ==
  /\ FlightAt(t, {"act"}, "sent")
  /\ AnswersFlight(t, 0, FALSE)
  /\ UNCHANGED <<session, cookie, tabRole, stray>>

\* The signed call runs in the role of its headers; the session is not read again.
RunCall(t) ==
  /\ FlightAt(t, {"act"}, "authorized")
  /\ AnswersFlight(t, 0, TRUE)
  /\ UNCHANGED <<session, cookie, tabRole, stray>>

\* Four hours: the row and the cookie expire together.
SessionExpires(s) ==
  /\ Live(s)
  /\ session' = Ended(s) /\ cookie' = IF cookie = s THEN 0 ELSE cookie
  /\ UNCHANGED <<tabRole, authFlight, stray>>

SessionsNext ==
  \/ \E s \in Tokens : SessionExpires(s) \/ \E t \in Tabs : InsertSession(t, s)
  \/ \E t \in Tabs :
       \/ \E r \in DemoRoles : ChangeRole(t, r)
       \/ SignOut(t) \/ LoadPage(t) \/ CallApi(t) \/ SessionArrives(t) \/ LoseFlight(t)
       \/ RevokePrevious(t) \/ InsertionFails(t) \/ RevokeCurrent(t) \/ ResolveSession(t)
       \/ Authorize(t) \/ Unauthorized(t) \/ RunCall(t)

-----------------------------------------------------------------------------
(* Properties *)

\* "toda rota privada do BFF resolve a sessão no backend e compara o perfil permitido"
\* (docs/security/authentication.md:7): a tab whose cookie another tab replaced runs
\* nothing in the other's role, except on a route that is of both roles.
CallsRunAsAllowed == \A t \in Tabs :
  FlightAt(t, {"act"}, "answered") /\ authFlight[t].ok =>
    LET f == authFlight[t]
        ranAs == session[f.token].role
    IN  ranAs \in f.allowed /\ (ranAs = f.role \/ f.allowed \in SharedLists)

\* No session is forgotten: a live one is the cookie's, or on its way to it or to its
\* end, or was left behind by an answer lost, an answer that overtook another, or a
\* revocation that failed.
SessionsAccountedFor == \A s \in Tokens : Live(s) =>
  \/ s = cookie \/ s \in stray
  \/ \E t \in Tabs : authFlight[t] # NoFlight /\ s \in {authFlight[t].made, authFlight[t].token}

\* One cookie serves all tabs: a call runs in the role its tab shows or, on a route of
\* several roles, in another of them; no session that was replaced stays alive unnoticed.
SessionsHold == CallsRunAsAllowed /\ SessionsAccountedFor
=============================================================================
