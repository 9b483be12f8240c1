------------------------------ MODULE Session ------------------------------
(* Who is signed in: the client's two signals (authStore.ts), the 401       *)
(* interceptor every request goes through (api.ts), the passphrase screen   *)
(* and the Log out button (PassphraseScreen.tsx, root.tsx), and the gate's  *)
(* cookie with its sliding renewal (authgate/gate.go, session.go).          *)
(*                                                                          *)
(* A request takes no time beside a session: the clock stands still while   *)
(* one is in flight.  How the cookie is signed and how the throttle counts  *)
(* are left out.                                                            *)
EXTENDS WebClient

CONSTANTS
  Window,     \* sessionWindow
  RenewAfter, \* renewAfter
  Cap,        \* absoluteCap
  MaxTime,    \* bound: the clock
  MaxCalls    \* bound: requests in flight

\* A cookie's claims, and what the passphrase screen keeps.
Token == [issued : Nat, expiry : Nat]
Form  == [submitting : BOOLEAN, locked : BOOLEAN]

ASSUME SessionAssumption ==
  /\ {Window, RenewAfter, Cap, MaxTime, MaxCalls} \subseteq Nat
  /\ 0 < RenewAfter /\ RenewAfter < Window /\ Window <= Cap
  /\ Null \notin Token /\ Null \notin Form

VARIABLES
  gated,      \* the instance has a passphrase
  now,
  cookie,     \* dt_session: when it was issued and expires, or Null
  authed, gateActive,  \* the store's signals
  persisted,  \* gateActive as the session storage has it
  form,       \* the passphrase screen, or Null while it is not mounted
  calls,      \* requests to the gated routes, and DELETE /session
  login,      \* POST /session, or Null
  loginAt,    \* when a passphrase was last accepted (history)
  lastUse,    \* when the session was last used (history)
  excuse      \* an answer came too late to be about this session (history)

sessionVars == <<gated, now, cookie, authed, gateActive, persisted, form, calls,
                 login, loginAt, lastUse, excuse>>

FreshForm == [submitting |-> FALSE, locked |-> FALSE]

Call(op) == [op |-> op, sent |-> cookie', reply |-> "none", renewed |-> Null]

\* Every route fetches when it is mounted.
Mounts(others) == calls' = others \union {Call("get")}

SessionInit ==
  /\ gated \in BOOLEAN
  /\ now = 0
  /\ cookie = Null
  /\ authed = TRUE /\ gateActive = FALSE /\ persisted = FALSE
  /\ form = Null
  /\ calls = {[op |-> "get", sent |-> Null, reply |-> "none", renewed |-> Null]}
  /\ login = Null
  /\ loginAt = 0 /\ lastUse = 0 /\ excuse = FALSE

-----------------------------------------------------------------------------
(* authgate.                                                                 *)

Verify(t) == t # Null /\ now < t.issued + Cap /\ now < t.expiry

NeedsRenew(t) == now > t.expiry - RenewAfter

RenewedAsNew(t) == [issued |-> now, expiry |-> now + Window]

\* The date of issue stays, so that the cap is not put off.
Renewed(t) == [issued |-> t.issued, expiry |-> now + Window]

\* A handler behind the gate answers or refuses; the gate's 401 comes first.
ServeCall(c) ==
  /\ c.op = "get" /\ c.reply = "none"
  /\ \E reply \in {"ok", "refused", "unauthorized"} :
       /\ (reply = "unauthorized") = (gated /\ ~Verify(c.sent))
       /\ calls' = (calls \ {c}) \union
            {[c EXCEPT !.reply = reply,
                       !.renewed = IF gated /\ Verify(c.sent) /\ NeedsRenew(c.sent)
                                     THEN Renewed(c.sent) ELSE Null]}
  /\ UNCHANGED <<gated, now, cookie, authed, gateActive, persisted, form, login,
                 loginAt, lastUse, excuse>>

\* DELETE /session needs no session.
ServeLogout(c) ==
  /\ c.op = "logout" /\ c.reply = "none"
  /\ calls' = (calls \ {c}) \union {[c EXCEPT !.reply = "ok"]}
  /\ UNCHANGED <<gated, now, cookie, authed, gateActive, persisted, form, login,
                 loginAt, lastUse, excuse>>

\* 429 or 503, a wrong passphrase, or a cookie.
ServeLogin ==
  /\ login # Null /\ login.reply = "none"
  /\ \E reply \in {"ok", "unauthorized", "refused"} :
       /\ reply = "ok" => login.correct
       /\ reply = "unauthorized" => ~login.correct
       /\ login' = [login EXCEPT !.reply = reply,
            !.token = IF reply = "ok" THEN [issued |-> now, expiry |-> now + Window]
                                      ELSE Null]
  /\ UNCHANGED <<gated, now, cookie, authed, gateActive, persisted, form, calls,
                 loginAt, lastUse, excuse>>

-----------------------------------------------------------------------------
(* authStore and apiFetch.                                                   *)

Latches == gateActive' = TRUE /\ persisted' = TRUE

\* The passphrase screen replaces the page.
MarkUnauthenticated ==
  /\ authed' = FALSE
  /\ form' = IF form = Null THEN FreshForm ELSE form
  /\ Latches

\* Any answer that is not one would sign the user out.
FlipsOnRefusal(reply) == reply # "ok"

Flips(reply) == reply = "unauthorized"

\* The marker is on every answer that passed the gate.
CallAnswered(c) ==
  /\ c.op = "get" /\ c.reply # "none"
  /\ calls' = calls \ {c}
  /\ cookie' = IF c.renewed # Null THEN c.renewed ELSE cookie
  /\ \/ /\ Flips(c.reply)
        /\ MarkUnauthenticated
        /\ excuse' = (excuse \/ c.sent # cookie)
        /\ UNCHANGED lastUse
     \/ /\ ~Flips(c.reply)
        /\ IF gated THEN Latches ELSE UNCHANGED <<gateActive, persisted>>
        /\ lastUse' = IF c.sent # Null /\ cookie # Null /\ c.sent.issued = cookie.issued
                        THEN now ELSE lastUse
        /\ excuse' = (excuse \/ (c.renewed # Null /\ c.sent # cookie))
        /\ UNCHANGED <<authed, form>>
  /\ UNCHANGED <<gated, now, login, loginAt>>

CallFailed(c) ==
  /\ c.op = "get"
  /\ calls' = calls \ {c}
  /\ UNCHANGED <<gated, now, cookie, authed, gateActive, persisted, form, login,
                 loginAt, lastUse, excuse>>

\* finally: the user is signed out whether the server heard of it or not.
LoggedOut(c) ==
  /\ c.op = "logout"
  /\ calls' = calls \ {c}
  /\ \/ c.reply = "ok" /\ cookie' = Null /\ UNCHANGED excuse
     \/ UNCHANGED cookie /\ excuse' = TRUE
  /\ MarkUnauthenticated
  /\ UNCHANGED <<gated, now, login, loginAt, lastUse>>

-----------------------------------------------------------------------------
(* The user.                                                                 *)

RouteFetches ==
  /\ authed /\ Cardinality(calls) < MaxCalls
  /\ UNCHANGED cookie
  /\ Mounts(calls)
  /\ UNCHANGED <<gated, now, authed, gateActive, persisted, form, login, loginAt,
                 lastUse, excuse>>

HandleLogout ==
  /\ authed /\ gateActive /\ Cardinality(calls) < MaxCalls
  /\ UNCHANGED cookie
  /\ calls' = calls \union {Call("logout")}
  /\ UNCHANGED <<gated, now, authed, gateActive, persisted, form, login, loginAt,
                 lastUse, excuse>>

\* A document reload forgets requests and signals, save what is stored.
Reload ==
  /\ authed' = TRUE
  /\ gateActive' = persisted
  /\ form' = Null /\ login' = Null
  /\ UNCHANGED cookie
  /\ Mounts({})
  /\ UNCHANGED <<gated, now, persisted, loginAt, lastUse, excuse>>

HandleSubmit(correct) ==
  /\ form # Null /\ ~form.submitting /\ ~form.locked
  /\ form' = [form EXCEPT !.submitting = TRUE]
  /\ login' = [correct |-> correct, reply |-> "none", token |-> Null]
  /\ UNCHANGED <<gated, now, cookie, authed, gateActive, persisted, calls, loginAt,
                 lastUse, excuse>>

HandleChange ==
  /\ form # Null /\ form.locked /\ ~form.submitting
  /\ form' = [form EXCEPT !.locked = FALSE]
  /\ UNCHANGED <<gated, now, cookie, authed, gateActive, persisted, calls, login,
                 loginAt, lastUse, excuse>>

LoginAccepted ==
  /\ login # Null /\ login.reply = "ok"
  /\ login' = Null
  /\ cookie' = login.token
  /\ authed' = TRUE /\ Latches
  /\ form' = Null
  /\ Mounts(calls)
  /\ loginAt' = now /\ lastUse' = now
  /\ excuse' = FALSE
  /\ UNCHANGED <<gated, now>>

\* 401 and 429 lock the button until the field is edited; others do not.
LoginRejected ==
  /\ login # Null /\ login.reply \in {"unauthorized", "refused"}
  /\ login' = Null
  /\ form' = [submitting |-> FALSE, locked |-> TRUE]
  /\ IF login.reply = "unauthorized" THEN authed' = FALSE /\ Latches
                                     ELSE UNCHANGED <<authed, gateActive, persisted>>
  /\ UNCHANGED <<gated, now, cookie, calls, loginAt, lastUse, excuse>>

LoginFailed ==
  /\ login # Null
  /\ login' = Null
  /\ form' = [submitting |-> FALSE, locked |-> FALSE]
  /\ UNCHANGED <<gated, now, cookie, authed, gateActive, persisted, calls, loginAt,
                 lastUse, excuse>>

Tick ==
  /\ calls = {} /\ login = Null /\ now < MaxTime
  /\ now' = now + 1
  /\ UNCHANGED <<gated, cookie, authed, gateActive, persisted, form, calls, login,
                 loginAt, lastUse, excuse>>

-----------------------------------------------------------------------------
SessionNext ==
  \/ RouteFetches \/ HandleLogout \/ Reload \/ HandleChange \/ Tick
  \/ \E correct \in BOOLEAN : HandleSubmit(correct)
  \/ ServeLogin \/ LoginAccepted \/ LoginRejected \/ LoginFailed
  \/ \E c \in calls :
       ServeCall(c) \/ ServeLogout(c) \/ CallAnswered(c) \/ CallFailed(c) \/ LoggedOut(c)

SessionSpec == SessionInit /\ [][SessionNext]_sessionVars

-----------------------------------------------------------------------------
(* The kinds of value each variable holds (authStore.ts, session.go).        *)
SessionTypeOK ==
  /\ gated \in BOOLEAN /\ authed \in BOOLEAN /\ excuse \in BOOLEAN
  /\ gateActive \in BOOLEAN /\ persisted \in BOOLEAN
  /\ now \in 0..MaxTime /\ loginAt \in 0..MaxTime /\ lastUse \in 0..MaxTime
  /\ cookie \in Token \union {Null}
  /\ form \in Form \union {Null}
  /\ form = Null <=> authed
  /\ login # Null => form # Null /\ form.submitting
  /\ gateActive = persisted

(* The passphrase is asked for only when the browser holds no session the    *)
(* gate would take, and the Log out button is only offered, but then for     *)
(* good, on a gated instance.  Excused are a 401 or a renewal that belongs   *)
(* to an earlier cookie and comes after a newer one, and a log out that      *)
(* failed (api.ts, the interceptor; root.tsx, LogoutButton).                 *)
AskedForAReason ==
  /\ ~authed => excuse \/ ~Verify(cookie)
  /\ gateActive => gated
  /\ cookie # Null /\ lastUse = now /\ gated => gateActive

(* A session that is used at least every RenewAfter lives until its cap, and *)
(* no session outlives the cap since a passphrase was typed, whatever        *)
(* requests renewed it and in which order their answers set the cookie.      *)
SessionLifetime ==
  cookie # Null =>
    /\ Verify(cookie) => now < loginAt + Cap
    /\ now < cookie.issued + Cap /\ now < lastUse + RenewAfter => Verify(cookie)
=============================================================================
