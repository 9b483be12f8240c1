----------------------------- MODULE PageProofs -----------------------------
(* What the pages of the web client beside the watchlist guarantee: sign-in, *)
(* the page of the operator, the search for an artist, the release feed and  *)
(* the tag vocabulary.                                                       *)
EXTENDS Session, SystemPage, ArtistSearch, HistoryFeed, TagVocabulary, FiniteSetTheorems,
        FunctionTheorems, TLAPS

-----------------------------------------------------------------------------
(* What Session guarantees for every window, renewal point and cap, and any *)
(* number of requests in flight.                                            *)

CallRecord ==
  [op : {"get", "logout"}, sent : Token \union {Null},
   reply : {"none", "ok", "refused", "unauthorized"}, renewed : Token \union {Null}]

LoginRecord ==
  [correct : BOOLEAN, reply : {"none", "ok", "refused", "unauthorized"},
   token : Token \union {Null}]

SessionTypes == SessionTypeOK /\ calls \in SUBSET CallRecord /\ login \in LoginRecord \union {Null}

\* What the gate said of a request still holds when the answer arrives, since
\* the clock stands still meanwhile.
Answers ==
  /\ \A c \in calls : c.op = "get" /\ c.reply # "none" =>
       /\ c.reply = "unauthorized" <=> gated /\ ~Verify(c.sent)
       /\ c.renewed = IF gated /\ Verify(c.sent) /\ NeedsRenew(c.sent)
                        THEN Renewed(c.sent) ELSE Null
  /\ \A c \in calls : c.op = "logout" \/ c.reply = "none" => c.renewed = Null
  /\ login # Null /\ login.reply = "ok" =>
       login.token = [issued |-> now, expiry |-> now + Window]

\* No cookie is issued after the last log in, and the one in the browser
\* reaches RenewAfter beyond the last use; a request in flight was sent with
\* it, or it has been renewed since.
Cookies ==
  /\ loginAt <= now /\ lastUse <= now
  /\ cookie # Null => cookie.issued <= loginAt /\ lastUse + RenewAfter <= cookie.expiry
  /\ \A c \in calls :
       /\ c.sent # Null => c.sent.issued <= loginAt
       /\ cookie # Null => cookie = c.sent \/ cookie.expiry = now + Window

\* Without a passphrase nobody is signed out and no cookie is given.
Gates ==
  /\ ~authed \/ gateActive \/ (\E c \in calls : c.op = "logout") => gated
  /\ cookie # Null => gateActive
  /\ ~authed => excuse \/ ~Verify(cookie)

SessionInv == SessionTypes /\ Answers /\ Cookies /\ Gates

LEMMA Bounds ==
  /\ Window \in Nat /\ RenewAfter \in Nat /\ Cap \in Nat /\ MaxTime \in Nat
  /\ 0 < RenewAfter /\ RenewAfter < Window
  BY SessionAssumption

LEMMA FreshFormType == FreshForm \in Form /\ FreshForm # Null
<1>1. FreshForm \in Form
  BY DEF FreshForm, Form
<1>. QED
  BY <1>1, SessionAssumption

LEMMA SessionInitInv == SessionInit => SessionInv
<1>. SUFFICES ASSUME SessionInit PROVE SessionInv
  OBVIOUS
<1>1. SessionTypeOK
  <2>1. 0 \in 0..MaxTime
    BY Bounds
  <2>2. form = Null <=> authed
    BY DEF SessionInit
  <2>. QED
    BY <2>1, <2>2 DEF SessionInit, SessionTypeOK
<1>2. calls \in SUBSET CallRecord
  BY DEF SessionInit, CallRecord
<1>3. SessionTypes
  BY <1>1, <1>2 DEF SessionInit, SessionTypes
<1>4. Answers /\ Cookies /\ Gates
  BY Bounds DEF SessionInit, Answers, Cookies, Gates
<1>. QED
  BY <1>3, <1>4 DEF SessionInv

-----------------------------------------------------------------------------
(* SessionTypes.                                                                    *)

LEMMA CallType ==
  ASSUME cookie' \in Token \union {Null}, NEW op \in {"get", "logout"}
  PROVE  /\ Call(op) \in CallRecord /\ Call(op).sent = cookie' /\ Call(op).op = op
         /\ Call(op).reply = "none" /\ Call(op).renewed = Null
  BY DEF Call, CallRecord

LEMMA RenewedType ==
  ASSUME now \in Nat, NEW t \in Token
  PROVE  /\ Renewed(t) \in Token /\ Renewed(t) # Null
         /\ Renewed(t).issued = t.issued /\ Renewed(t).expiry = now + Window
<1>1. Renewed(t) \in Token
  BY Bounds DEF Renewed, Token
<1>. QED
  BY <1>1, SessionAssumption DEF Renewed

LEMMA SessionTypesStep == SessionTypes /\ [SessionNext]_sessionVars => SessionTypes'
<1>. SUFFICES ASSUME SessionTypes, [SessionNext]_sessionVars PROVE SessionTypes'
  OBVIOUS
<1>0. /\ SessionTypeOK /\ calls \in SUBSET CallRecord
      /\ login \in LoginRecord \union {Null} /\ now \in Nat
  BY DEF SessionTypes, SessionTypeOK
<1>1. ASSUME NEW c \in calls, ServeCall(c) PROVE SessionTypes'
  <2>1. PICK reply \in {"ok", "refused", "unauthorized"} :
          calls' = (calls \ {c}) \union
            {[c EXCEPT !.reply = reply,
                       !.renewed = IF gated /\ Verify(c.sent) /\ NeedsRenew(c.sent)
                                     THEN Renewed(c.sent) ELSE Null]}
    BY <1>1 DEF ServeCall
  <2>. DEFINE renewed == IF gated /\ Verify(c.sent) /\ NeedsRenew(c.sent)
                         THEN Renewed(c.sent) ELSE Null
  <2>2. renewed \in Token \union {Null}
    BY <1>0, RenewedType DEF CallRecord, Verify
  <2>. HIDE DEF renewed
  <2>3. [c EXCEPT !.reply = reply, !.renewed = renewed] \in CallRecord
    BY <1>0, <2>2 DEF CallRecord
  <2>4. calls' \in SUBSET CallRecord
    BY <1>0, <2>1, <2>3 DEF renewed
  <2>. QED
    BY <1>0, <1>1, <2>4 DEF ServeCall, SessionTypes, SessionTypeOK
<1>2. ASSUME NEW c \in calls, ServeLogout(c) PROVE SessionTypes'
  <2>1. [c EXCEPT !.reply = "ok"] \in CallRecord
    BY <1>0 DEF CallRecord
  <2>. QED
    BY <1>0, <1>2, <2>1 DEF ServeLogout, SessionTypes, SessionTypeOK
<1>3. CASE ServeLogin
  <2>1. [issued |-> now, expiry |-> now + Window] \in Token
    BY <1>0, Bounds DEF Token
  <2>2. login' \in LoginRecord
    BY <1>0, <1>3, <2>1 DEF ServeLogin, LoginRecord
  <2>3. login # Null
    BY <1>3 DEF ServeLogin
  <2>. QED
    BY <1>0, <1>3, <2>2, <2>3 DEF ServeLogin, SessionTypes, SessionTypeOK
<1>4. ASSUME NEW c \in calls, CallAnswered(c) PROVE SessionTypes'
  <2>1. c.renewed \in Token \union {Null}
    BY <1>0 DEF CallRecord
  <2>2. CASE Flips(c.reply)
    <3>1. /\ authed' = FALSE /\ gateActive' = TRUE /\ persisted' = TRUE
          /\ form' = IF form = Null THEN FreshForm ELSE form
          /\ excuse' \in BOOLEAN /\ calls' \in SUBSET CallRecord
          /\ cookie' \in Token \union {Null}
          /\ UNCHANGED <<gated, now, login, loginAt, lastUse>>
      BY <1>0, <1>4, <2>1, <2>2
         DEF CallAnswered, MarkUnauthenticated, Latches, SessionTypeOK
    <3>2. form' \in Form /\ form' # Null /\ (form # Null => form' = form)
      BY <1>0, <3>1, FreshFormType DEF SessionTypeOK
    <3>. QED
      BY <1>0, <3>1, <3>2 DEF SessionTypes, SessionTypeOK
  <2>3. CASE ~Flips(c.reply)
    <3>1. /\ calls' \in SUBSET CallRecord
          /\ cookie' \in Token \union {Null}
          /\ lastUse' \in {lastUse, now}
          /\ UNCHANGED <<gated, now, authed, form, login, loginAt>>
      BY <1>0, <1>4, <2>1, <2>3 DEF CallAnswered, Flips, SessionTypeOK
    <3>2. /\ gateActive' \in BOOLEAN /\ persisted' \in BOOLEAN
          /\ gateActive' = persisted'
      BY <1>0, <1>4, <2>3 DEF CallAnswered, Flips, Latches, SessionTypeOK
    <3>3. excuse' \in BOOLEAN
      BY <1>0, <1>4, <2>3 DEF CallAnswered, Flips, SessionTypeOK
    <3>. QED
      BY <1>0, <3>1, <3>2, <3>3 DEF SessionTypes, SessionTypeOK
  <2>. QED
    BY <2>2, <2>3
<1>5. ASSUME NEW c \in calls, CallFailed(c) PROVE SessionTypes'
  BY <1>0, <1>5 DEF CallFailed, SessionTypes, SessionTypeOK
<1>6. ASSUME NEW c \in calls, LoggedOut(c) PROVE SessionTypes'
  BY <1>0, <1>6, FreshFormType
     DEF LoggedOut, MarkUnauthenticated, Latches, SessionTypes, SessionTypeOK
<1>7. CASE RouteFetches
  <2>1. cookie' \in Token \union {Null}
    BY <1>0, <1>7 DEF RouteFetches, SessionTypeOK
  <2>. QED
    BY <1>0, <1>7, <2>1, CallType DEF RouteFetches, Mounts, SessionTypes, SessionTypeOK
<1>8. CASE HandleLogout
  <2>1. cookie' \in Token \union {Null}
    BY <1>0, <1>8 DEF HandleLogout, SessionTypeOK
  <2>. QED
    BY <1>0, <1>8, <2>1, CallType DEF HandleLogout, SessionTypes, SessionTypeOK
<1>9. CASE Reload
  <2>1. cookie' \in Token \union {Null}
    BY <1>0, <1>9 DEF Reload, SessionTypeOK
  <2>. QED
    BY <1>0, <1>9, <2>1, CallType DEF Reload, Mounts, SessionTypes, SessionTypeOK
<1>10. ASSUME NEW correct \in BOOLEAN, HandleSubmit(correct) PROVE SessionTypes'
  <2>1. /\ [form EXCEPT !.submitting = TRUE] \in Form
        /\ [form EXCEPT !.submitting = TRUE].submitting
    BY <1>0, <1>10 DEF HandleSubmit, SessionTypeOK, Form
  <2>2. form' \in Form /\ form' # Null /\ form'.submitting
    BY <1>10, <2>1, SessionAssumption DEF HandleSubmit
  <2>3. login' \in LoginRecord
    BY <1>10 DEF HandleSubmit, LoginRecord
  <2>. QED
    BY <1>0, <1>10, <2>2, <2>3 DEF HandleSubmit, SessionTypes, SessionTypeOK
<1>11. CASE HandleChange
  <2>1. [form EXCEPT !.locked = FALSE] \in Form
    BY <1>0, <1>11 DEF HandleChange, SessionTypeOK, Form
  <2>2. form' \in Form /\ form' # Null /\ form # Null
    BY <1>11, <2>1, SessionAssumption DEF HandleChange
  <2>3. login = Null
    BY <1>0, <1>11 DEF HandleChange, SessionTypeOK
  <2>. QED
    BY <1>0, <1>11, <2>2, <2>3 DEF HandleChange, SessionTypes, SessionTypeOK
<1>12. CASE LoginAccepted
  <2>1. cookie' \in Token \union {Null}
    BY <1>0, <1>12 DEF LoginAccepted, LoginRecord
  <2>. QED
    BY <1>0, <1>12, <2>1, CallType
       DEF LoginAccepted, Latches, Mounts, SessionTypes, SessionTypeOK
<1>13. CASE LoginRejected \/ LoginFailed
  <2>0. \A locked \in BOOLEAN : [submitting |-> FALSE, locked |-> locked] \in Form
    BY DEF Form
  <2>1. form' \in Form
    BY <1>13, <2>0 DEF LoginRejected, LoginFailed
  <2>2. form' # Null /\ form # Null /\ login' = Null /\ authed' = FALSE
    BY <1>0, <1>13, <2>1, SessionAssumption DEF LoginRejected, LoginFailed, SessionTypeOK
  <2>. QED
    BY <1>0, <1>13, <2>1, <2>2
       DEF LoginRejected, LoginFailed, Latches, SessionTypes, SessionTypeOK
<1>14. CASE Tick
  BY <1>0, <1>14, Bounds DEF Tick, SessionTypes, SessionTypeOK
<1>15. CASE UNCHANGED sessionVars
  BY <1>0, <1>15 DEF sessionVars, SessionTypes, SessionTypeOK
<1>. QED
  BY <1>1, <1>2, <1>3, <1>4, <1>5, <1>6, <1>7, <1>8, <1>9, <1>10, <1>11, <1>12, <1>13,
     <1>14, <1>15 DEF SessionNext

-----------------------------------------------------------------------------
(* The gate's answers, the cookies, and who is signed out.                   *)

\* The requests are those that were, less some, and new ones sent with the
\* cookie the browser has after the step.
Sends(some) ==
  \E op \in {"get", "logout"} :
    calls' = some \union {Call(op)} /\ (op = "logout" => gateActive)

LEMMA AnswersStep == SessionTypes /\ Answers /\ [SessionNext]_sessionVars => Answers'
<1>. SUFFICES ASSUME SessionTypes, Answers, [SessionNext]_sessionVars PROVE Answers'
  OBVIOUS
<1>0. /\ SessionTypeOK /\ calls \in SUBSET CallRecord
      /\ login \in LoginRecord \union {Null} /\ now \in Nat
      /\ cookie \in Token \union {Null}
  BY DEF SessionTypes, SessionTypeOK
<1>1. ASSUME NEW c \in calls, ServeCall(c) PROVE Answers'
  <2>1. PICK reply \in {"ok", "refused", "unauthorized"} :
          /\ (reply = "unauthorized") = (gated /\ ~Verify(c.sent))
          /\ calls' = (calls \ {c}) \union
            {[c EXCEPT !.reply = reply,
                       !.renewed = IF gated /\ Verify(c.sent) /\ NeedsRenew(c.sent)
                                     THEN Renewed(c.sent) ELSE Null]}
    BY <1>1 DEF ServeCall
  <2>. DEFINE d == [c EXCEPT !.reply = reply,
                       !.renewed = IF gated /\ Verify(c.sent) /\ NeedsRenew(c.sent)
                                     THEN Renewed(c.sent) ELSE Null]
  <2>2. /\ d.op = "get" /\ d.reply = reply /\ d.sent = c.sent /\ d.reply # "none"
        /\ d.renewed = IF gated /\ Verify(c.sent) /\ NeedsRenew(c.sent)
                       THEN Renewed(c.sent) ELSE Null
    BY <1>0, <1>1 DEF ServeCall, CallRecord
  <2>. HIDE DEF d
  <2>3. \A e \in calls' : e \in calls \/ e = d
    BY <2>1 DEF d
  <2>4. UNCHANGED <<gated, now, login>>
    BY <1>1 DEF ServeCall
  <2>. QED
    BY <2>1, <2>2, <2>3, <2>4 DEF Answers, Verify, NeedsRenew, Renewed
<1>2. ASSUME NEW c \in calls, ServeLogout(c) PROVE Answers'
  <2>. DEFINE d == [c EXCEPT !.reply = "ok"]
  <2>2. d.op = "logout" /\ d.renewed = Null
    BY <1>0, <1>2 DEF ServeLogout, CallRecord, Answers
  <2>3. calls' = (calls \ {c}) \union {d} /\ UNCHANGED <<gated, now, login>>
    BY <1>2 DEF ServeLogout
  <2>. HIDE DEF d
  <2>. QED
    BY <2>2, <2>3 DEF Answers, Verify, NeedsRenew, Renewed
<1>3. CASE ServeLogin
  <2>1. login.reply = "none" /\ UNCHANGED <<gated, now, calls>>
    BY <1>3 DEF ServeLogin
  <2>2. login'.reply = "ok" => login'.token = [issued |-> now, expiry |-> now + Window]
    BY <1>0, <1>3 DEF ServeLogin, LoginRecord
  <2>. QED
    BY <2>1, <2>2 DEF Answers, Verify, NeedsRenew, Renewed
<1>4. ASSUME calls' \subseteq calls, login' \in {login, Null}, UNCHANGED <<gated, now>>
      PROVE  Answers'
  BY <1>4 DEF Answers, Verify, NeedsRenew, Renewed
<1>5. ASSUME NEW some \in SUBSET calls, Sends(some), login' \in {login, Null},
             UNCHANGED <<gated, now>>, cookie' \in Token \union {Null}
      PROVE  Answers'
  BY <1>5, CallType DEF Sends, Answers, Verify, NeedsRenew, Renewed
<1>6. ASSUME NEW correct \in BOOLEAN, HandleSubmit(correct) PROVE Answers'
  BY <1>6 DEF HandleSubmit, Answers, Verify, NeedsRenew, Renewed
<1>7. CASE Tick
  BY <1>7 DEF Tick, Answers
<1>8. CASE RouteFetches \/ HandleLogout
  BY <1>0, <1>5, <1>8 DEF RouteFetches, HandleLogout, Mounts, Sends
<1>9. CASE Reload
  <2>1. Sends({}) /\ {} \in SUBSET calls
    BY <1>9 DEF Reload, Mounts, Sends
  <2>2. login' \in {login, Null} /\ UNCHANGED <<gated, now>> /\ cookie' \in Token \union {Null}
    BY <1>0, <1>9 DEF Reload
  <2>. QED
    BY <1>5, <2>1, <2>2
<1>10. CASE LoginAccepted
  BY <1>0, <1>5, <1>10 DEF LoginAccepted, Mounts, Sends, LoginRecord
<1>. QED
  BY <1>1, <1>2, <1>3, <1>4, <1>6, <1>7, <1>8, <1>9, <1>10
     DEF SessionNext, CallAnswered, CallFailed, LoggedOut, HandleChange, LoginRejected,
         LoginFailed, sessionVars

LEMMA CookiesStep ==
  SessionTypes /\ Answers /\ Cookies /\ Gates /\ [SessionNext]_sessionVars => Cookies'
<1>. SUFFICES ASSUME SessionTypes, Answers, Cookies, Gates, [SessionNext]_sessionVars
              PROVE  Cookies'
  OBVIOUS
<1>0. /\ calls \in SUBSET CallRecord /\ now \in Nat /\ loginAt \in Nat /\ lastUse \in Nat
      /\ cookie \in Token \union {Null}
  BY Bounds DEF SessionTypes, SessionTypeOK
<1>1. ASSUME \A d \in calls' : \E c \in calls : d.sent = c.sent,
             UNCHANGED <<now, cookie, loginAt, lastUse>>
      PROVE  Cookies'
  BY <1>1 DEF Cookies
<1>2. ASSUME NEW c \in calls, ServeCall(c) PROVE Cookies'
  <2>1. PICK reply \in {"ok", "refused", "unauthorized"} :
          calls' = (calls \ {c}) \union
            {[c EXCEPT !.reply = reply,
                       !.renewed = IF gated /\ Verify(c.sent) /\ NeedsRenew(c.sent)
                                     THEN Renewed(c.sent) ELSE Null]}
    BY <1>2 DEF ServeCall
  <2>. DEFINE d == [c EXCEPT !.reply = reply,
                       !.renewed = IF gated /\ Verify(c.sent) /\ NeedsRenew(c.sent)
                                     THEN Renewed(c.sent) ELSE Null]
  <2>2. d.sent = c.sent
    BY <1>0 DEF CallRecord
  <2>. HIDE DEF d
  <2>3. \A e \in calls' : e \in calls \/ e = d
    BY <2>1 DEF d
  <2>. QED
    BY <1>1, <1>2, <2>2, <2>3 DEF ServeCall
<1>3. ASSUME NEW c \in calls, ServeLogout(c) PROVE Cookies'
  <2>. DEFINE d == [c EXCEPT !.reply = "ok"]
  <2>1. d.sent = c.sent
    BY <1>0 DEF CallRecord
  <2>2. calls' = (calls \ {c}) \union {d}
    BY <1>3 DEF ServeLogout
  <2>. HIDE DEF d
  <2>. QED
    BY <1>1, <1>3, <2>1, <2>2 DEF ServeLogout
<1>4. ASSUME NEW c \in calls, CallAnswered(c) PROVE Cookies'
  <2>1. /\ calls' \subseteq calls /\ UNCHANGED <<now, loginAt>>
        /\ lastUse' \in {lastUse, now} /\ c.op = "get" /\ c.reply # "none"
        /\ cookie' = IF c.renewed # Null THEN c.renewed ELSE cookie
    BY <1>4 DEF CallAnswered
  <2>2. c.sent \in Token \union {Null}
    BY <1>0 DEF CallRecord
  <2>3. CASE c.renewed # Null
    <3>1. c.sent # Null /\ c.renewed = Renewed(c.sent)
      BY <2>1, <2>3 DEF Answers, Verify
    <3>2. cookie'.issued = c.sent.issued /\ cookie'.expiry = now + Window
      BY <1>0, <2>1, <2>2, <2>3, <3>1, RenewedType
    <3>3. c.sent.issued <= loginAt
      BY <3>1 DEF Cookies
    <3>. QED
      BY <1>0, <2>1, <3>2, <3>3, Bounds DEF Cookies
  <2>4. CASE c.renewed = Null
    <3>1. cookie' = cookie
      BY <2>1, <2>4
    <3>2. cookie # Null /\ lastUse' # lastUse => lastUse' + RenewAfter <= cookie.expiry
      <4>. SUFFICES ASSUME cookie # Null, lastUse' # lastUse
                    PROVE  now + RenewAfter <= cookie.expiry
        BY <2>1
      <4>1. ~Flips(c.reply)
        BY <1>4 DEF CallAnswered, Flips, MarkUnauthenticated
      <4>2. gated
        BY DEF Gates
      <4>3. Verify(c.sent) /\ ~NeedsRenew(c.sent)
        <5>1. Verify(c.sent)
          BY <2>1, <4>1, <4>2 DEF Answers, Flips
        <5>2. Renewed(c.sent) # Null
          BY <1>0, <2>2, <5>1, RenewedType DEF Verify
        <5>. QED
          BY <2>1, <2>4, <4>2, <5>1, <5>2 DEF Answers
      <4>4. c.sent \in Token /\ now <= c.sent.expiry - RenewAfter
        BY <1>0, <2>2, <4>3, Bounds DEF Verify, NeedsRenew, Token
      <4>5. cookie = c.sent \/ cookie.expiry = now + Window
        BY DEF Cookies
      <4>. QED
        BY <1>0, <4>4, <4>5, Bounds DEF Token
    <3>3. lastUse' <= now /\ loginAt <= now
      BY <1>0, <2>1 DEF Cookies
    <3>. QED
      BY <2>1, <3>1, <3>2, <3>3 DEF Cookies
  <2>. QED
    BY <2>3, <2>4
<1>5. ASSUME NEW c \in calls, LoggedOut(c) PROVE Cookies'
  BY <1>5 DEF LoggedOut, Cookies
<1>6. ASSUME NEW some \in SUBSET calls, Sends(some),
             UNCHANGED <<now, cookie, loginAt, lastUse>>
      PROVE  Cookies'
  BY <1>0, <1>6, CallType DEF Sends, Cookies
<1>7. CASE RouteFetches \/ HandleLogout
  BY <1>6, <1>7 DEF RouteFetches, HandleLogout, Mounts, Sends
<1>8. CASE Reload
  <2>1. Sends({}) /\ {} \in SUBSET calls /\ UNCHANGED <<now, cookie, loginAt, lastUse>>
    BY <1>8 DEF Reload, Mounts, Sends
  <2>. QED
    BY <1>6, <2>1
<1>9. CASE LoginAccepted
  <2>1. /\ cookie' = [issued |-> now, expiry |-> now + Window]
        /\ loginAt' = now /\ lastUse' = now /\ now' = now
        /\ calls' = calls \union {Call("get")}
    BY <1>9 DEF LoginAccepted, Mounts, Answers
  <2>2. cookie' \in Token
    BY <1>0, <2>1, Bounds DEF Token
  <2>3. Call("get").sent = cookie'
    BY <2>2, CallType
  <2>4. \A c \in calls : c.sent # Null => c.sent \in Token /\ c.sent.issued <= now
    BY <1>0 DEF Cookies, CallRecord, Token
  <2>5. cookie'.issued = now /\ cookie'.expiry = now + Window
    BY <2>1
  <2>. QED
    BY <1>0, <2>1, <2>3, <2>4, <2>5, Bounds DEF Cookies
<1>10. CASE Tick
  BY <1>0, <1>10 DEF Tick, Cookies
<1>11. CASE ServeLogin \/ HandleChange \/ LoginRejected \/ LoginFailed
            \/ (\E correct \in BOOLEAN : HandleSubmit(correct))
            \/ (\E c \in calls : CallFailed(c)) \/ UNCHANGED sessionVars
  BY <1>1, <1>11
     DEF ServeLogin, HandleChange, LoginRejected, LoginFailed, HandleSubmit, CallFailed,
         sessionVars
<1>. QED
  BY <1>2, <1>3, <1>4, <1>5, <1>7, <1>8, <1>9, <1>10, <1>11 DEF SessionNext

LEMMA GatesStep ==
  SessionTypes /\ Answers /\ Gates /\ [SessionNext]_sessionVars => Gates'
<1>. SUFFICES ASSUME SessionTypes, Answers, Gates, [SessionNext]_sessionVars PROVE Gates'
  OBVIOUS
<1>0. /\ SessionTypeOK /\ calls \in SUBSET CallRecord /\ now \in Nat
      /\ cookie \in Token \union {Null}
  BY DEF SessionTypes, SessionTypeOK
<1>. DEFINE Logouts == \E c \in calls : c.op = "logout"
<1>1. ASSUME Logouts' => Logouts, UNCHANGED <<gated, now, cookie, authed, gateActive, excuse>>
      PROVE  Gates'
  BY <1>1 DEF Gates, Verify
<1>2. ASSUME NEW c \in calls, ServeCall(c) PROVE Gates'
  <2>1. PICK reply \in {"ok", "refused", "unauthorized"} :
          calls' = (calls \ {c}) \union
            {[c EXCEPT !.reply = reply,
                       !.renewed = IF gated /\ Verify(c.sent) /\ NeedsRenew(c.sent)
                                     THEN Renewed(c.sent) ELSE Null]}
    BY <1>2 DEF ServeCall
  <2>. DEFINE d == [c EXCEPT !.reply = reply,
                       !.renewed = IF gated /\ Verify(c.sent) /\ NeedsRenew(c.sent)
                                     THEN Renewed(c.sent) ELSE Null]
  <2>2. d.op = "get"
    BY <1>0, <1>2 DEF CallRecord, ServeCall
  <2>. HIDE DEF d
  <2>3. \A e \in calls' : e \in calls \/ e = d
    BY <2>1 DEF d
  <2>. QED
    BY <1>1, <1>2, <2>2, <2>3 DEF ServeCall
<1>3. ASSUME NEW c \in calls, ServeLogout(c) PROVE Gates'
  BY <1>1, <1>3 DEF ServeLogout
<1>4. ASSUME NEW c \in calls, CallAnswered(c) PROVE Gates'
  <2>1. /\ calls' \subseteq calls /\ UNCHANGED <<gated, now>>
        /\ c.op = "get" /\ c.reply # "none"
        /\ cookie' = IF c.renewed # Null THEN c.renewed ELSE cookie
    BY <1>4 DEF CallAnswered
  <2>2. /\ c.reply = "unauthorized" <=> gated /\ ~Verify(c.sent)
        /\ c.renewed # Null => gated /\ Verify(c.sent)
    BY <2>1 DEF Answers
  <2>3. CASE Flips(c.reply)
    <3>1. gated /\ ~Verify(c.sent) /\ cookie' = cookie
      BY <2>1, <2>2, <2>3 DEF Flips
    <3>2. gateActive' /\ (excuse' \/ c.sent = cookie)
      BY <1>4, <2>3 DEF CallAnswered, MarkUnauthenticated, Latches
    <3>. QED
      BY <2>1, <3>1, <3>2 DEF Gates, Verify
  <2>4. CASE ~Flips(c.reply)
    <3>1. /\ gated => gateActive'
          /\ ~gated => gateActive' = gateActive
          /\ authed' = authed
      BY <1>4, <2>4 DEF CallAnswered, Latches
    <3>2. /\ excuse => excuse'
          /\ c.renewed # Null /\ c.sent # cookie => excuse'
      BY <1>4, <2>4 DEF CallAnswered
    <3>3. ~authed => excuse' \/ ~Verify(cookie)'
      BY <2>1, <2>2, <3>2 DEF Gates, Verify
    <3>. QED
      BY <2>1, <2>2, <3>1, <3>3 DEF Gates
  <2>. QED
    BY <2>3, <2>4
<1>5. ASSUME NEW c \in calls, LoggedOut(c) PROVE Gates'
  <2>1. gated
    BY <1>5 DEF LoggedOut, Gates
  <2>. QED
    BY <1>5, <2>1 DEF LoggedOut, MarkUnauthenticated, Latches, Gates, Verify
<1>6. ASSUME NEW some \in SUBSET calls, Sends(some), (authed => authed'),
             UNCHANGED <<gated, now, cookie, gateActive, excuse>>
      PROVE  Gates'
  BY <1>0, <1>6, CallType DEF Sends, Gates, Verify
<1>7. CASE RouteFetches \/ HandleLogout
  BY <1>6, <1>7 DEF RouteFetches, HandleLogout, Mounts, Sends
<1>8. CASE Reload
  <2>1. Sends({}) /\ {} \in SUBSET calls /\ authed'
        /\ UNCHANGED <<gated, now, cookie, gateActive, excuse>>
    BY <1>0, <1>8 DEF Reload, Mounts, Sends, SessionTypeOK
  <2>. QED
    BY <1>6, <2>1
<1>9. CASE LoginAccepted
  <2>1. gated
    BY <1>0, <1>9 DEF LoginAccepted, Gates, SessionTypeOK
  <2>. QED
    BY <1>9, <2>1 DEF LoginAccepted, Latches, Gates
<1>10. CASE LoginRejected
  <2>1. ~authed
    BY <1>0, <1>10 DEF LoginRejected, SessionTypeOK
  <2>2. /\ UNCHANGED <<gated, now, cookie, calls, excuse>>
        /\ gateActive' = gateActive \/ gateActive'
    BY <1>10 DEF LoginRejected, Latches
  <2>3. authed' = FALSE /\ (gateActive => gateActive')
    BY <1>0, <1>10, <2>1 DEF LoginRejected, Latches, SessionTypeOK
  <2>. QED
    BY <2>1, <2>2, <2>3 DEF Gates, Verify
<1>11. CASE Tick
  <2>1. Verify(cookie)' => Verify(cookie)
    BY <1>0, <1>11, Bounds DEF Tick, Verify, Token
  <2>. QED
    BY <1>11, <2>1 DEF Tick, Gates
<1>12. CASE ServeLogin \/ HandleChange \/ LoginFailed
            \/ (\E correct \in BOOLEAN : HandleSubmit(correct))
            \/ (\E c \in calls : CallFailed(c)) \/ UNCHANGED sessionVars
  BY <1>1, <1>12
     DEF ServeLogin, HandleChange, LoginFailed, HandleSubmit, CallFailed, sessionVars
<1>. QED
  BY <1>2, <1>3, <1>4, <1>5, <1>7, <1>8, <1>9, <1>10, <1>11, <1>12 DEF SessionNext

(* The invariant holds of the gate and of the page at every step.           *)
THEOREM SessionInvariant == SessionSpec => []SessionInv
<1>1. SessionInv /\ [SessionNext]_sessionVars => SessionInv'
  BY SessionTypesStep, AnswersStep, CookiesStep, GatesStep DEF SessionInv
<1>. QED
  BY SessionInitInv, <1>1, PTL DEF SessionSpec

-----------------------------------------------------------------------------
(* The passphrase screen comes up only when the browser holds no session the *)
(* gate would take, and the Log out button only on a gated instance, however *)
(* many requests are in flight when one is turned away (api.ts, root.tsx).   *)
THEOREM AskedOnlyForAReason == SessionSpec => []AskedForAReason
<1>1. SessionInv => AskedForAReason
  BY DEF SessionInv, Gates, AskedForAReason
<1>. QED
  BY SessionInvariant, <1>1, PTL

(* A session that is used lives to its cap and never beyond it, for every    *)
(* window, renewal point and cap (authgate/session.go, Renew).               *)
THEOREM SessionsEndAtTheCap == SessionSpec => []SessionLifetime
<1>1. SessionInv => SessionLifetime
  <2>. SUFFICES ASSUME SessionInv, cookie # Null PROVE SessionLifetime
    BY DEF SessionLifetime
  <2>1. /\ now \in Nat /\ loginAt \in Nat /\ lastUse \in Nat /\ cookie \in Token
    BY Bounds DEF SessionInv, SessionTypes, SessionTypeOK
  <2>2. cookie.issued <= loginAt /\ lastUse + RenewAfter <= cookie.expiry
    BY DEF SessionInv, Cookies
  <2>3. Verify(cookie) => now < loginAt + Cap
    BY <2>1, <2>2, Bounds DEF Verify, Token
  <2>4. now < cookie.issued + Cap /\ now < lastUse + RenewAfter => Verify(cookie)
    BY <2>1, <2>2, Bounds DEF Verify, Token
  <2>. QED
    BY <2>3, <2>4 DEF SessionLifetime
<1>. QED
  BY SessionInvariant, <1>1, PTL

-----------------------------------------------------------------------------
(* What the operator's page guarantees for any number of fetches, saves and *)
(* mounts.                                                                  *)

Screen == [data : BOOLEAN, digest : Settings \union {Null}, loading : BOOLEAN,
           loadError : BOOLEAN, refreshing : BOOLEAN, refreshError : BOOLEAN,
           refreshingRef : BOOLEAN]

DigestCard == [pending : Settings \union {Null}, saving : BOOLEAN, savingRef : BOOLEAN,
         status : {"idle", "saved", "failed"}]

FetchRecord == [n : Nat, kind : {"mount", "refresh"}, mount : Nat,
                answer : Settings \union {Null}, behind : BOOLEAN]

SaveRecord == [n : Nat, mount : Nat, next : Settings, reply : {"none", "done"},
               behind : BOOLEAN]

SystemTypes ==
  /\ settings \in Settings
  /\ mount \in Nat /\ mounted \in BOOLEAN
  /\ screen \in Screen /\ card \in DigestCard
  /\ fetches \in SUBSET FetchRecord /\ saves \in SUBSET SaveRecord
  /\ nFetches \in Nat /\ nSaves \in Nat
  /\ late \in BOOLEAN /\ missed \in BOOLEAN

\* No request comes from a mount that is yet to be, and the requests of the
\* mount that is open are the ones its flags stand for.
Owned ==
  /\ \A r \in fetches : r.mount <= mount
  /\ \A w \in saves : w.mount <= mount
  /\ \A r \in fetches : Alive(r) =>
       IF r.kind = "mount" THEN screen.loading ELSE screen.refreshingRef
  /\ \A w \in saves : Alive(w) => card.savingRef
  /\ \A r1, r2 \in fetches : Alive(r1) /\ Alive(r2) => r1 = r2
  /\ \A w1, w2 \in saves : Alive(w1) /\ Alive(w2) => w1 = w2

\* Before the first answer a page is either loading or at its error screen,
\* and neither has a Refresh button.
Screens ==
  mounted =>
    /\ screen.loading => ~screen.data /\ ~screen.loadError /\ ~screen.refreshingRef
    /\ screen.loadError => ~screen.data /\ ~screen.refreshingRef
    /\ ~screen.loading => screen.data \/ screen.loadError

\* An answer that no save has overtaken is the row.
Ages ==
  /\ \A r \in fetches : r.answer # Null /\ ~r.behind => r.answer = settings
  /\ \A w \in saves : w.reply = "done" /\ ~w.behind => w.next = settings

\* The books of the switch: its overlay is a save on its way; and a page that
\* took no overtaken answer and missed no save has the row, unless a save of its
\* own was served and not answered yet.
Switch ==
  mounted =>
    /\ card.pending # Null => \E w \in saves : Alive(w)
    /\ ~late /\ ~missed /\ screen.data =>
         \/ screen.digest = settings
         \/ \E w \in saves : Alive(w) /\ w.reply = "done"

PageInv == SystemTypes /\ Owned /\ Screens /\ Ages /\ Switch

LEMMA PageInitInv == SystemInit => PageInv
<1>. SUFFICES ASSUME SystemInit PROVE PageInv
  OBVIOUS
<1>1. settings \in Settings
  BY DEF SystemInit, Settings
<1>2. screen \in Screen /\ card \in DigestCard
  BY DEF SystemInit, FreshScreen, FreshCard, Screen, DigestCard
<1>3. fetches \in SUBSET FetchRecord
  BY DEF SystemInit, FetchRecord
<1>4. SystemTypes
  BY <1>1, <1>2, <1>3 DEF SystemInit, SystemTypes
<1>5. Owned
  BY DEF SystemInit, Owned, Alive, FreshScreen
<1>6. Screens /\ Ages /\ Switch
  BY DEF SystemInit, Screens, Ages, Switch, FreshScreen, FreshCard
<1>. QED
  BY <1>4, <1>5, <1>6 DEF PageInv

-----------------------------------------------------------------------------
(* The kinds of step, each with what it keeps.                               *)

\* A page is opened, on a mount no request in flight knows.
LEMMA OpenInv == PageInv /\ OpenPage => PageInv'
<1>. SUFFICES ASSUME PageInv, OpenPage PROVE PageInv'
  OBVIOUS
<1>. DEFINE r == [n |-> nFetches + 1, kind |-> "mount", mount |-> mount', answer |-> Null,
                 behind |-> FALSE]
<1>0. SystemTypes /\ Owned /\ Ages
  BY DEF PageInv
<1>1. /\ mounted' = TRUE /\ mount' = mount + 1 /\ mount \in Nat
      /\ screen' = FreshScreen /\ card' = FreshCard
      /\ late' = FALSE /\ missed' = FALSE
      /\ UNCHANGED <<settings, saves, nSaves>> /\ nFetches' = nFetches + 1
  BY <1>0 DEF OpenPage, Fetching, SystemTypes
<1>2. r \in FetchRecord /\ r.mount = mount' /\ r.kind = "mount" /\ r.answer = Null
  BY <1>0, <1>1 DEF FetchRecord, SystemTypes
<1>3. fetches' = fetches \union {r}
  BY DEF OpenPage, Fetching
<1>. HIDE DEF r
<1>4. /\ FreshScreen \in Screen /\ FreshScreen.loading /\ ~FreshScreen.data
      /\ ~FreshScreen.loadError /\ ~FreshScreen.refreshingRef
      /\ FreshCard \in DigestCard /\ FreshCard.pending = Null
  BY DEF FreshScreen, FreshCard, Screen, DigestCard
<1>5. SystemTypes'
  <2>1. late' \in BOOLEAN /\ missed' \in BOOLEAN
    BY <1>1
  <2>2. mounted' \in BOOLEAN /\ mount' \in Nat /\ nFetches' \in Nat
    BY <1>0, <1>1 DEF SystemTypes
  <2>. QED
    BY <1>0, <1>1, <1>2, <1>3, <1>4, <2>1, <2>2 DEF SystemTypes
<1>6. \A q \in fetches : q.mount \in Nat /\ q.mount <= mount
  BY <1>0 DEF SystemTypes, FetchRecord, Owned
<1>7. \A w \in saves : w.mount \in Nat /\ w.mount <= mount
  BY <1>0 DEF SystemTypes, SaveRecord, Owned
<1>8. Owned'
  BY <1>1, <1>2, <1>3, <1>4, <1>6, <1>7 DEF Owned, Alive
<1>9. Screens' /\ Ages' /\ Switch'
  BY <1>0, <1>1, <1>2, <1>3, <1>4 DEF Screens, Ages, Switch
<1>. QED
  BY <1>5, <1>8, <1>9 DEF PageInv

\* A fetch starts with none of this page under way.
LEMMA FetchingInv ==
  ASSUME PageInv, NEW kind \in {"mount", "refresh"}, Fetching(kind), mounted,
         screen' \in Screen,
         ~screen.loading, ~screen.refreshingRef,
         IF kind = "mount" THEN screen'.loading ELSE screen'.refreshingRef,
         screen'.digest = screen.digest, screen'.data = screen.data, Screens',
         UNCHANGED <<settings, mount, mounted, card, saves, nSaves, late, missed>>
  PROVE  PageInv'
<1>. DEFINE r == [n |-> nFetches + 1, kind |-> kind, mount |-> mount', answer |-> Null,
                 behind |-> FALSE]
<1>0. SystemTypes /\ Owned /\ Ages /\ Switch
  BY DEF PageInv
<1>1. r \in FetchRecord /\ r.mount = mount /\ r.kind = kind /\ r.answer = Null
  BY <1>0 DEF FetchRecord, SystemTypes
<1>2. fetches' = fetches \union {r} /\ nFetches' = nFetches + 1
  BY DEF Fetching
<1>. HIDE DEF r
<1>3. SystemTypes'
  BY <1>0, <1>1, <1>2 DEF SystemTypes
<1>4. \A q \in fetches : ~Alive(q)
  BY <1>0 DEF Owned
<1>5. mount <= mount
  BY <1>0 DEF SystemTypes
<1>6. Owned'
  BY <1>0, <1>1, <1>2, <1>4, <1>5 DEF Owned, Alive
<1>7. Ages' /\ Switch'
  BY <1>0, <1>1, <1>2 DEF Ages, Switch, Alive
<1>. QED
  BY <1>3, <1>6, <1>7 DEF PageInv

\* A fetch leaves; what it does to the page is written out by its cases.
LEMMA FetchLeaves ==
  ASSUME PageInv, NEW r \in fetches, fetches' = fetches \ {r},
         screen' \in Screen, late' \in BOOLEAN, missed' \in BOOLEAN, mounted' \in BOOLEAN,
         mounted' => mounted,
         Alive(r) \/ screen' = screen,
         r.kind = "mount" => screen'.refreshingRef = screen.refreshingRef,
         r.kind # "mount" => screen'.loading = screen.loading,
         UNCHANGED <<settings, mount, card, saves, nFetches, nSaves>>
  PROVE  SystemTypes' /\ Owned' /\ Ages'
<1>0. SystemTypes /\ Owned /\ Ages
  BY DEF PageInv
<1>1. SystemTypes'
  BY <1>0 DEF SystemTypes
<1>2. \A q : Alive(q)' => Alive(q)
  BY DEF Alive
<1>3. \A q \in fetches' : Alive(q)' => ~Alive(r)
  BY <1>0, <1>2 DEF Owned
<1>4. \A q \in fetches' : Alive(q)' => screen' = screen
  BY <1>3
<1>5. Owned'
  BY <1>0, <1>2, <1>4 DEF Owned
<1>6. Ages'
  BY <1>0 DEF Ages
<1>. QED
  BY <1>1, <1>5, <1>6

\* Finally, for either kind of fetch.
LEMMA FinallyFrees ==
  ASSUME screen \in Screen, NEW r \in FetchRecord
  PROVE  /\ Finally(r, screen) \in Screen
         /\ Finally(r, screen).data = screen.data
         /\ Finally(r, screen).digest = screen.digest
         /\ Finally(r, screen).loadError = screen.loadError
         /\ r.kind = "mount" =>
              /\ ~Finally(r, screen).loading
              /\ Finally(r, screen).refreshingRef = screen.refreshingRef
         /\ r.kind # "mount" =>
              /\ Finally(r, screen).loading = screen.loading
              /\ ~Finally(r, screen).refreshingRef
<1>1. CASE r.kind = "mount"
  BY <1>1 DEF Finally, Screen
<1>2. CASE r.kind # "mount"
  BY <1>2 DEF Finally, Screen
<1>. QED
  BY <1>1, <1>2

LEMMA FetchStepInv ==
  ASSUME PageInv, NEW r \in fetches,
         ServeFetch(r) \/ FetchAnswered(r) \/ FetchFailed(r) \/ FetchUnauthorized(r)
  PROVE  PageInv'
<1>0. /\ SystemTypes /\ Owned /\ Screens /\ Ages /\ Switch /\ r \in FetchRecord
      /\ screen \in Screen /\ settings \in Settings /\ mounted \in BOOLEAN
      /\ late \in BOOLEAN /\ missed \in BOOLEAN
  BY DEF PageInv, SystemTypes
<1>. DEFINE freed == Finally(r, screen)
<1>1. /\ freed \in Screen /\ freed.data = screen.data /\ freed.digest = screen.digest
      /\ freed.loadError = screen.loadError
      /\ r.kind = "mount" => ~freed.loading /\ freed.refreshingRef = screen.refreshingRef
      /\ r.kind # "mount" => freed.loading = screen.loading /\ ~freed.refreshingRef
  BY <1>0, FinallyFrees
<1>. HIDE DEF freed
<1>2. Alive(r) => /\ mounted
                  /\ r.kind = "mount" => screen.loading
                  /\ r.kind # "mount" => screen.refreshingRef
  BY <1>0 DEF Owned, Alive
<1>3. CASE ServeFetch(r)
  <2>. DEFINE d == [r EXCEPT !.answer = settings]
  <2>1. d \in FetchRecord /\ d.mount = r.mount /\ d.kind = r.kind /\ d.answer = settings
    BY <1>0 DEF FetchRecord
  <2>2. fetches' = (fetches \ {r}) \union {d}
    BY <1>3 DEF ServeFetch
  <2>. HIDE DEF d
  <2>3. UNCHANGED <<settings, mount, mounted, screen, card, saves, nFetches, nSaves,
                    late, missed>>
    BY <1>3 DEF ServeFetch, historyOfCard
  <2>4. SystemTypes'
    BY <1>0, <2>1, <2>2, <2>3 DEF SystemTypes
  <2>5. Alive(d) <=> Alive(r)
    BY <2>1 DEF Alive
  <2>6. Owned'
    BY <1>0, <2>1, <2>2, <2>3, <2>5 DEF Owned, Alive
  <2>7. Screens' /\ Ages' /\ Switch'
    BY <1>0, <2>1, <2>2, <2>3 DEF Screens, Ages, Switch, Alive
  <2>. QED
    BY <2>4, <2>6, <2>7 DEF PageInv
<1>4. CASE FetchAnswered(r)
  <2>1. /\ fetches' = fetches \ {r} /\ r.answer \in Settings
        /\ UNCHANGED <<settings, mount, mounted, card, saves, nFetches, nSaves>>
    BY <1>0, <1>4 DEF FetchAnswered, FetchRecord
  <2>2. CASE ~Alive(r)
    <3>1. UNCHANGED <<screen, late, missed>>
      BY <1>4, <2>2 DEF FetchAnswered, historyOfCard
    <3>2. SystemTypes' /\ Owned' /\ Ages'
      BY <1>0, <2>1, <3>1, FetchLeaves DEF SystemTypes
    <3>3. Screens' /\ Switch'
      BY <1>0, <2>1, <3>1 DEF Screens, Switch, Alive
    <3>. QED
      BY <3>2, <3>3 DEF PageInv
  <2>3. CASE Alive(r)
    <3>1. /\ screen' = [freed EXCEPT !.data = TRUE, !.digest = r.answer]
          /\ late' = r.behind /\ missed' = (missed /\ r.behind)
      BY <1>4, <2>3 DEF FetchAnswered, freed, Took
    <3>2. /\ screen' \in Screen /\ screen'.data /\ screen'.digest = r.answer
          /\ screen'.loading = freed.loading /\ screen'.loadError = freed.loadError
          /\ screen'.refreshingRef = freed.refreshingRef
      BY <1>1, <2>1, <3>1 DEF Screen
    <3>3. SystemTypes' /\ Owned' /\ Ages'
      <4>1. late' \in BOOLEAN /\ missed' \in BOOLEAN
        BY <1>0, <3>1 DEF FetchRecord
      <4>. QED
        BY <1>0, <1>1, <2>1, <2>3, <3>2, <4>1, FetchLeaves
    <3>4. Screens'
      BY <1>0, <1>1, <1>2, <2>1, <2>3, <3>2 DEF Screens
    <3>5. ~late' => r.answer = settings
      BY <1>0, <1>4, <3>1 DEF FetchAnswered, Ages
    <3>6. Switch'
      BY <1>0, <2>1, <3>2, <3>5 DEF Switch, Alive
    <3>. QED
      BY <3>3, <3>4, <3>6 DEF PageInv
  <2>. QED
    BY <2>2, <2>3
<1>5. CASE FetchFailed(r)
  <2>1. /\ fetches' = fetches \ {r}
        /\ UNCHANGED <<settings, mount, mounted, card, saves, nFetches, nSaves, late, missed>>
    BY <1>5 DEF FetchFailed, historyOfCard
  <2>2. /\ screen' \in Screen /\ screen'.data = screen.data /\ screen'.digest = screen.digest
        /\ ~Alive(r) => screen' = screen
        /\ Alive(r) => /\ screen'.loading = freed.loading
                       /\ screen'.refreshingRef = freed.refreshingRef
                       /\ screen'.loadError = (screen.loadError \/ r.kind = "mount")
    <3>1. CASE ~Alive(r)
      BY <1>0, <1>5, <3>1 DEF FetchFailed
    <3>2. CASE Alive(r) /\ r.kind = "mount"
      <4>1. screen' = [freed EXCEPT !.loadError = TRUE]
        BY <1>5, <3>2 DEF FetchFailed, freed
      <4>. QED
        BY <1>1, <3>2, <4>1 DEF Screen
    <3>3. CASE Alive(r) /\ r.kind # "mount"
      <4>1. screen' = [freed EXCEPT !.refreshError = TRUE]
        BY <1>5, <3>3 DEF FetchFailed, freed
      <4>2. freed.loadError \in BOOLEAN
        BY <1>1 DEF Screen
      <4>. QED
        BY <1>1, <3>3, <4>1, <4>2 DEF Screen
    <3>. QED
      BY <3>1, <3>2, <3>3
  <2>3. SystemTypes' /\ Owned' /\ Ages'
    BY <1>0, <1>1, <2>1, <2>2, FetchLeaves DEF SystemTypes
  <2>4. Screens'
    BY <1>0, <1>1, <1>2, <2>1, <2>2 DEF Screens
  <2>5. Switch'
    BY <1>0, <2>1, <2>2 DEF Switch, Alive
  <2>. QED
    BY <2>3, <2>4, <2>5 DEF PageInv
<1>6. CASE FetchUnauthorized(r)
  <2>1. /\ fetches' = fetches \ {r} /\ mounted' = FALSE
        /\ screen' = IF Alive(r) THEN freed ELSE screen
        /\ UNCHANGED <<settings, mount, card, saves, nFetches, nSaves, late, missed>>
    BY <1>6 DEF FetchUnauthorized, freed, historyOfCard
  <2>2. SystemTypes' /\ Owned' /\ Ages'
    BY <1>0, <1>1, <2>1, FetchLeaves DEF SystemTypes
  <2>3. Screens' /\ Switch'
    BY <2>1 DEF Screens, Switch
  <2>. QED
    BY <2>2, <2>3 DEF PageInv
<1>. QED
  BY <1>3, <1>4, <1>5, <1>6

-----------------------------------------------------------------------------
(* The switch.                                                               *)

LEMMA SettingsType ==
  ASSUME NEW shown \in Settings
  PROVE  /\ [shown EXCEPT !.enabled = ~@] \in Settings
         /\ \A c \in {"daily", "weekly"} : [shown EXCEPT !.cadence = c] \in Settings
  BY DEF Settings

LEMMA DisplayedType == SystemTypes /\ CardShown => Displayed \in Settings
  BY DEF SystemTypes, Screen, DigestCard, CardShown, Displayed

LEMMA SaveEndsFrees ==
  ASSUME card \in DigestCard
  PROVE  /\ SaveEnds \in DigestCard /\ SaveEnds.pending = Null
         /\ \A s \in {"saved", "failed"} : /\ [SaveEnds EXCEPT !.status = s] \in DigestCard
                                         /\ [SaveEnds EXCEPT !.status = s].pending = Null
  BY DEF SaveEnds, DigestCard

LEMMA SaveInv ==
  ASSUME PageInv, NEW next \in Settings, Save(next)
  PROVE  PageInv'
<1>. DEFINE w == [n |-> nSaves + 1, mount |-> mount, next |-> next, reply |-> "none",
                 behind |-> FALSE]
<1>0. SystemTypes /\ Owned /\ Screens /\ Ages /\ Switch
  BY DEF PageInv
<1>1. /\ mounted /\ ~card.savingRef
      /\ UNCHANGED <<settings, mount, mounted, screen, fetches, nFetches, late, missed>>
      /\ nSaves' = nSaves + 1
  BY DEF Save, CardShown, SaveAllowed, historyOfCard
<1>2. w \in SaveRecord /\ w.mount = mount /\ w.reply = "none"
  BY <1>0 DEF SaveRecord, SystemTypes
<1>3. saves' = saves \union {w}
  BY DEF Save
<1>. HIDE DEF w
<1>4. card' \in DigestCard /\ card'.savingRef
  <2>1. card' = [card EXCEPT !.savingRef = TRUE, !.saving = TRUE, !.pending = next]
    BY DEF Save
  <2>. QED
    BY <1>0, <2>1 DEF SystemTypes, DigestCard
<1>5. SystemTypes'
  BY <1>0, <1>1, <1>2, <1>3, <1>4 DEF SystemTypes
<1>6. \A v \in saves : ~Alive(v)
  BY <1>0, <1>1 DEF Owned
<1>7. mount <= mount
  BY <1>0 DEF SystemTypes
<1>8. Owned'
  BY <1>0, <1>1, <1>2, <1>3, <1>4, <1>6, <1>7 DEF Owned, Alive
<1>9. Alive(w) /\ \A v : Alive(v)' <=> Alive(v)
  BY <1>1, <1>2 DEF Alive
<1>10. Switch'
  <2>1. \E v \in saves' : Alive(v)'
    BY <1>3, <1>9
  <2>. QED
    BY <1>0, <1>1, <1>3, <1>9, <2>1 DEF Switch
<1>11. Screens' /\ Ages'
  BY <1>0, <1>1, <1>2, <1>3 DEF Screens, Ages
<1>. QED
  BY <1>5, <1>8, <1>10, <1>11 DEF PageInv

\* A save leaves; the row and the fetches stay.
LEMMA SaveLeaves ==
  ASSUME PageInv, NEW w \in saves, saves' = saves \ {w},
         screen' \in Screen, card' \in DigestCard, mounted' \in BOOLEAN,
         late' \in BOOLEAN, missed' \in BOOLEAN, mounted' => mounted,
         Alive(w) \/ card' = card,
         screen'.loading = screen.loading, screen'.data = screen.data,
         screen'.loadError = screen.loadError, screen'.refreshingRef = screen.refreshingRef,
         UNCHANGED <<settings, mount, fetches, nFetches, nSaves>>
  PROVE  SystemTypes' /\ Owned' /\ Screens' /\ Ages'
<1>0. SystemTypes /\ Owned /\ Screens /\ Ages
  BY DEF PageInv
<1>1. SystemTypes'
  BY <1>0 DEF SystemTypes
<1>2. \A q : Alive(q)' => Alive(q)
  BY DEF Alive
<1>3. \A v \in saves' : Alive(v)' => card' = card
  BY <1>0, <1>2 DEF Owned
<1>4. Owned'
  BY <1>0, <1>2, <1>3 DEF Owned
<1>5. Screens' /\ Ages'
  BY <1>0 DEF Screens, Ages
<1>. QED
  BY <1>1, <1>4, <1>5

LEMMA SaveStepInv ==
  ASSUME PageInv, NEW w \in saves,
         ServeSave(w) \/ SaveAnswered(w) \/ SaveFailed(w) \/ SaveUnauthorized(w)
  PROVE  PageInv'
<1>0. /\ SystemTypes /\ Owned /\ Screens /\ Ages /\ Switch /\ w \in SaveRecord
      /\ screen \in Screen /\ card \in DigestCard /\ mounted \in BOOLEAN
      /\ late \in BOOLEAN /\ missed \in BOOLEAN
  BY DEF PageInv, SystemTypes
<1>1. \A v \in saves : Alive(v) /\ Alive(w) => v = w
  BY <1>0 DEF Owned
<1>2. CASE ServeSave(w)
  <2>. DEFINE d == [w EXCEPT !.reply = "done"]
              aged(v) == [v EXCEPT !.behind = (v.reply = "done")]
              dated(r) == [r EXCEPT !.behind = (r.answer # Null)]
  <2>1. /\ d \in SaveRecord /\ d.mount = w.mount /\ d.next = w.next /\ d.reply = "done"
        /\ w.next \in Settings
    BY <1>0 DEF SaveRecord
  <2>2. \A v \in saves : /\ aged(v) \in SaveRecord /\ aged(v).mount = v.mount
                         /\ aged(v).reply = v.reply /\ aged(v).next = v.next
                         /\ v.reply = "done" => aged(v).behind
    BY <1>0 DEF SystemTypes, SaveRecord
  <2>3. \A r \in fetches : /\ dated(r) \in FetchRecord /\ dated(r).mount = r.mount
                           /\ dated(r).kind = r.kind /\ dated(r).answer = r.answer
                           /\ r.answer # Null => dated(r).behind
    BY <1>0 DEF SystemTypes, FetchRecord
  <2>4. /\ saves' = {aged(v) : v \in saves \ {w}} \union {d}
        /\ fetches' = {dated(r) : r \in fetches}
    BY <1>2 DEF ServeSave
  <2>. HIDE DEF d, aged, dated
  <2>5. /\ settings' = w.next /\ missed' = (missed \/ ~Alive(w))
        /\ UNCHANGED <<mount, mounted, screen, card, nFetches, nSaves, late>>
    BY <1>2 DEF ServeSave
  <2>6. SystemTypes'
    BY <1>0, <2>1, <2>2, <2>3, <2>4, <2>5 DEF SystemTypes
  <2>7. /\ Alive(d)' <=> Alive(w)
        /\ \A v \in saves : Alive(aged(v))' <=> Alive(v)
        /\ \A r \in fetches : Alive(dated(r))' <=> Alive(r)
    BY <2>1, <2>2, <2>3, <2>5 DEF Alive
  <2>8. Owned'
    <3>1. \A r \in fetches' : /\ r.mount <= mount'
                              /\ Alive(r)' => IF r.kind = "mount" THEN screen'.loading
                                              ELSE screen'.refreshingRef
      BY <1>0, <2>3, <2>4, <2>5, <2>7 DEF Owned
    <3>2. \A v \in saves' : v.mount <= mount' /\ (Alive(v)' => card'.savingRef)
      BY <1>0, <2>1, <2>2, <2>4, <2>5, <2>7 DEF Owned
    <3>3. \A r1, r2 \in fetches' : Alive(r1)' /\ Alive(r2)' => r1 = r2
      BY <1>0, <2>4, <2>7 DEF Owned
    <3>4. \A v1, v2 \in saves' : Alive(v1)' /\ Alive(v2)' => v1 = v2
      BY <1>0, <2>4, <2>7 DEF Owned
    <3>. QED
      BY <3>1, <3>2, <3>3, <3>4 DEF Owned
  <2>9. Ages'
    BY <2>1, <2>2, <2>3, <2>4, <2>5 DEF Ages
  <2>10. Switch'
    <3>. SUFFICES ASSUME mounted PROVE Switch'
      BY <2>5 DEF Switch
    <3>1. card'.pending # Null => \E v \in saves' : Alive(v)'
      BY <1>0, <2>4, <2>5, <2>7 DEF Switch
    <3>2. ~missed' => \E v \in saves' : Alive(v)' /\ v.reply = "done"
      BY <2>1, <2>4, <2>5, <2>7
    <3>. QED
      BY <3>1, <3>2 DEF Switch
  <2>11. Screens'
    BY <1>0, <2>5 DEF Screens
  <2>. QED
    BY <2>6, <2>8, <2>9, <2>10, <2>11 DEF PageInv
<1>3. CASE SaveAnswered(w)
  <2>1. /\ saves' = saves \ {w} /\ w.reply = "done"
        /\ UNCHANGED <<settings, mount, mounted, fetches, nFetches, nSaves>>
    BY <1>3 DEF SaveAnswered
  <2>2. CASE ~Alive(w)
    <3>1. UNCHANGED <<screen, card, late, missed>>
      BY <1>3, <2>2 DEF SaveAnswered, historyOfCard
    <3>2. SystemTypes' /\ Owned' /\ Screens' /\ Ages'
      BY <1>0, <2>1, <3>1, SaveLeaves
    <3>3. Switch'
      BY <1>0, <2>1, <2>2, <3>1 DEF Switch, Alive
    <3>. QED
      BY <3>2, <3>3 DEF PageInv
  <2>3. CASE Alive(w)
    <3>1. /\ screen' = [screen EXCEPT !.digest = w.next]
          /\ card' = [SaveEnds EXCEPT !.status = "saved"]
          /\ late' = w.behind /\ missed' = (missed /\ w.behind)
      BY <1>3, <2>3 DEF SaveAnswered, Took
    <3>2. card' \in DigestCard /\ card'.pending = Null
      BY <1>0, <3>1, SaveEndsFrees
    <3>3. /\ screen' \in Screen /\ screen'.digest = w.next
          /\ screen'.loading = screen.loading /\ screen'.data = screen.data
          /\ screen'.loadError = screen.loadError
          /\ screen'.refreshingRef = screen.refreshingRef
      BY <1>0, <3>1 DEF Screen, SaveRecord
    <3>4. SystemTypes' /\ Owned' /\ Screens' /\ Ages'
      <4>1. late' \in BOOLEAN /\ missed' \in BOOLEAN
        BY <1>0, <3>1 DEF SaveRecord
      <4>. QED
        BY <1>0, <2>1, <2>3, <3>2, <3>3, <4>1, SaveLeaves
    <3>5. ~late' => w.next = settings
      BY <1>0, <2>1, <3>1 DEF Ages
    <3>6. Switch'
      BY <2>1, <3>2, <3>3, <3>5 DEF Switch
    <3>. QED
      BY <3>4, <3>6 DEF PageInv
  <2>. QED
    BY <2>2, <2>3
<1>4. CASE SaveFailed(w)
  <2>1. /\ saves' = saves \ {w} /\ missed' = (missed \/ (Alive(w) /\ w.reply = "done"))
        /\ UNCHANGED <<settings, mount, mounted, screen, fetches, nFetches, nSaves, late>>
    BY <1>4 DEF SaveFailed
  <2>2. /\ card' \in DigestCard /\ (Alive(w) => card'.pending = Null)
        /\ Alive(w) \/ card' = card
    BY <1>0, <1>4, SaveEndsFrees DEF SaveFailed
  <2>3. missed' \in BOOLEAN /\ late' \in BOOLEAN
    BY <1>0, <2>1
  <2>4. SystemTypes' /\ Owned' /\ Screens' /\ Ages'
    BY <1>0, <2>1, <2>2, <2>3, SaveLeaves
  <2>5. ~missed' => ~missed /\ ~(Alive(w) /\ w.reply = "done")
    BY <2>1
  <2>6. Switch'
    BY <1>0, <2>1, <2>2, <2>5 DEF Switch, Alive
  <2>. QED
    BY <2>4, <2>6 DEF PageInv
<1>5. CASE SaveUnauthorized(w)
  <2>1. /\ saves' = saves \ {w} /\ mounted' = FALSE
        /\ UNCHANGED <<settings, mount, screen, fetches, nFetches, nSaves, late, missed>>
        /\ card' = IF Alive(w) THEN SaveKeepsOverlay ELSE card
    BY <1>5 DEF SaveUnauthorized, historyOfCard
  <2>2. SaveKeepsOverlay \in DigestCard
    BY <1>0 DEF SaveKeepsOverlay, DigestCard
  <2>3. SystemTypes' /\ Owned' /\ Screens' /\ Ages'
    BY <1>0, <2>1, <2>2, SaveLeaves
  <2>4. Switch'
    BY <2>1 DEF Switch
  <2>. QED
    BY <2>3, <2>4 DEF PageInv
<1>. QED
  BY <1>2, <1>3, <1>4, <1>5

-----------------------------------------------------------------------------
LEMMA SystemStep == PageInv /\ [SystemNext]_systemVars => PageInv'
<1>. SUFFICES ASSUME PageInv, [SystemNext]_systemVars PROVE PageInv'
  OBVIOUS
<1>0. /\ SystemTypes /\ Owned /\ Screens /\ Ages /\ Switch
      /\ screen \in Screen /\ card \in DigestCard
  BY DEF PageInv, SystemTypes
<1>1. CASE LeavePage
  <2>1. SystemTypes' /\ Owned'
    BY <1>0, <1>1 DEF LeavePage, SystemTypes, Owned, Alive, historyOfCard
  <2>. QED
    BY <1>0, <1>1, <2>1 DEF LeavePage, PageInv, Screens, Ages, Switch
<1>2. CASE OpenPage
  BY <1>2, OpenInv
<1>3. CASE Render \/ UNCHANGED systemVars
  BY <1>0, <1>3 DEF Render, systemVars, PageInv, SystemTypes, Owned, Screens, Ages, Switch,
                      Alive, historyOfCard
<1>4. CASE RetryMount
  <2>1. screen' = [screen EXCEPT !.loading = TRUE, !.loadError = FALSE, !.refreshError = FALSE]
    BY <1>4 DEF RetryMount
  <2>2. /\ screen' \in Screen /\ screen'.loading /\ ~screen'.loadError
        /\ screen'.digest = screen.digest /\ screen'.data = screen.data
        /\ screen'.refreshingRef = screen.refreshingRef
    BY <1>0, <2>1 DEF Screen
  <2>3. mounted /\ ~screen.loading /\ ~screen.refreshingRef /\ ~screen.data
    BY <1>0, <1>4 DEF RetryMount, Screens
  <2>4. /\ Fetching("mount")
        /\ UNCHANGED <<settings, mount, mounted, card, saves, nSaves, late, missed>>
    BY <1>4 DEF RetryMount, historyOfCard
  <2>5. Screens'
    BY <2>2, <2>3 DEF Screens
  <2>. QED
    BY <2>2, <2>3, <2>4, <2>5, FetchingInv
<1>5. CASE HandleRefresh
  <2>1. screen' = [screen EXCEPT !.refreshingRef = TRUE, !.refreshing = TRUE,
                                 !.refreshError = FALSE]
    BY <1>5 DEF HandleRefresh
  <2>2. /\ screen' \in Screen /\ screen'.loading = screen.loading
        /\ screen'.loadError = screen.loadError /\ screen'.refreshingRef
        /\ screen'.digest = screen.digest /\ screen'.data = screen.data
    BY <1>0, <2>1 DEF Screen
  <2>3. /\ mounted /\ ~screen.loading /\ ~screen.refreshingRef /\ ~screen.loadError
        /\ screen.data
    BY <1>0, <1>5 DEF HandleRefresh, RefreshAllowed, Screens
  <2>4. /\ Fetching("refresh")
        /\ UNCHANGED <<settings, mount, mounted, card, saves, nSaves, late, missed>>
    BY <1>5 DEF HandleRefresh, historyOfCard
  <2>5. Screens'
    BY <2>2, <2>3 DEF Screens
  <2>. QED
    BY <2>2, <2>3, <2>4, <2>5, FetchingInv
<1>6. CASE StatusFades
  <2>1. card' = [card EXCEPT !.status = "idle"]
    BY <1>6 DEF StatusFades
  <2>2. /\ card' \in DigestCard /\ card'.savingRef = card.savingRef
        /\ card'.pending = card.pending
    BY <1>0, <2>1 DEF DigestCard
  <2>. QED
    BY <1>0, <1>6, <2>2 DEF StatusFades, PageInv, SystemTypes, Owned, Screens, Ages, Switch,
                            Alive, historyOfCard
<1>7. CASE HandleDigestModeChange
  <2>1. Displayed \in Settings
    BY <1>0, <1>7, DisplayedType DEF HandleDigestModeChange, Save
  <2>. QED
    BY <1>7, <2>1, SettingsType, SaveInv DEF HandleDigestModeChange
<1>8. ASSUME NEW c \in {"daily", "weekly"}, HandleCadenceChange(c) PROVE PageInv'
  <2>1. Displayed \in Settings
    BY <1>0, <1>8, DisplayedType DEF HandleCadenceChange
  <2>. QED
    BY <1>8, <2>1, SettingsType, SaveInv DEF HandleCadenceChange
<1>. QED
  BY <1>1, <1>2, <1>3, <1>4, <1>5, <1>6, <1>7, <1>8, FetchStepInv, SaveStepInv DEF SystemNext

(* The invariant holds of system.tsx and DigestSettings.tsx at every step.  *)
THEOREM PageInvariant == SystemSpec => []PageInv
  BY PageInitInv, SystemStep, PTL DEF SystemSpec

LEMMA NoTwo ==
  ASSUME NEW S, \A e1, e2 \in S : e1 = e2
  PROVE  Cardinality(S) <= 1
<1>1. CASE S = {}
  BY <1>1, FS_EmptySet
<1>2. CASE S # {}
  <2>1. PICK e : S = {e}
    BY <1>2
  <2>. QED
    BY <2>1, FS_Singleton
<1>. QED
  BY <1>1, <1>2

(* A page has one fetch and one save in flight at most, however many clicks  *)
(* come before a button is seen to be disabled (system.tsx:130).             *)
THEOREM RequestsAreExclusive == SystemSpec => []OneRequestAtATime
<1>1. PageInv => OneRequestAtATime
  BY NoTwo DEF PageInv, Owned, OneRequestAtATime
<1>. QED
  BY PageInvariant, <1>1, PTL

(* For any number of overlapping fetches, saves and mounts the switch shows  *)
(* the saved row whenever no save is in flight, except after an answer that  *)
(* a save had overtaken was taken, or a save was missed, and then until the  *)
(* next current answer: a stale fetch taken while a save is awaited is       *)
(* corrected by the save's own answer (DigestSettings.tsx, save;             *)
(* system.tsx:190 and 275).                                                  *)
THEOREM SwitchShowsTheRow == SystemSpec => []SwitchIsCurrent
<1>1. PageInv => SwitchIsCurrent
  BY DEF PageInv, SystemTypes, DigestCard, Screen, Switch, SwitchIsCurrent, CardShown, Displayed
<1>. QED
  BY PageInvariant, <1>1, PTL

-----------------------------------------------------------------------------
(* The artist search shows what is in the box, for any texts and any number *)
(* of requests in flight.                                                   *)

Box    == [value : Text \union {Null}, loading : BOOLEAN, timer : Text \union {Null}]
Search == [n : Nat, text : Text, aborted : BOOLEAN, reply : {"none", "ok", "failed"}]

SearchTypes ==
  /\ box \in Box
  /\ searches \in SUBSET Search
  /\ nSearches \in Nat
  /\ results \in Text \union {Null}

\* The timer and a request that is not aborted are about the text in the box,
\* and a request with a timer beside it is aborted.
SearchInv ==
  /\ SearchTypes
  /\ SearchIsCurrent
  /\ box.timer # Null => box.timer = box.value
  /\ \A r \in searches : ~r.aborted => r.text = box.value /\ box.timer = Null

LEMMA NullIsNoText == \A s \in Text : s # Null
  BY SearchAssumption

\* AbortController.abort: nothing in flight is awaited any more.
LEMMA AbortAllAborts ==
  ASSUME searches \in SUBSET Search
  PROVE  AbortAll \in SUBSET Search /\ \A r \in AbortAll : r.aborted
<1>1. \A r \in Search : [r EXCEPT !.aborted = TRUE] \in Search
                        /\ [r EXCEPT !.aborted = TRUE].aborted
  BY DEF Search
<1>. QED
  BY <1>1 DEF AbortAll

LEMMA SearchStep == SearchInv /\ [SearchNext]_searchVars => SearchInv'
<1>. SUFFICES ASSUME SearchInv, [SearchNext]_searchVars PROVE SearchInv'
  OBVIOUS
<1>0. /\ box \in Box /\ searches \in SUBSET Search /\ nSearches \in Nat
      /\ results \in Text \union {Null}
  BY DEF SearchInv, SearchTypes
<1>fresh. FreshBox \in Box /\ FreshBox.value = Null /\ FreshBox.timer = Null
          /\ ~FreshBox.loading
  BY DEF FreshBox, Box
<1>1. ASSUME NEW text \in Text \union {Null}, HandleSearchChange(text) PROVE SearchInv'
  <2>1. /\ searches' \in SUBSET Search /\ nSearches' \in Nat
        /\ \A r \in searches' : r.aborted
    BY <1>0, <1>1, AbortAllAborts DEF HandleSearchChange
  <2>2. CASE text = Null
    BY <1>1, <1>fresh, <2>1, <2>2
       DEF HandleSearchChange, SearchInv, SearchTypes, SearchIsCurrent
  <2>3. CASE text # Null
    <3>1. /\ box' \in Box /\ box'.value = text /\ box'.timer = text
          /\ results' = results
      BY <1>0, <1>1, <2>3 DEF HandleSearchChange, Box
    <3>. QED
      BY <1>0, <2>1, <2>3, <3>1 DEF SearchInv, SearchTypes, SearchIsCurrent
  <2>. QED
    BY <2>2, <2>3
<1>2. CASE RunSearch
  <2>. DEFINE r == [n |-> nSearches + 1, text |-> box.timer, aborted |-> FALSE,
                    reply |-> "none"]
  <2>1. box.timer \in Text /\ box.timer = box.value
    BY <1>0, <1>2 DEF RunSearch, SearchInv, Box
  <2>2. r \in Search /\ r.text = box.value /\ ~r.aborted
    BY <1>0, <2>1 DEF Search
  <2>3. searches' = AbortAll \union {r}
    BY <1>2 DEF RunSearch
  <2>4. /\ box' \in Box /\ box'.value = box.value /\ box'.timer = Null
    BY <1>0, <1>2 DEF RunSearch, Box
  <2>5. results' = results /\ nSearches' \in Nat
    BY <1>0, <1>2 DEF RunSearch
  <2>. HIDE DEF r
  <2>. QED
    BY <1>0, <2>1, <2>2, <2>3, <2>4, <2>5, AbortAllAborts, NullIsNoText
       DEF SearchInv, SearchTypes, SearchIsCurrent
<1>3. ASSUME NEW r \in searches, ServeSearch(r) PROVE SearchInv'
  <2>1. PICK reply \in {"ok", "failed"} :
          searches' = (searches \ {r}) \union {[r EXCEPT !.reply = reply]}
    BY <1>3 DEF ServeSearch
  <2>. DEFINE d == [r EXCEPT !.reply = reply]
  <2>2. d \in Search /\ d.aborted = r.aborted /\ d.text = r.text
    BY <1>0 DEF Search
  <2>. HIDE DEF d
  <2>3. searches' = (searches \ {r}) \union {d}
    BY <2>1 DEF d
  <2>4. (\E e \in searches : ~e.aborted) <=> (\E e \in searches' : ~e.aborted)
    BY <2>2, <2>3
  <2>5. UNCHANGED <<box, nSearches, results>>
    BY <1>3 DEF ServeSearch
  <2>. QED
    BY <1>0, <2>2, <2>3, <2>4, <2>5 DEF SearchInv, SearchTypes, SearchIsCurrent
<1>4. ASSUME NEW r \in searches, SearchAnswered(r) PROVE SearchInv'
  <2>1. searches' = searches \ {r} /\ nSearches' = nSearches
    BY <1>4 DEF SearchAnswered
  <2>2. CASE r.aborted
    <3>1. UNCHANGED <<box, results>>
      BY <1>4, <2>2 DEF SearchAnswered, Aborted
    <3>. QED
      BY <1>0, <2>1, <2>2, <3>1 DEF SearchInv, SearchTypes, SearchIsCurrent
  <2>3. CASE ~r.aborted
    <3>1. /\ results' \in {r.text, Null}
          /\ box' = [box EXCEPT !.loading = FALSE]
      BY <1>4, <2>3 DEF SearchAnswered, Aborted
    <3>2. /\ box' \in Box /\ box'.value = box.value /\ box'.timer = box.timer
          /\ ~box'.loading
      BY <1>0, <3>1 DEF Box
    <3>3. r.text = box.value /\ r.text \in Text
      BY <1>0, <2>3 DEF SearchInv, Search
    <3>. QED
      BY <1>0, <2>1, <3>1, <3>2, <3>3, NullIsNoText
         DEF SearchInv, SearchTypes, SearchIsCurrent
  <2>. QED
    BY <2>2, <2>3
<1>5. CASE LeaveSearch
  BY <1>0, <1>5, <1>fresh, AbortAllAborts
     DEF LeaveSearch, SearchInv, SearchTypes, SearchIsCurrent
<1>6. CASE UNCHANGED searchVars
  BY <1>6 DEF searchVars, SearchInv, SearchTypes, SearchIsCurrent
<1>. QED
  BY <1>1, <1>2, <1>3, <1>4, <1>5, <1>6 DEF SearchNext

(* "a response for a now-stale query can never overwrite a newer query's     *)
(* results even if it happens to resolve out of order" (SearchBox.tsx:30).   *)
THEOREM StaleAnswersAreDropped == SearchSpec => []SearchIsCurrent
<1>1. SearchInit => SearchInv
  BY DEF SearchInit, SearchInv, SearchTypes, SearchIsCurrent, FreshBox, Box
<1>2. SearchInv => SearchIsCurrent
  BY DEF SearchInv
<1>. QED
  BY <1>1, <1>2, SearchStep, PTL DEF SearchSpec

-----------------------------------------------------------------------------
(* What HistoryFeed guarantees for every table of events, every page size    *)
(* and any number of visits and of Load more requests.                       *)

Answer == [rows : Seq(Event), next : Event \union {Null}]

FeedRecord ==
  [events : Seq(Event), next : Event \union {Null}, loading : BOOLEAN, appending : BOOLEAN,
   error : BOOLEAN, appendError : BOOLEAN]

PageRecord ==
  [run : Nat, filter : Filters \union {StaleKind}, answer : Answer \union {Null},
   basis : SUBSET Event]

MoreRecord ==
  [n : Nat, issuedFor : (Filters \union {StaleKind}) \X Nat, run : Nat, cursor : Event,
   answer : Answer \union {Null}]

FeedTypes ==
  /\ stored \subseteq Event /\ basis \subseteq Event
  /\ url \in [filter : Filters \union {StaleKind}, token : Nat]
  /\ visit \in Nat /\ nMores \in Nat /\ feed \in FeedRecord
  /\ pageOne \subseteq PageRecord /\ mores \subseteq MoreRecord
  /\ tagNames \in {"loading", "loaded", "error"} /\ mixed \in BOOLEAN

\* Rows in the order of the table, and a cursor at the last of them.
Sorted(events) == \A i, j \in DOMAIN events : i < j => Before(events[i], events[j])

UpTo(next, events) ==
  next \in Range(events) /\ \A d \in Range(events) : d = next \/ Before(d, next)

\* What of the table the rows leave out comes after the cursor.
NoGap(some, events, next) ==
  \A e \in some \ Range(events) : next # Null /\ Before(next, e)

\* Page one as it was served: of the events that matched by then.
PageOnes ==
  \A r \in pageOne :
    /\ r.run <= visit
    /\ r.run = visit => r.filter = url.filter /\ feed.loading
    /\ \A s \in pageOne : r.run = visit /\ s.run = visit => r = s
    /\ r.answer # Null =>
         /\ Sorted(r.answer.rows) /\ Range(r.answer.rows) \subseteq r.basis
         /\ r.basis \subseteq Matching(r.filter)
         /\ NoGap(r.basis, r.answer.rows, r.answer.next)
         /\ r.answer.next # Null => UpTo(r.answer.next, r.answer.rows)

\* The page after the cursor; and, of this visit, all of the feed's own basis.
Mores ==
  \A r \in mores :
    /\ r.run <= visit
    /\ r.run = visit => r.issuedFor = FeedKey /\ ~feed.loading /\ ~feed.error
    /\ r.answer # Null =>
         /\ Sorted(r.answer.rows)
         /\ \A e \in Range(r.answer.rows) :
              e \in Matching(r.issuedFor[1]) /\ Before(r.cursor, e)
         /\ r.answer.next # Null => UpTo(r.answer.next, r.answer.rows)
         /\ r.run = visit =>
              NoGap({e \in basis : Before(r.cursor, e)}, r.answer.rows, r.answer.next)

\* One of this visit is awaited at a time, unless an older one was taken for it.
OneAppend ==
  \A r \in mores : ~mixed /\ r.run = visit =>
    /\ feed.appending /\ r.cursor = feed.next
    /\ \A s \in mores : s.run = visit => r = s

FeedShown ==
  /\ ~feed.loading /\ ~feed.error => basis \subseteq Matching(url.filter)
  /\ ~mixed =>
       /\ Sorted(feed.events) /\ Range(feed.events) \subseteq Matching(url.filter)
       /\ feed.next # Null => UpTo(feed.next, feed.events)
       /\ ~feed.loading /\ ~feed.error => NoGap(basis, feed.events, feed.next)

FeedInv == FeedTypes /\ PageOnes /\ Mores /\ OneAppend /\ FeedShown

-----------------------------------------------------------------------------
(* The order of the table.                                                   *)

LEMMA DatesOrNull ==
  /\ Null \notin Nat /\ Event \subseteq Nat /\ IsFiniteSet(Event)
  /\ \A e \in Event : DateOf[e] \in Nat \/ DateOf[e] = Null
  BY FeedAssumption

LEMMA BeforeIsAnOrder ==
  ASSUME NEW d \in Event, NEW e \in Event
  PROVE  /\ ~Before(d, d)
         /\ d = e \/ Before(d, e) \/ Before(e, d)
         /\ \A f \in Event : Before(d, e) /\ Before(e, f) => Before(d, f)
<1>1. ~Before(d, d)
  BY DatesOrNull DEF Before
<1>2. d = e \/ Before(d, e) \/ Before(e, d)
  BY DatesOrNull DEF Before
<1>3. ASSUME NEW f \in Event, Before(d, e), Before(e, f) PROVE Before(d, f)
  BY <1>3, DatesOrNull DEF Before
<1>. QED
  BY <1>1, <1>2, <1>3

\* The keyset predicate of events.sql cuts the table where its order does.
LEMMA CursorIsTheOrder ==
  ASSUME NEW cursor \in Event, NEW e \in Event
  PROVE  AfterCursor(cursor, e) <=> Before(cursor, e)
  BY DatesOrNull DEF AfterCursor, Before

Rank(S, R, e) == Cardinality({d \in S : <<d, e>> \in R})

\* In a finite set every rank of a strict order is taken, by one element.
LEMMA Ranks ==
  ASSUME NEW S, IsFiniteSet(S), NEW R,
         \A d \in S : <<d, d>> \notin R,
         \A d, e, f \in S : <<d, e>> \in R /\ <<e, f>> \in R => <<d, f>> \in R,
         \A d, e \in S : d = e \/ <<d, e>> \in R \/ <<e, d>> \in R
  PROVE  /\ Cardinality(S) \in Nat
         /\ \A e \in S : Rank(S, R, e) \in 0..(Cardinality(S) - 1)
         /\ \A d, e \in S : Rank(S, R, d) < Rank(S, R, e) <=> <<d, e>> \in R
         /\ \A d, e \in S : Rank(S, R, d) = Rank(S, R, e) => d = e
         /\ \A k \in 0..(Cardinality(S) - 1) : \E e \in S : Rank(S, R, e) = k
<1>. DEFINE Below(e) == {d \in S : <<d, e>> \in R}
            n        == Cardinality(S)
<1>1. n \in Nat
  BY FS_CardinalityType
<1>2. ASSUME NEW e \in S
      PROVE  IsFiniteSet(Below(e)) /\ Cardinality(Below(e)) \in 0..(n - 1) /\ Rank(S, R, e) = Cardinality(Below(e))
  <2>1. PICK low, rest : low = Below(e) /\ rest = S \ {e}
    OBVIOUS
  <2>2. low \in SUBSET rest /\ Rank(S, R, e) = Cardinality(low)
    BY <1>2, <2>1 DEF Rank
  <2>3. IsFiniteSet(rest) /\ Cardinality(rest) = n - 1
    BY <1>2, <2>1, FS_RemoveElement
  <2>. HIDE DEF n
  <2>4. IsFiniteSet(low) /\ Cardinality(low) <= Cardinality(rest)
    BY <2>2, <2>3, FS_Subset
  <2>5. Cardinality(low) \in Nat
    BY <2>4, FS_CardinalityType
  <2>6. Cardinality(low) \in 0..(n - 1)
    BY <1>1, <2>3, <2>4, <2>5
  <2>. QED
    BY <2>1, <2>2, <2>4, <2>6
<1>3. ASSUME NEW d \in S, NEW e \in S, <<d, e>> \in R PROVE Rank(S, R, d) < Rank(S, R, e)
  <2>1. PICK low, high, rest : low = Below(d) /\ high = Below(e) /\ rest = high \ {d}
    OBVIOUS
  <2>2. low \in SUBSET rest /\ d \in high
    BY <1>3, <2>1
  <2>3. /\ IsFiniteSet(high) /\ Cardinality(high) \in 0..(n - 1) /\ Rank(S, R, e) = Cardinality(high)
        /\ Cardinality(low) \in 0..(n - 1) /\ Rank(S, R, d) = Cardinality(low)
    BY <1>2, <2>1
  <2>4. IsFiniteSet(rest) /\ Cardinality(rest) = Cardinality(high) - 1
    <3>1. IsFiniteSet(high) /\ rest = high \ {d} /\ d \in high
      BY <2>1, <2>2, <2>3
    <3>. QED
      BY <3>1, FS_RemoveElement
  <2>5. Cardinality(low) <= Cardinality(rest)
    BY <2>2, <2>4, FS_Subset
  <2>. HIDE DEF n, Below
  <2>. QED
    BY <1>1, <2>3, <2>4, <2>5
<1>. HIDE DEF Below, n
<1>4. \A e \in S : Rank(S, R, e) \in 0..(n - 1)
  BY <1>2
<1>5. \A d, e \in S : Rank(S, R, d) < Rank(S, R, e) <=> <<d, e>> \in R
  <2>1. ASSUME NEW d \in S, NEW e \in S, Rank(S, R, d) < Rank(S, R, e) PROVE <<d, e>> \in R
    <3>1. Rank(S, R, d) \in Int /\ Rank(S, R, e) \in Int
      BY <1>4
    <3>2. ~(<<e, d>> \in R)
      <4>1. <<e, d>> \in R => Rank(S, R, e) < Rank(S, R, d)
        BY <1>3
      <4>. QED
        BY <2>1, <3>1, <4>1
    <3>3. d # e
      BY <2>1, <3>1
    <3>. QED
      BY <3>2, <3>3
  <2>. QED
    BY <1>3, <2>1
<1>6. \A d, e \in S : Rank(S, R, d) = Rank(S, R, e) => d = e
  <2>1. ASSUME NEW d \in S, NEW e \in S, Rank(S, R, d) = Rank(S, R, e) PROVE d = e
    <3>1. Rank(S, R, d) \in Int /\ Rank(S, R, e) \in Int
      BY <1>4
    <3>2. (<<d, e>> \in R => Rank(S, R, d) < Rank(S, R, e)) /\ (<<e, d>> \in R => Rank(S, R, e) < Rank(S, R, d))
      BY <1>3
    <3>3. ~(<<d, e>> \in R) /\ ~(<<e, d>> \in R)
      BY <2>1, <3>1, <3>2
    <3>. QED
      BY <3>3
  <2>. QED
    BY <2>1
<1>7. \A k \in 0..(n - 1) : \E e \in S : Rank(S, R, e) = k
  <2>0. PICK rank : rank = [e \in S |-> Rank(S, R, e)]
    OBVIOUS
  <2>1. rank \in [S -> 0..(n - 1)] /\ \A e \in S : rank[e] = Rank(S, R, e)
    BY <1>4, <2>0
  <2>2. rank \in Injection(S, 0..(n - 1))
    BY <1>6, <2>1, Fun_IsInj
  <2>3. IsFiniteSet(0..(n - 1)) /\ Cardinality(0..(n - 1)) = n
    BY <1>1, FS_Interval
  <2>4. rank \in Surjection(S, 0..(n - 1))
    BY <2>2, <2>3, FS_Injection DEF n
  <2>5. PICK T : T = 0..(n - 1)
    OBVIOUS
  <2>6. rank \in Surjection(S, T)
    BY <2>4, <2>5
  <2>7. \A k \in T : \E e \in S : rank[e] = k
    BY <2>6, Fun_SurjectionProperties
  <2>. QED
    BY <2>1, <2>5, <2>7
<1>. QED
  BY <1>1, <1>4, <1>5, <1>6, <1>7 DEF n

\* The rows of a page and its cursor, of the events it is cut from.
LEMMA RowsOfAPage ==
  ASSUME NEW some \in SUBSET Event, NEW page, page = FirstRows(some)
  PROVE  /\ page \in Answer /\ Sorted(page.rows) /\ Range(page.rows) \subseteq some
         /\ NoGap(some, page.rows, page.next)
         /\ page.next # Null => UpTo(page.next, page.rows)
<1>1. some \subseteq Event
  OBVIOUS
<1>3. IsFiniteSet(some)
  BY <1>1, DatesOrNull, FS_Subset
<1>4. PICK R, c, n :
        /\ R = {p \in some \X some : Before(p[1], p[2])}
        /\ c = Cardinality(some)
        /\ n = IF c < PageSize THEN c ELSE PageSize
  OBVIOUS
<1>5. \A d, e \in some : <<d, e>> \in R <=> Before(d, e)
  BY <1>4
<1>6. /\ c \in Nat /\ \A e \in some : Rank(some, R, e) \in 0..(c - 1)
      /\ \A d, e \in some : Rank(some, R, d) < Rank(some, R, e) <=> <<d, e>> \in R
      /\ \A d, e \in some : Rank(some, R, d) = Rank(some, R, e) => d = e
      /\ \A k \in 0..(c - 1) : \E e \in some : Rank(some, R, e) = k
  <2>1. /\ \A d \in some : <<d, d>> \notin R
        /\ \A d, e, g \in some : <<d, e>> \in R /\ <<e, g>> \in R => <<d, g>> \in R
        /\ \A d, e \in some : d = e \/ <<d, e>> \in R \/ <<e, d>> \in R
    BY <1>1, <1>5, BeforeIsAnOrder
  <2>2. /\ Cardinality(some) \in Nat
        /\ \A e \in some : Rank(some, R, e) \in 0..(Cardinality(some) - 1)
        /\ \A d, e \in some : Rank(some, R, d) < Rank(some, R, e) <=> <<d, e>> \in R
        /\ \A d, e \in some : Rank(some, R, d) = Rank(some, R, e) => d = e
        /\ \A k \in 0..(Cardinality(some) - 1) : \E e \in some : Rank(some, R, e) = k
    BY <1>3, <2>1, Ranks
  <2>. QED
    BY <1>4, <2>2
<1>7. PageSize \in Nat \ {0} /\ n \in Nat /\ n <= c /\ (n = c \/ n = PageSize)
  BY <1>4, <1>6, FeedAssumption
<1>. DEFINE At(i) == CHOOSE e \in some : Cardinality({d \in some : Before(d, e)}) = i - 1
<1>8. page = [rows |-> [i \in 1..n |-> At(i)], next |-> IF n = PageSize THEN At(n) ELSE Null]
  BY <1>4 DEF FirstRows
<1>9. ASSUME NEW i \in 1..n PROVE At(i) \in some /\ Rank(some, R, At(i)) = i - 1
  <2>1. \A e \in some : Rank(some, R, e) = Cardinality({d \in some : Before(d, e)})
    <3>1. ASSUME NEW e \in some PROVE {d \in some : <<d, e>> \in R} = {d \in some : Before(d, e)}
      BY <1>5
    <3>. QED
      BY <1>4, <3>1 DEF Rank
  <2>2. PICK e \in some : Rank(some, R, e) = i - 1
    BY <1>6, <1>7
  <2>3. Cardinality({d \in some : Before(d, e)}) = i - 1
    BY <2>1, <2>2
  <2>4. At(i) \in some /\ Cardinality({d \in some : Before(d, At(i))}) = i - 1
    BY <2>3
  <2>. QED
    BY <2>1, <2>4
<1>. HIDE DEF At
<1>10. PICK rows, next : rows = page.rows /\ next = page.next
  OBVIOUS
<1>11. /\ rows = [i \in 1..n |-> At(i)] /\ next = IF n = PageSize THEN At(n) ELSE Null
       /\ DOMAIN page = {"rows", "next"}
  BY <1>8, <1>10
<1>12. /\ DOMAIN rows = 1..n
       /\ \A i \in 1..n : rows[i] \in some /\ Rank(some, R, rows[i]) = i - 1
       /\ n = PageSize => next = rows[n] /\ next \in some
       /\ n # PageSize => next = Null
  BY <1>7, <1>9, <1>11
<1>13. page \in Answer
  <2>1. rows \in Seq(Event)
    <3>1. rows \in [1..n -> Event]
      BY <1>1, <1>9, <1>11
    <3>. QED
      BY <1>7, <3>1
  <2>2. next \in Event \union {Null}
    BY <1>1, <1>12
  <2>3. page = [rows |-> rows, next |-> next]
    BY <1>8, <1>11
  <2>. QED
    BY <2>1, <2>2, <2>3 DEF Answer
<1>14. ASSUME NEW i \in 1..n, NEW j \in 1..n, i < j PROVE Before(rows[i], rows[j])
  <2>1. Rank(some, R, rows[i]) < Rank(some, R, rows[j])
    BY <1>12, <1>14
  <2>. QED
    BY <1>5, <1>6, <1>12, <2>1
<1>15. Sorted(rows) /\ Range(rows) \subseteq some
  BY <1>12, <1>14 DEF Sorted, Range
<1>16. NoGap(some, rows, next)
  <2>1. SUFFICES ASSUME NEW e \in some, e \notin Range(rows)
                 PROVE  next # Null /\ Before(next, e)
    BY DEF NoGap
  <2>2. PICK k \in 0..(c - 1) : k = Rank(some, R, e)
    BY <1>6
  <2>3. ~(k < n)
    <3>1. SUFFICES ASSUME k < n PROVE FALSE
      OBVIOUS
    <3>2. k + 1 \in 1..n /\ (k + 1) - 1 = k
      BY <1>6, <1>7, <3>1
    <3>3. Rank(some, R, rows[k + 1]) = k /\ rows[k + 1] \in some
      BY <1>12, <3>2
    <3>4. rows[k + 1] = e
      BY <1>6, <2>2, <3>3
    <3>. QED
      BY <1>12, <2>1, <3>2, <3>4 DEF Range
  <2>4. n = PageSize /\ n \in 1..n
    BY <1>6, <1>7, <2>2, <2>3
  <2>5. next = rows[n] /\ next \in some /\ Rank(some, R, next) = n - 1
    BY <1>12, <2>4
  <2>6. Rank(some, R, next) < Rank(some, R, e)
    BY <1>7, <2>2, <2>3, <2>5
  <2>7. Before(next, e)
    BY <1>5, <1>6, <2>5, <2>6
  <2>. QED
    BY <1>1, <2>5, <2>7, DatesOrNull
<1>17. ASSUME next # Null PROVE UpTo(next, rows)
  <2>1. n = PageSize /\ next = rows[n] /\ n \in 1..n
    BY <1>7, <1>12, <1>17
  <2>2. ASSUME NEW i \in 1..n PROVE rows[i] = next \/ Before(rows[i], next)
    BY <1>14, <2>1
  <2>3. next \in Range(rows)
    BY <1>12, <2>1 DEF Range
  <2>. QED
    BY <1>12, <2>2, <2>3 DEF UpTo, Range
<1>. QED
  BY <1>10, <1>13, <1>15, <1>16, <1>17

\* What a page holds of the events that match, or of those after the cursor.
LEMMA Pages ==
  ASSUME stored \subseteq Event, NEW f, NEW cursor \in Event \union {Null},
         NEW some, some = {e \in Matching(f) : cursor = Null \/ Before(cursor, e)},
         NEW page, page = Page(f, cursor)
  PROVE  /\ page \in Answer /\ Sorted(page.rows) /\ Range(page.rows) \subseteq some
         /\ NoGap(some, page.rows, page.next)
         /\ page.next # Null => UpTo(page.next, page.rows)
<1>1. some \in SUBSET Event
  BY DEF Matching
<1>2. some = {e \in Matching(f) : cursor = Null \/ AfterCursor(cursor, e)}
  <2>1. \A e \in Matching(f) : cursor = Null \/ (AfterCursor(cursor, e) <=> Before(cursor, e))
    BY CursorIsTheOrder DEF Matching
  <2>. QED
    BY <2>1
<1>3. page = FirstRows(some)
  BY <1>2 DEF Page
<1>. QED
  BY <1>1, <1>3, RowsOfAPage

\* Load more keeps to events, whatever it is given.
LEMMA AppendedType ==
  ASSUME NEW prev \in Seq(Event), NEW rows \in Seq(Event)
  PROVE  Append2(prev, rows) \in Seq(Event)
<1>1. PICK fresh : fresh = {i \in DOMAIN rows : rows[i] \notin Range(prev)}
  OBVIOUS
<1>2. PICK c, R : c = Cardinality(fresh) /\ R = {p \in fresh \X fresh : p[1] < p[2]}
  OBVIOUS
<1>3. fresh \subseteq 1..Len(rows) /\ Len(rows) \in Nat /\ \A i \in fresh : rows[i] \in Event
  BY <1>1
<1>4. IsFiniteSet(fresh)
  <2>1. PICK all : all = 1..Len(rows)
    OBVIOUS
  <2>2. IsFiniteSet(all)
    BY <1>3, <2>1, FS_Interval
  <2>3. fresh \in SUBSET all
    BY <1>3, <2>1
  <2>. QED
    BY <2>2, <2>3, FS_Subset
<1>5. /\ c \in Nat /\ \A i \in fresh : Rank(fresh, R, i) \in 0..(c - 1)
      /\ \A k \in 0..(c - 1) : \E i \in fresh : Rank(fresh, R, i) = k
  <2>1. /\ \A i \in fresh : <<i, i>> \notin R
        /\ \A i, j, k \in fresh : <<i, j>> \in R /\ <<j, k>> \in R => <<i, k>> \in R
        /\ \A i, j \in fresh : i = j \/ <<i, j>> \in R \/ <<j, i>> \in R
    <3>1. \A i, j \in fresh : <<i, j>> \in R <=> i < j
      BY <1>2
    <3>2. fresh \subseteq Int
      BY <1>3
    <3>. QED
      BY <3>1, <3>2
  <2>2. /\ Cardinality(fresh) \in Nat
        /\ \A i \in fresh : Rank(fresh, R, i) \in 0..(Cardinality(fresh) - 1)
        /\ \A k \in 0..(Cardinality(fresh) - 1) : \E i \in fresh : Rank(fresh, R, i) = k
    BY <1>4, <2>1, Ranks
  <2>. QED
    BY <1>2, <2>2
<1>6. ASSUME NEW i \in fresh
      PROVE  Cardinality({j \in fresh : j <= i}) = Rank(fresh, R, i) + 1
  <2>1. PICK low : low = {j \in fresh : <<j, i>> \in R}
    OBVIOUS
  <2>2. i \notin low /\ {j \in fresh : j <= i} = low \union {i} /\ low \in SUBSET fresh
    <3>1. \A j \in fresh : <<j, i>> \in R <=> j < i
      BY <1>2
    <3>2. fresh \subseteq Int
      BY <1>3
    <3>3. low = {j \in fresh : j < i}
      BY <2>1, <3>1
    <3>4. \A j \in fresh : j <= i <=> j < i \/ j = i
      BY <3>2
    <3>5. i \notin low /\ low \in SUBSET fresh
      BY <3>2, <3>3
    <3>6. {j \in fresh : j <= i} = low \union {i}
      BY <3>3, <3>4
    <3>. QED
      BY <3>5, <3>6
  <2>3. IsFiniteSet(low)
    BY <1>4, <2>2, FS_Subset
  <2>4. Cardinality(low \union {i}) = Cardinality(low) + 1
    BY <2>2, <2>3, FS_AddElement
  <2>. QED
    BY <2>1, <2>2, <2>4 DEF Rank
<1>. DEFINE Th(k) == CHOOSE i \in fresh : Cardinality({j \in fresh : j <= i}) = k
<1>7. ASSUME NEW k \in 1..c PROVE rows[Th(k)] \in Event
  <2>1. PICK i \in fresh : Rank(fresh, R, i) = k - 1
    BY <1>5
  <2>2. Cardinality({j \in fresh : j <= i}) = k
    BY <1>6, <2>1
  <2>3. Th(k) \in fresh
    BY <2>2
  <2>. QED
    BY <1>3, <2>3
<1>8. Append2(prev, rows) = prev \o [k \in 1..c |-> rows[Th(k)]]
  BY <1>1, <1>2 DEF Append2
<1>. HIDE DEF Th
<1>9. [k \in 1..c |-> rows[Th(k)]] \in Seq(Event)
  BY <1>5, <1>7
<1>. QED
  BY <1>8, <1>9

\* A page that comes after all that is shown is appended whole.
LEMMA AppendedAfter ==
  ASSUME NEW prev \in Seq(Event), NEW rows \in Seq(Event), Sorted(prev), Sorted(rows),
         \A d \in Range(prev), e \in Range(rows) : Before(d, e)
  PROVE  /\ Sorted(Append2(prev, rows))
         /\ Range(Append2(prev, rows)) = Range(prev) \union Range(rows)
<1>1. PICK fresh, n : /\ fresh = {i \in DOMAIN rows : rows[i] \notin Range(prev)}
                      /\ n = Len(rows)
  OBVIOUS
<1>2. n \in Nat /\ DOMAIN rows = 1..n /\ \A i \in 1..n : rows[i] \in Event
  BY <1>1
<1>3. fresh = 1..n
  <2>1. \A i \in 1..n : rows[i] \notin Range(prev)
    <3>1. ASSUME NEW i \in 1..n, rows[i] \in Range(prev) PROVE FALSE
      <4>1. rows[i] \in Range(rows) /\ rows[i] \in Event
        BY <1>2, <3>1 DEF Range
      <4>2. Before(rows[i], rows[i])
        BY <3>1, <4>1
      <4>. QED
        BY <4>1, <4>2, BeforeIsAnOrder
    <3>. QED
      BY <3>1
  <2>. QED
    BY <1>1, <1>2, <2>1
<1>4. Cardinality(fresh) = n
  BY <1>2, <1>3, FS_Interval
<1>5. ASSUME NEW i \in 1..n PROVE Cardinality({j \in fresh : j <= i}) = i
  <2>1. {j \in fresh : j <= i} = 1..i
    BY <1>2, <1>3
  <2>2. Cardinality(1..i) = i
    BY <1>2, FS_Interval
  <2>. QED
    BY <2>1, <2>2
<1>. DEFINE Th(k) == CHOOSE i \in fresh : Cardinality({j \in fresh : j <= i}) = k
<1>6. ASSUME NEW k \in 1..n PROVE Th(k) = k
  <2>1. Cardinality({j \in fresh : j <= k}) = k /\ k \in fresh
    BY <1>3, <1>5
  <2>2. Th(k) \in fresh /\ Cardinality({j \in fresh : j <= Th(k)}) = k
    BY <2>1
  <2>. QED
    BY <1>3, <1>5, <2>2
<1>7. Append2(prev, rows) = prev \o [k \in 1..n |-> rows[Th(k)]]
  <2>1. PICK c : c = Cardinality(fresh)
    OBVIOUS
  <2>2. Append2(prev, rows) = prev \o [k \in 1..c |-> rows[Th(k)]]
    BY <1>1, <2>1 DEF Append2
  <2>. QED
    BY <1>4, <2>1, <2>2
<1>. HIDE DEF Th
<1>8. [k \in 1..n |-> rows[Th(k)]] = rows
  <2>1. [k \in 1..n |-> rows[Th(k)]] = [k \in 1..n |-> rows[k]]
    BY <1>6
  <2>. QED
    BY <1>2, <2>1
<1>9. PICK all, m : all = prev \o rows /\ m = Len(prev)
  OBVIOUS
<1>10. /\ m \in Nat /\ DOMAIN prev = 1..m /\ DOMAIN all = 1..(m + n)
       /\ \A i \in 1..m : all[i] = prev[i]
       /\ \A i \in (m + 1)..(m + n) : all[i] = rows[i - m] /\ i - m \in 1..n
  BY <1>1, <1>2, <1>9
<1>11. ASSUME NEW i \in DOMAIN all, NEW j \in DOMAIN all, i < j PROVE Before(all[i], all[j])
  <2>1. CASE j <= m
    BY <1>10, <1>11, <2>1 DEF Sorted
  <2>2. CASE i > m
    <3>1. /\ i - m \in DOMAIN rows /\ j - m \in DOMAIN rows /\ i - m < j - m
          /\ all[i] = rows[i - m] /\ all[j] = rows[j - m]
      BY <1>2, <1>10, <1>11, <2>2
    <3>. QED
      BY <3>1 DEF Sorted
  <2>3. CASE i <= m /\ j > m
    <3>1. /\ i \in DOMAIN prev /\ j - m \in DOMAIN rows
          /\ all[i] = prev[i] /\ all[j] = rows[j - m]
      BY <1>2, <1>10, <1>11, <2>3
    <3>. QED
      BY <3>1 DEF Range
  <2>. QED
    BY <1>10, <2>1, <2>2, <2>3
<1>12. Range(all) = Range(prev) \union Range(rows)
  <2>1. ASSUME NEW e \in Range(prev) PROVE e \in Range(all)
    <3>1. PICK i \in 1..m : e = prev[i]
      BY <1>10, <2>1 DEF Range
    <3>. QED
      BY <1>2, <1>10, <3>1 DEF Range
  <2>2. ASSUME NEW e \in Range(rows) PROVE e \in Range(all)
    <3>1. PICK i \in 1..n : e = rows[i]
      BY <1>2, <2>2 DEF Range
    <3>2. i + m \in (m + 1)..(m + n) /\ (i + m) - m = i
      BY <1>2, <1>10, <3>1
    <3>. QED
      BY <1>10, <3>1, <3>2 DEF Range
  <2>3. ASSUME NEW e \in Range(all) PROVE e \in Range(prev) \union Range(rows)
    BY <1>2, <1>10, <2>3 DEF Range
  <2>. QED
    BY <2>1, <2>2, <2>3
<1>. QED
  BY <1>7, <1>8, <1>9, <1>11, <1>12 DEF Sorted

-----------------------------------------------------------------------------
(* The feed.                                                                 *)

Kinds == Filters \union {StaleKind}

LEMMA NoFeed ==
  /\ EmptyFeed \in FeedRecord /\ EmptyFeed.loading /\ EmptyFeed.next = Null
  /\ Sorted(EmptyFeed.events) /\ Range(EmptyFeed.events) = {}
<1>1. EmptyFeed.events = <<>> /\ EmptyFeed.loading /\ EmptyFeed.next = Null
  BY DEF EmptyFeed
<1>2. <<>> \in Seq(Event) /\ Sorted(<<>>) /\ Range(<<>>) = {}
  BY DEF Sorted, Range
<1>3. EmptyFeed \in FeedRecord
  BY <1>2 DEF EmptyFeed, FeedRecord
<1>. QED
  BY <1>1, <1>2, <1>3

LEMMA FeedInitInv == FeedInit => FeedInv
<1>. SUFFICES ASSUME FeedInit PROVE FeedInv
  OBVIOUS
<1>1. PICK r : r = [run |-> 1, filter |-> FilterFirst, answer |-> Null, basis |-> {}]
  OBVIOUS
<1>2. /\ r \in PageRecord /\ r.run = 1 /\ r.filter = FilterFirst /\ r.answer = Null
      /\ FilterFirst \in Filters \union {StaleKind}
  BY <1>1, FeedAssumption DEF PageRecord, Filters
<1>3. pageOne = {r} /\ mores = {} /\ visit = 1 /\ basis = {} /\ feed = EmptyFeed
      /\ url = [filter |-> FilterFirst, token |-> 0]
  BY <1>1 DEF FeedInit
<1>4. FeedTypes
  <2>1. url \in [filter : Filters \union {StaleKind}, token : Nat]
    BY <1>2, <1>3
  <2>2. stored \subseteq Event /\ nMores \in Nat /\ tagNames = "loading" /\ mixed = FALSE
    BY FeedAssumption DEF FeedInit
  <2>. QED
    BY <1>2, <1>3, <2>1, <2>2, NoFeed DEF FeedTypes
<1>5. PageOnes /\ Mores /\ OneAppend
  BY <1>2, <1>3, NoFeed DEF PageOnes, Mores, OneAppend
<1>6. FeedShown
  BY <1>3, NoFeed DEF FeedShown, UpTo
<1>. QED
  BY <1>4, <1>5, <1>6 DEF FeedInv

LEMMA MatchingGrows ==
  ASSUME stored \subseteq stored', NEW f
  PROVE  Matching(f) \subseteq Matching(f)'
  BY DEF Matching

LEMMA MatchingStays ==
  ASSUME stored' = stored, NEW f
  PROVE  Matching(f)' = Matching(f)
  BY DEF Matching

\* Events may be stored while nothing of the feed moves.
LEMMA StoredStep ==
  ASSUME FeedInv, stored \subseteq stored', stored' \subseteq Event,
         UNCHANGED <<url, visit, feed, pageOne, mores, nMores, basis, mixed>>,
         tagNames' \in {"loading", "loaded", "error"}
  PROVE  FeedInv'
<1>1. FeedTypes /\ PageOnes /\ Mores /\ OneAppend /\ FeedShown
  BY DEF FeedInv
<1>2. FeedTypes'
  BY <1>1 DEF FeedTypes
<1>3. PageOnes'
  BY <1>1, MatchingGrows DEF PageOnes
<1>4. Mores'
  BY <1>1, MatchingGrows DEF Mores, FeedKey
<1>5. OneAppend'
  BY <1>1 DEF OneAppend
<1>6. FeedShown'
  <2>1. PICK f : f = url.filter
    OBVIOUS
  <2>2. Matching(f) \subseteq Matching(f)' /\ url'.filter = f
    BY <2>1, MatchingGrows
  <2>3. Matching(url.filter) \subseteq Matching(url.filter)'
    BY <2>1, <2>2
  <2>. QED
    BY <1>1, <2>3 DEF FeedShown
<1>. QED
  BY <1>2, <1>3, <1>4, <1>5, <1>6 DEF FeedInv

LEMMA VisitStep ==
  ASSUME FeedInv, NEW f \in Kinds, NEW token \in Nat, Visit(f, token), mixed' = FALSE,
         tagNames' \in {"loading", "loaded", "error"}
  PROVE  FeedInv'
<1>1. FeedTypes /\ PageOnes /\ Mores
  BY DEF FeedInv
<1>2. PICK r : r = [run |-> visit + 1, filter |-> f, answer |-> Null, basis |-> {}]
  OBVIOUS
<1>3. /\ url' = [filter |-> f, token |-> token] /\ visit' = visit + 1 /\ feed' = EmptyFeed
      /\ pageOne' = pageOne \union {r}
      /\ UNCHANGED <<stored, mores, nMores, basis>>
  BY <1>2 DEF Visit, Reset
<1>4. visit \in Nat
  BY <1>1 DEF FeedTypes
<1>5. /\ r \in PageRecord /\ r.run = visit + 1 /\ r.filter = f /\ r.answer = Null
  BY <1>2, <1>4 DEF PageRecord, Kinds
<1>6. FeedTypes'
  <2>1. url' \in [filter : Filters \union {StaleKind}, token : Nat]
    BY <1>3 DEF Kinds
  <2>2. visit' \in Nat /\ feed' \in FeedRecord
    BY <1>3, <1>4, NoFeed
  <2>3. pageOne' \subseteq PageRecord
    BY <1>1, <1>3, <1>5 DEF FeedTypes
  <2>. QED
    BY <1>1, <1>3, <2>1, <2>2, <2>3 DEF FeedTypes
<1>7. PageOnes'
  <2>1. \A s \in pageOne : s.run <= visit /\ s.run \in Nat
    BY <1>1 DEF PageOnes, FeedTypes, PageRecord
  <2>2. \A s \in pageOne' : s.run = visit' => s = r
    BY <1>3, <1>4, <1>5, <2>1
  <2>3. url'.filter = f /\ feed'.loading
    BY <1>3, NoFeed
  <2>4. \A s \in pageOne' : s.run <= visit'
    BY <1>3, <1>4, <1>5, <2>1
  <2>5. ASSUME NEW s \in pageOne', s.answer # Null
        PROVE  /\ Sorted(s.answer.rows) /\ Range(s.answer.rows) \subseteq s.basis
               /\ s.basis \subseteq Matching(s.filter)'
               /\ NoGap(s.basis, s.answer.rows, s.answer.next)
               /\ s.answer.next # Null => UpTo(s.answer.next, s.answer.rows)
    <3>1. s \in pageOne
      BY <1>3, <1>5, <2>5
    <3>. QED
      BY <1>1, <1>3, <2>5, <3>1, MatchingStays DEF PageOnes
  <2>. QED
    BY <1>5, <2>2, <2>3, <2>4, <2>5 DEF PageOnes
<1>8. ASSUME NEW s \in mores' PROVE s.run <= visit' /\ s.run # visit' /\ s \in mores
  <2>1. s \in mores /\ s.run <= visit /\ s.run \in Nat
    BY <1>1, <1>3, <1>8 DEF Mores, FeedTypes, MoreRecord
  <2>. QED
    BY <1>3, <1>4, <2>1
<1>9. Mores'
  BY <1>1, <1>3, <1>8, MatchingStays DEF Mores
<1>10. OneAppend'
  BY <1>8 DEF OneAppend
<1>11. FeedShown'
  BY <1>3, NoFeed DEF FeedShown
<1>. QED
  BY <1>6, <1>7, <1>9, <1>10, <1>11 DEF FeedInv

LEMMA ServePageOneStep ==
  ASSUME FeedInv, NEW r \in pageOne, ServePageOne(r)
  PROVE  FeedInv'
<1>1. FeedTypes /\ PageOnes /\ Mores /\ OneAppend /\ FeedShown
  BY DEF FeedInv
<1>2. PICK page, some, t :
        /\ page = Page(r.filter, Null) /\ some = Matching(r.filter)
        /\ t = [r EXCEPT !.answer = page, !.basis = some]
  OBVIOUS
<1>3. /\ r.answer = Null /\ pageOne' = (pageOne \ {r}) \union {t}
      /\ UNCHANGED <<stored, url, visit, feed, mores, nMores, tagNames, basis, mixed>>
  BY <1>2 DEF ServePageOne
<1>4. r \in PageRecord /\ stored \subseteq Event
  BY <1>1 DEF FeedTypes
<1>5. /\ page \in Answer /\ Sorted(page.rows) /\ Range(page.rows) \subseteq some
      /\ NoGap(some, page.rows, page.next)
      /\ page.next # Null => UpTo(page.next, page.rows)
  <2>1. some = {e \in Matching(r.filter) : Null = Null \/ Before(Null, e)}
    BY <1>2
  <2>. QED
    BY <1>2, <1>4, <2>1, Pages
<1>6. some \in SUBSET Event /\ some = Matching(r.filter)'
  BY <1>2, <1>3, <1>4, MatchingStays DEF Matching
<1>7. /\ t \in PageRecord /\ t.run = r.run /\ t.filter = r.filter
      /\ t.answer = page /\ t.basis = some
  BY <1>2, <1>4, <1>5, <1>6 DEF PageRecord
<1>8. FeedTypes'
  <2>1. pageOne' \subseteq PageRecord
    BY <1>1, <1>3, <1>7 DEF FeedTypes
  <2>. QED
    BY <1>1, <1>3, <2>1 DEF FeedTypes
<1>9. PageOnes'
  <2>1. /\ t.run <= visit' /\ (t.run = visit' => t.filter = url'.filter /\ feed'.loading)
        /\ \A s \in pageOne \ {r} : ~(t.run = visit' /\ s.run = visit')
    BY <1>1, <1>3, <1>7 DEF PageOnes
  <2>2. /\ Sorted(t.answer.rows) /\ Range(t.answer.rows) \subseteq t.basis
        /\ t.basis \subseteq Matching(t.filter)'
        /\ NoGap(t.basis, t.answer.rows, t.answer.next)
        /\ t.answer.next # Null => UpTo(t.answer.next, t.answer.rows)
    BY <1>5, <1>6, <1>7
  <2>3. ASSUME NEW s \in pageOne \ {r}
        PROVE  /\ s.run <= visit' /\ (s.run = visit' => s.filter = url'.filter /\ feed'.loading)
               /\ \A u \in pageOne : s.run = visit' /\ u.run = visit' => s = u
               /\ s.answer # Null =>
                    /\ Sorted(s.answer.rows) /\ Range(s.answer.rows) \subseteq s.basis
                    /\ s.basis \subseteq Matching(s.filter)'
                    /\ NoGap(s.basis, s.answer.rows, s.answer.next)
                    /\ s.answer.next # Null => UpTo(s.answer.next, s.answer.rows)
    <3>1. s \in pageOne /\ Matching(s.filter)' = Matching(s.filter)
      BY <1>3, MatchingStays
    <3>. QED
      BY <1>1, <1>3, <3>1 DEF PageOnes
  <2>. QED
    BY <1>3, <2>1, <2>2, <2>3 DEF PageOnes
<1>10. Mores'
  BY <1>1, <1>3, MatchingStays DEF Mores, FeedKey
<1>11. OneAppend'
  BY <1>1, <1>3 DEF OneAppend
<1>12. FeedShown'
  BY <1>1, <1>3, MatchingStays DEF FeedShown, Matching
<1>. QED
  BY <1>8, <1>9, <1>10, <1>11, <1>12 DEF FeedInv

\* Answered or failed, a request of page one is gone; the others stay as they were.
LEMMA PageOneGone ==
  ASSUME FeedInv, NEW r \in pageOne, pageOne' = pageOne \ {r},
         UNCHANGED <<stored, url, visit>>, UNCHANGED feed \/ r.run = visit
  PROVE  PageOnes'
<1>1. PageOnes
  BY DEF FeedInv
<1>2. ASSUME NEW s \in pageOne \ {r}, s.run = visit PROVE UNCHANGED feed
  BY <1>1, <1>2 DEF PageOnes
<1>3. ASSUME NEW s \in pageOne \ {r}
      PROVE  /\ s.run <= visit' /\ (s.run = visit' => s.filter = url'.filter /\ feed'.loading)
             /\ \A u \in pageOne : s.run = visit' /\ u.run = visit' => s = u
             /\ s.answer # Null =>
                  /\ Sorted(s.answer.rows) /\ Range(s.answer.rows) \subseteq s.basis
                  /\ s.basis \subseteq Matching(s.filter)'
                  /\ NoGap(s.basis, s.answer.rows, s.answer.next)
                  /\ s.answer.next # Null => UpTo(s.answer.next, s.answer.rows)
  <2>1. s \in pageOne /\ Matching(s.filter)' = Matching(s.filter)
    BY MatchingStays
  <2>2. s.run = visit' => s.filter = url'.filter /\ feed'.loading
    BY <1>1, <1>2, <2>1 DEF PageOnes
  <2>. QED
    BY <1>1, <2>1, <2>2 DEF PageOnes
<1>. QED
  BY <1>3 DEF PageOnes

LEMMA PageOneAnsweredStep ==
  ASSUME FeedInv, NEW r \in pageOne, PageOneAnswered(r)
  PROVE  FeedInv'
<1>1. FeedTypes /\ PageOnes /\ Mores /\ OneAppend /\ FeedShown
  BY DEF FeedInv
<1>2. /\ r.answer # Null /\ pageOne' = pageOne \ {r}
      /\ UNCHANGED <<stored, url, visit, mores, nMores, tagNames>>
      /\ r.run # visit => UNCHANGED <<feed, basis, mixed>>
      /\ r.run = visit =>
           /\ feed' = [feed EXCEPT !.events = r.answer.rows, !.next = r.answer.next,
                                   !.loading = FALSE]
           /\ basis' = r.basis /\ mixed' = FALSE
  BY DEF PageOneAnswered, Cancelled
<1>3. PageOnes'
  BY <1>2, PageOneGone
<1>4. CASE r.run # visit
  <2>1. FeedTypes'
    BY <1>1, <1>2, <1>4 DEF FeedTypes
  <2>2. Mores' /\ OneAppend'
    BY <1>1, <1>2, <1>4, MatchingStays DEF Mores, OneAppend, FeedKey
  <2>3. FeedShown'
    BY <1>1, <1>2, <1>4, MatchingStays DEF FeedShown, Matching
  <2>. QED
    BY <1>3, <2>1, <2>2, <2>3 DEF FeedInv
<1>5. CASE r.run = visit
  <2>1. PICK page : page = r.answer
    OBVIOUS
  <2>2. /\ r \in PageRecord /\ feed \in FeedRecord /\ page \in Answer /\ r.basis \in SUBSET Event
    BY <1>1, <1>2, <2>1 DEF FeedTypes, PageRecord
  <2>3. /\ feed' = [feed EXCEPT !.events = page.rows, !.next = page.next, !.loading = FALSE]
        /\ basis' = r.basis /\ mixed' = FALSE
    BY <1>2, <1>5, <2>1
  <2>4. /\ feed' \in FeedRecord /\ feed'.events = page.rows /\ feed'.next = page.next
    BY <2>2, <2>3 DEF FeedRecord, Answer
  <2>5. FeedTypes'
    BY <1>1, <1>2, <2>2, <2>3, <2>4 DEF FeedTypes
  <2>6. /\ r.filter = url.filter /\ feed.loading
        /\ Sorted(page.rows) /\ Range(page.rows) \subseteq r.basis
        /\ r.basis \subseteq Matching(r.filter)
        /\ NoGap(r.basis, page.rows, page.next)
        /\ page.next # Null => UpTo(page.next, page.rows)
    BY <1>1, <1>2, <1>5, <2>1 DEF PageOnes
  <2>7. \A s \in mores : s.run # visit
    BY <1>1, <2>6 DEF Mores
  <2>8. Mores'
    BY <1>1, <1>2, <2>7, MatchingStays DEF Mores
  <2>9. OneAppend'
    BY <1>2, <2>7 DEF OneAppend
  <2>10. Matching(url.filter)' = Matching(r.filter)
    BY <1>2, <2>6 DEF Matching
  <2>11. FeedShown'
    BY <2>3, <2>4, <2>6, <2>10 DEF FeedShown
  <2>. QED
    BY <1>3, <2>5, <2>8, <2>9, <2>11 DEF FeedInv
<1>. QED
  BY <1>4, <1>5

LEMMA PageOneFailedStep ==
  ASSUME FeedInv, NEW r \in pageOne, PageOneFailed(r)
  PROVE  FeedInv'
<1>1. FeedTypes /\ PageOnes /\ Mores /\ OneAppend /\ FeedShown
  BY DEF FeedInv
<1>2. /\ pageOne' = pageOne \ {r}
      /\ UNCHANGED <<stored, url, visit, mores, nMores, tagNames, basis, mixed>>
      /\ r.run # visit => UNCHANGED feed
      /\ r.run = visit => feed' = [feed EXCEPT !.error = TRUE, !.loading = FALSE]
  BY DEF PageOneFailed, Cancelled
<1>3. PageOnes'
  BY <1>2, PageOneGone
<1>4. CASE r.run # visit
  <2>1. FeedTypes'
    BY <1>1, <1>2, <1>4 DEF FeedTypes
  <2>2. Mores' /\ OneAppend'
    BY <1>1, <1>2, <1>4, MatchingStays DEF Mores, OneAppend, FeedKey
  <2>3. FeedShown'
    BY <1>1, <1>2, <1>4, MatchingStays DEF FeedShown, Matching
  <2>. QED
    BY <1>3, <2>1, <2>2, <2>3 DEF FeedInv
<1>5. CASE r.run = visit
  <2>1. feed \in FeedRecord /\ feed' = [feed EXCEPT !.error = TRUE, !.loading = FALSE]
    BY <1>1, <1>2, <1>5 DEF FeedTypes
  <2>2. /\ feed' \in FeedRecord /\ feed'.events = feed.events /\ feed'.next = feed.next
        /\ feed'.error
    BY <2>1 DEF FeedRecord
  <2>3. FeedTypes'
    BY <1>1, <1>2, <2>2 DEF FeedTypes
  <2>4. feed.loading
    BY <1>1, <1>5 DEF PageOnes
  <2>5. \A s \in mores : s.run # visit
    BY <1>1, <2>4 DEF Mores
  <2>6. Mores'
    BY <1>1, <1>2, <2>5, MatchingStays DEF Mores
  <2>7. OneAppend'
    BY <1>2, <2>5 DEF OneAppend
  <2>8. Matching(url.filter)' = Matching(url.filter)
    BY <1>2 DEF Matching
  <2>9. FeedShown'
    BY <1>1, <1>2, <2>2, <2>8 DEF FeedShown
  <2>. QED
    BY <1>3, <2>3, <2>6, <2>7, <2>9 DEF FeedInv
<1>. QED
  BY <1>4, <1>5

LEMMA LoadMoreStep ==
  ASSUME FeedInv, LoadMore
  PROVE  FeedInv'
<1>1. FeedTypes /\ PageOnes /\ Mores /\ OneAppend /\ FeedShown
  BY DEF FeedInv
<1>2. PICK r : r = [n |-> nMores + 1, issuedFor |-> FeedKey, run |-> visit,
                    cursor |-> feed.next, answer |-> Null]
  OBVIOUS
<1>3. /\ ~feed.error /\ ~feed.loading /\ feed.next # Null /\ ~feed.appending
      /\ feed' = [feed EXCEPT !.appending = TRUE, !.appendError = FALSE]
      /\ mores' = mores \union {r} /\ nMores' = nMores + 1
      /\ UNCHANGED <<stored, url, visit, pageOne, tagNames, basis, mixed>>
  BY <1>2 DEF LoadMore, LoadMoreOffered
<1>4. /\ feed \in FeedRecord /\ nMores \in Nat /\ visit \in Nat
      /\ url \in [filter : Filters \union {StaleKind}, token : Nat]
  BY <1>1 DEF FeedTypes
<1>5. feed.next \in Event
  BY <1>3, <1>4 DEF FeedRecord
<1>6. /\ r \in MoreRecord /\ r.run = visit /\ r.issuedFor = FeedKey /\ r.cursor = feed.next
      /\ r.answer = Null
  BY <1>2, <1>4, <1>5 DEF MoreRecord, FeedKey
<1>7. /\ feed' \in FeedRecord /\ feed'.events = feed.events /\ feed'.next = feed.next
      /\ feed'.loading = feed.loading /\ feed'.error = feed.error /\ feed'.appending
  BY <1>3, <1>4 DEF FeedRecord
<1>8. FeedTypes'
  <2>1. mores' \subseteq MoreRecord /\ nMores' \in Nat
    BY <1>1, <1>3, <1>4, <1>6 DEF FeedTypes
  <2>. QED
    BY <1>1, <1>3, <1>7, <2>1 DEF FeedTypes
<1>9. PageOnes'
  BY <1>1, <1>3, <1>7, MatchingStays DEF PageOnes
<1>10. FeedKey' = FeedKey
  BY <1>3 DEF FeedKey
<1>11. Mores'
  <2>1. /\ r.run <= visit' /\ r.run = visit' /\ r.issuedFor = FeedKey'
        /\ ~feed'.loading /\ ~feed'.error /\ r.answer = Null
    BY <1>3, <1>4, <1>6, <1>7, <1>10
  <2>2. ASSUME NEW s \in mores
        PROVE  /\ s.run <= visit'
               /\ s.run = visit' => s.issuedFor = FeedKey' /\ ~feed'.loading /\ ~feed'.error
               /\ s.answer # Null =>
                    /\ Sorted(s.answer.rows)
                    /\ \A e \in Range(s.answer.rows) :
                         e \in Matching(s.issuedFor[1])' /\ Before(s.cursor, e)
                    /\ s.answer.next # Null => UpTo(s.answer.next, s.answer.rows)
                    /\ s.run = visit' => NoGap({e \in basis' : Before(s.cursor, e)},
                                               s.answer.rows, s.answer.next)
    BY <1>1, <1>3, <1>7, <1>10, MatchingStays DEF Mores
  <2>. QED
    BY <1>3, <2>1, <2>2 DEF Mores
<1>12. OneAppend'
  <2>1. ASSUME NEW s \in mores, ~mixed, s.run = visit PROVE FALSE
    BY <1>1, <1>3, <2>1 DEF OneAppend
  <2>. QED
    BY <1>3, <1>6, <1>7, <2>1 DEF OneAppend
<1>13. FeedShown'
  BY <1>1, <1>3, <1>7, MatchingStays DEF FeedShown, Matching
<1>. QED
  BY <1>8, <1>9, <1>11, <1>12, <1>13 DEF FeedInv

LEMMA ServeMoreStep ==
  ASSUME FeedInv, NEW r \in mores, ServeMore(r)
  PROVE  FeedInv'
<1>1. FeedTypes /\ PageOnes /\ Mores /\ OneAppend /\ FeedShown
  BY DEF FeedInv
<1>2. PICK f, page, some, t :
        /\ f = r.issuedFor[1] /\ page = Page(f, r.cursor)
        /\ some = {e \in Matching(f) : Before(r.cursor, e)}
        /\ t = [r EXCEPT !.answer = page]
  OBVIOUS
<1>3. /\ r.answer = Null /\ mores' = (mores \ {r}) \union {t}
      /\ UNCHANGED <<stored, url, visit, feed, pageOne, nMores, tagNames, basis, mixed>>
  BY <1>2 DEF ServeMore
<1>4. r \in MoreRecord /\ stored \subseteq Event /\ r.cursor \in Event /\ r.cursor # Null
  BY <1>1, DatesOrNull DEF FeedTypes, MoreRecord
<1>5. /\ page \in Answer /\ Sorted(page.rows) /\ Range(page.rows) \subseteq some
      /\ NoGap(some, page.rows, page.next)
      /\ page.next # Null => UpTo(page.next, page.rows)
  <2>1. some = {e \in Matching(f) : r.cursor = Null \/ Before(r.cursor, e)}
    BY <1>2, <1>4
  <2>. QED
    BY <1>2, <1>4, <2>1, Pages
<1>6. /\ t \in MoreRecord /\ t.n = r.n /\ t.run = r.run /\ t.issuedFor = r.issuedFor
      /\ t.cursor = r.cursor /\ t.answer = page
  BY <1>2, <1>4, <1>5 DEF MoreRecord
<1>7. FeedTypes'
  <2>1. mores' \subseteq MoreRecord
    BY <1>1, <1>3, <1>6 DEF FeedTypes
  <2>. QED
    BY <1>1, <1>3, <2>1 DEF FeedTypes
<1>8. PageOnes'
  BY <1>1, <1>3, MatchingStays DEF PageOnes
<1>9. FeedKey' = FeedKey
  BY <1>3 DEF FeedKey
<1>10. Mores'
  <2>1. /\ t.run <= visit'
        /\ t.run = visit' => t.issuedFor = FeedKey' /\ ~feed'.loading /\ ~feed'.error
    BY <1>1, <1>3, <1>6, <1>9 DEF Mores
  <2>2. \A e \in Range(page.rows) : e \in Matching(f)' /\ Before(r.cursor, e)
    BY <1>2, <1>3, <1>5, MatchingStays
  <2>3. ASSUME t.run = visit'
        PROVE  NoGap({e \in basis' : Before(t.cursor, e)}, page.rows, page.next)
    <3>1. r.run = visit
      BY <1>3, <1>6, <2>3
    <3>2. r.issuedFor = FeedKey /\ ~feed.loading /\ ~feed.error
      BY <1>1, <3>1 DEF Mores
    <3>3. f = url.filter
      BY <1>2, <3>2 DEF FeedKey
    <3>4. basis \subseteq Matching(f)
      BY <1>1, <3>2, <3>3 DEF FeedShown
    <3>. QED
      BY <1>2, <1>3, <1>5, <1>6, <3>4 DEF NoGap
  <2>4. ASSUME NEW s \in mores
        PROVE  /\ s.run <= visit'
               /\ s.run = visit' => s.issuedFor = FeedKey' /\ ~feed'.loading /\ ~feed'.error
               /\ s.answer # Null =>
                    /\ Sorted(s.answer.rows)
                    /\ \A e \in Range(s.answer.rows) :
                         e \in Matching(s.issuedFor[1])' /\ Before(s.cursor, e)
                    /\ s.answer.next # Null => UpTo(s.answer.next, s.answer.rows)
                    /\ s.run = visit' => NoGap({e \in basis' : Before(s.cursor, e)},
                                               s.answer.rows, s.answer.next)
    BY <1>1, <1>3, <1>9, MatchingStays DEF Mores
  <2>5. /\ Sorted(t.answer.rows)
        /\ \A e \in Range(t.answer.rows) :
             e \in Matching(t.issuedFor[1])' /\ Before(t.cursor, e)
        /\ t.answer.next # Null => UpTo(t.answer.next, t.answer.rows)
        /\ t.run = visit' => NoGap({e \in basis' : Before(t.cursor, e)},
                                   t.answer.rows, t.answer.next)
    BY <1>2, <1>5, <1>6, <2>2, <2>3
  <2>. QED
    BY <1>3, <2>1, <2>4, <2>5 DEF Mores
<1>11. OneAppend'
  <2>1. ASSUME NEW s \in mores', ~mixed, s.run = visit
        PROVE  feed.appending /\ s.cursor = feed.next /\ (s = t \/ r.run # visit)
    BY <1>1, <1>3, <1>6, <2>1 DEF OneAppend
  <2>2. ASSUME NEW s \in mores', NEW u \in mores', ~mixed, s.run = visit, u.run = visit
        PROVE  s = u
    BY <1>1, <1>3, <1>6, <2>2 DEF OneAppend
  <2>. QED
    BY <1>3, <2>1, <2>2 DEF OneAppend
<1>12. FeedShown'
  BY <1>1, <1>3, MatchingStays DEF FeedShown, Matching
<1>. QED
  BY <1>7, <1>8, <1>10, <1>11, <1>12 DEF FeedInv

\* Answered or failed, a Load more is gone; the others stay as they were.
LEMMA MoreGone ==
  ASSUME FeedInv, NEW r \in mores, mores' = mores \ {r},
         UNCHANGED <<stored, url, visit, pageOne, basis>>,
         feed'.loading = feed.loading, feed'.error = feed.error
  PROVE  PageOnes' /\ Mores'
<1>1. PageOnes /\ Mores
  BY DEF FeedInv
<1>2. FeedKey' = FeedKey
  BY DEF FeedKey
<1>3. PageOnes'
  BY <1>1, MatchingStays DEF PageOnes
<1>4. Mores'
  BY <1>1, <1>2, MatchingStays DEF Mores
<1>. QED
  BY <1>3, <1>4

LEMMA MoreAnsweredStep ==
  ASSUME FeedInv, NEW r \in mores, MoreAnswered(r)
  PROVE  FeedInv'
<1>1. FeedTypes /\ PageOnes /\ Mores /\ OneAppend /\ FeedShown
  BY DEF FeedInv
<1>2. PICK page, events : page = r.answer /\ events = Append2(feed.events, page.rows)
  OBVIOUS
<1>3. /\ page # Null /\ mores' = mores \ {r}
      /\ UNCHANGED <<stored, url, visit, pageOne, nMores, tagNames, basis>>
      /\ r.issuedFor # FeedKey => UNCHANGED <<feed, mixed>>
      /\ r.issuedFor = FeedKey =>
           /\ feed' = [feed EXCEPT !.events = events, !.next = page.next, !.appending = FALSE]
           /\ mixed' = (mixed \/ r.run # visit)
  BY <1>2 DEF MoreAnswered
<1>4. /\ feed \in FeedRecord /\ page \in Answer /\ r \in MoreRecord /\ mixed \in BOOLEAN
  BY <1>1, <1>2, <1>3 DEF FeedTypes, MoreRecord
<1>5. events \in Seq(Event)
  <2>1. feed.events \in Seq(Event) /\ page.rows \in Seq(Event)
    BY <1>4 DEF FeedRecord, Answer
  <2>. QED
    BY <1>2, <2>1, AppendedType
<1>6. CASE r.issuedFor # FeedKey
  <2>1. FeedTypes'
    BY <1>1, <1>3, <1>6 DEF FeedTypes
  <2>2. PageOnes' /\ Mores'
    BY <1>3, <1>6, MoreGone
  <2>3. OneAppend' /\ FeedShown'
    BY <1>1, <1>3, <1>6, MatchingStays DEF OneAppend, FeedShown, Matching
  <2>. QED
    BY <2>1, <2>2, <2>3 DEF FeedInv
<1>7. CASE r.issuedFor = FeedKey
  <2>1. /\ feed' = [feed EXCEPT !.events = events, !.next = page.next, !.appending = FALSE]
        /\ mixed' = (mixed \/ r.run # visit)
    BY <1>3, <1>7
  <2>2. /\ feed' \in FeedRecord /\ feed'.events = events /\ feed'.next = page.next
        /\ feed'.loading = feed.loading /\ feed'.error = feed.error
    BY <1>4, <1>5, <2>1 DEF FeedRecord, Answer
  <2>3. FeedTypes'
    <3>1. mixed' \in BOOLEAN
      BY <2>1
    <3>. QED
      BY <1>1, <1>3, <2>2, <3>1 DEF FeedTypes
  <2>4. PageOnes' /\ Mores'
    BY <1>3, <2>2, MoreGone
  <2>5. mixed' = FALSE => ~mixed /\ r.run = visit
    BY <2>1
  <2>6. OneAppend'
    <3>1. ASSUME NEW s \in mores', ~mixed', s.run = visit' PROVE FALSE
      <4>1. ~mixed /\ r.run = visit /\ s \in mores /\ s # r /\ s.run = visit
        BY <1>3, <2>1, <3>1
      <4>. QED
        BY <1>1, <4>1 DEF OneAppend
    <3>. QED
      BY <3>1 DEF OneAppend
  <2>7. Matching(url.filter)' = Matching(url.filter)
    BY <1>3 DEF Matching
  <2>8. ASSUME ~mixed'
        PROVE  /\ Sorted(events) /\ Range(events) \subseteq Matching(url.filter)
               /\ page.next # Null => UpTo(page.next, events)
               /\ ~feed.loading /\ ~feed.error => NoGap(basis, events, page.next)
    <3>1. ~mixed /\ r.run = visit
      BY <2>1, <2>8
    <3>2. PICK prev, rows, cursor :
            prev = feed.events /\ rows = page.rows /\ cursor = feed.next
      OBVIOUS
    <3>3. r.cursor = cursor /\ cursor \in Event /\ cursor # Null
      BY <1>1, <1>4, <3>1, <3>2, DatesOrNull DEF OneAppend, MoreRecord
    <3>4. /\ Sorted(rows) /\ \A e \in Range(rows) : e \in Matching(url.filter) /\ Before(cursor, e)
          /\ page.next # Null => UpTo(page.next, rows)
          /\ NoGap({e \in basis : Before(cursor, e)}, rows, page.next)
      <4>1. r.issuedFor[1] = url.filter
        BY <1>7 DEF FeedKey
      <4>2. /\ Sorted(page.rows)
            /\ \A e \in Range(page.rows) : e \in Matching(r.issuedFor[1]) /\ Before(r.cursor, e)
            /\ page.next # Null => UpTo(page.next, page.rows)
            /\ NoGap({e \in basis : Before(r.cursor, e)}, page.rows, page.next)
        BY <1>1, <1>2, <1>3, <3>1 DEF Mores
      <4>. QED
        BY <3>2, <3>3, <4>1, <4>2
    <3>5. /\ Sorted(prev) /\ Range(prev) \subseteq Matching(url.filter) /\ UpTo(cursor, prev)
          /\ ~feed.loading /\ ~feed.error => NoGap(basis, prev, cursor)
      BY <1>1, <3>1, <3>2, <3>3 DEF FeedShown
    <3>6. /\ prev \in Seq(Event) /\ rows \in Seq(Event) /\ basis \subseteq Event
          /\ Range(rows) \subseteq Event /\ Range(prev) \subseteq Event
      <4>1. prev \in Seq(Event) /\ rows \in Seq(Event) /\ basis \subseteq Event
        BY <1>1, <1>4, <3>2 DEF FeedRecord, Answer, FeedTypes
      <4>. QED
        BY <4>1 DEF Range
    <3>7. \A d \in Range(prev), e \in Range(rows) : Before(d, e)
      BY <3>3, <3>4, <3>5, <3>6, BeforeIsAnOrder DEF UpTo
    <3>8. Sorted(events) /\ Range(events) = Range(prev) \union Range(rows)
      BY <1>2, <3>2, <3>4, <3>5, <3>6, <3>7, AppendedAfter
    <3>9. Range(events) \subseteq Matching(url.filter)
      BY <3>4, <3>5, <3>8
    <3>10. ASSUME page.next # Null PROVE UpTo(page.next, events)
      BY <3>4, <3>7, <3>8, <3>10 DEF UpTo
    <3>11. ASSUME ~feed.loading, ~feed.error PROVE NoGap(basis, events, page.next)
      <4>1. ASSUME NEW e \in basis \ Range(events) PROVE page.next # Null /\ Before(page.next, e)
        <5>1. Before(cursor, e) /\ e \notin Range(rows)
          BY <3>5, <3>8, <3>11, <4>1 DEF NoGap
        <5>. QED
          BY <3>4, <4>1, <5>1 DEF NoGap
      <4>. QED
        BY <4>1 DEF NoGap
    <3>. QED
      BY <3>8, <3>9, <3>10, <3>11
  <2>9. FeedShown'
    BY <1>1, <1>3, <2>2, <2>7, <2>8 DEF FeedShown
  <2>. QED
    BY <2>3, <2>4, <2>6, <2>9 DEF FeedInv
<1>. QED
  BY <1>6, <1>7

LEMMA MoreFailedStep ==
  ASSUME FeedInv, NEW r \in mores, MoreFailed(r)
  PROVE  FeedInv'
<1>1. FeedTypes /\ PageOnes /\ Mores /\ OneAppend /\ FeedShown
  BY DEF FeedInv
<1>2. /\ mores' = mores \ {r}
      /\ UNCHANGED <<stored, url, visit, pageOne, nMores, tagNames, basis>>
      /\ r.issuedFor # FeedKey => UNCHANGED feed
      /\ r.issuedFor = FeedKey => feed' = [feed EXCEPT !.appendError = TRUE, !.appending = FALSE]
      /\ mixed' = (mixed \/ (r.issuedFor = FeedKey /\ r.run # visit))
  BY DEF MoreFailed
<1>3. feed \in FeedRecord /\ mixed' \in BOOLEAN
  BY <1>1, <1>2 DEF FeedTypes
<1>4. /\ feed' \in FeedRecord /\ feed'.events = feed.events /\ feed'.next = feed.next
      /\ feed'.loading = feed.loading /\ feed'.error = feed.error
      /\ r.issuedFor # FeedKey => feed'.appending = feed.appending
  BY <1>2, <1>3 DEF FeedRecord
<1>5. FeedTypes'
  BY <1>1, <1>2, <1>3, <1>4 DEF FeedTypes
<1>6. PageOnes' /\ Mores'
  BY <1>2, <1>4, MoreGone
<1>7. OneAppend'
  <2>1. ASSUME NEW s \in mores', ~mixed', s.run = visit'
        PROVE  feed'.appending /\ s.cursor = feed'.next /\ \A u \in mores' : u.run = visit' => s = u
    <3>1. ~mixed /\ s \in mores /\ s # r /\ s.run = visit
      BY <1>2, <2>1
    <3>2. feed.appending /\ s.cursor = feed.next /\ \A u \in mores : u.run = visit => s = u
      BY <1>1, <3>1 DEF OneAppend
    <3>3. r.run # visit /\ r.issuedFor # FeedKey
      BY <1>2, <2>1, <3>1, <3>2
    <3>. QED
      BY <1>2, <1>4, <3>2, <3>3
  <2>. QED
    BY <2>1 DEF OneAppend
<1>8. FeedShown'
  <2>1. mixed' = FALSE => ~mixed
    BY <1>2
  <2>2. Matching(url.filter)' = Matching(url.filter)
    BY <1>2 DEF Matching
  <2>. QED
    BY <1>1, <1>2, <1>3, <1>4, <2>1, <2>2 DEF FeedShown
<1>. QED
  BY <1>5, <1>6, <1>7, <1>8 DEF FeedInv

LEMMA FeedStep == FeedInv /\ [FeedNext]_feedVars => FeedInv'
<1>. SUFFICES ASSUME FeedInv, [FeedNext]_feedVars PROVE FeedInv'
  OBVIOUS
<1>1. FeedTypes
  BY DEF FeedInv
<1>2. /\ stored \subseteq Event /\ tagNames \in {"loading", "loaded", "error"}
      /\ url.filter \in Kinds /\ url.token \in Nat /\ Null \in Kinds
  BY <1>1 DEF FeedTypes, Kinds, Filters
<1>3. ASSUME NEW e \in Event, InsertEvent(e) PROVE FeedInv'
  BY <1>2, <1>3, StoredStep DEF InsertEvent
<1>4. ASSUME NEW f \in Filters, SetFilter(f) PROVE FeedInv'
  <2>1. f \in Kinds
    BY DEF Kinds
  <2>. QED
    BY <1>2, <1>4, <2>1, VisitStep DEF SetFilter
<1>5. CASE FeedRetry
  <2>1. url.token + 1 \in Nat
    BY <1>2
  <2>. QED
    BY <1>2, <1>5, <2>1, VisitStep DEF FeedRetry
<1>6. CASE TagsLoaded
  <2>1. CASE url.filter = StaleKind /\ Visit(Null, url.token) /\ mixed' = FALSE
    BY <1>2, <1>6, <2>1, VisitStep DEF TagsLoaded
  <2>2. CASE UNCHANGED <<stored, url, visit, feed, pageOne, mores, nMores, basis, mixed>>
    BY <1>2, <1>6, <2>2, StoredStep DEF TagsLoaded
  <2>. QED
    BY <1>6, <2>1, <2>2 DEF TagsLoaded
<1>7. CASE TagsFailed
  BY <1>2, <1>7, StoredStep DEF TagsFailed
<1>8. CASE UNCHANGED feedVars
  BY <1>2, <1>8, StoredStep DEF feedVars
<1>. QED
  BY <1>3, <1>4, <1>5, <1>6, <1>7, <1>8, LoadMoreStep, ServePageOneStep, PageOneAnsweredStep,
     PageOneFailedStep, ServeMoreStep, MoreAnsweredStep, MoreFailedStep DEF FeedNext

(* The release feed shows the events of its filter in the order of the table, *)
(* none twice and none left out, for every table of events, every page size   *)
(* and any number of filters tried, pages loaded and events inserted between. *)
THEOREM FeedShowsTheEvents == FeedSpec => []FeedIsFaithful
<1>1. FeedInv => FeedIsFaithful
  <2>. SUFFICES ASSUME FeedInv, ~mixed PROVE
         /\ \A i, j \in DOMAIN feed.events : i < j => Before(feed.events[i], feed.events[j])
         /\ Range(feed.events) \subseteq Matching(url.filter)
         /\ ~feed.loading /\ ~feed.error =>
              \A e \in basis \ Range(feed.events) :
                feed.next # Null /\ AfterCursor(feed.next, e)
    BY DEF FeedIsFaithful
  <2>1. FeedTypes /\ FeedShown
    BY DEF FeedInv
  <2>2. /\ Sorted(feed.events) /\ Range(feed.events) \subseteq Matching(url.filter)
        /\ ~feed.loading /\ ~feed.error => NoGap(basis, feed.events, feed.next)
    BY <2>1 DEF FeedShown
  <2>3. ASSUME ~feed.loading, ~feed.error, NEW e \in basis \ Range(feed.events)
        PROVE  feed.next # Null /\ AfterCursor(feed.next, e)
    <3>1. feed.next # Null /\ Before(feed.next, e)
      BY <2>2, <2>3 DEF NoGap
    <3>2. feed.next \in Event /\ e \in Event
      BY <2>1, <3>1 DEF FeedTypes, FeedRecord
    <3>. QED
      BY <3>1, <3>2, CursorIsTheOrder
  <2>. QED
    BY <2>2, <2>3 DEF Sorted
<1>. QED
  BY <1>1, FeedInitInv, FeedStep, PTL DEF FeedSpec
-----------------------------------------------------------------------------
(* What the tag vocabulary guarantees for any tags and names, any number of  *)
(* requests in flight, and any number of generations.                        *)

Status == {"idle", "loading", "loaded", "error"}

Hook == [vocabulary : Vocabulary \union {Null}, status : Status, gen : Nat,
         inFlight : BOOLEAN]

Get == [gen : Nat, answer : Vocabulary \union {Null}]

Dialog == [open : BOOLEAN, renaming : TagOrNull, renamePending : BOOLEAN,
           collision : [source : TagOrNull, target : TagOrNull] \union {Null},
           merging : BOOLEAN,
           deleting : TagOrNull, deletePending : BOOLEAN]

-----------------------------------------------------------------------------
(* Maps.                                                                     *)

LEMMA NullIsApart == \A v \in Vocabulary : v # Null
  BY VocabAssumption DEF Vocabulary

LEMMA VocabularyIs ==
  ASSUME NEW v \in Vocabulary
  PROVE  /\ DOMAIN v \in SUBSET Tag
         /\ v = [t \in DOMAIN v |-> v[t]]
         /\ \A t \in DOMAIN v : v[t] \in Name
  BY DEF Vocabulary, PartialFcns

LEMMA VocabularyHas ==
  ASSUME NEW S \in SUBSET Tag, NEW v \in [S -> Name]
  PROVE  v \in Vocabulary
  BY DEF Vocabulary, PartialFcns

LEMMA Renaming ==
  ASSUME NEW v \in Vocabulary, NEW id, NEW name \in Name
  PROVE  /\ ApplyRenamed(v, id, name) \in Vocabulary
         /\ DOMAIN ApplyRenamed(v, id, name) = DOMAIN v
         /\ \A t \in DOMAIN v :
              ApplyRenamed(v, id, name)[t] = IF t = id THEN name ELSE v[t]
<1>1. v \in [DOMAIN v -> Name] /\ DOMAIN v \in SUBSET Tag
  BY VocabularyIs
<1>2. ApplyRenamed(v, id, name) \in [DOMAIN v -> Name]
  BY <1>1 DEF ApplyRenamed
<1>3. \A t \in DOMAIN v : ApplyRenamed(v, id, name)[t] = IF t = id THEN name ELSE v[t]
  BY <1>1 DEF ApplyRenamed
<1>. QED
  BY <1>1, <1>2, <1>3, VocabularyHas

LEMMA Deleting ==
  ASSUME NEW v \in Vocabulary, NEW id
  PROVE  /\ ApplyDeleted(v, id) \in Vocabulary
         /\ DOMAIN ApplyDeleted(v, id) = DOMAIN v \ {id}
         /\ \A t \in DOMAIN v \ {id} : ApplyDeleted(v, id)[t] = v[t]
<1>1. v \in [DOMAIN v -> Name] /\ DOMAIN v \in SUBSET Tag
  BY VocabularyIs
<1>2. ApplyDeleted(v, id) = [t \in DOMAIN v \ {id} |-> v[t]]
  BY DEF ApplyDeleted, Without, Restrict
<1>3. ApplyDeleted(v, id) \in [DOMAIN v \ {id} -> Name] /\ DOMAIN v \ {id} \in SUBSET Tag
  BY <1>1, <1>2
<1>4. ApplyDeleted(v, id) \in Vocabulary
  BY <1>3, VocabularyHas
<1>. QED
  BY <1>2, <1>4

LEMMA Adding ==
  ASSUME NEW v \in Vocabulary, NEW id \in Tag, NEW name \in Name
  PROVE  With(v, id, name) \in Vocabulary /\ DOMAIN With(v, id, name) = DOMAIN v \union {id}
<1>1. v \in [DOMAIN v -> Name] /\ DOMAIN v \in SUBSET Tag
  BY VocabularyIs
<1>2. With(v, id, name) \in [DOMAIN v \union {id} -> Name]
  BY <1>1 DEF With
<1>3. DOMAIN v \union {id} \in SUBSET Tag
  BY <1>1
<1>4. With(v, id, name) \in Vocabulary
  BY <1>2, <1>3, VocabularyHas
<1>. QED
  BY <1>4 DEF With

-----------------------------------------------------------------------------
(* The provider and its requests, whatever the operation.                    *)

\* A get of the current generation is under way exactly while loading; no
\* generation is used twice.
Coherent(h, g) ==
  /\ h \in Hook /\ g \in SUBSET Get
  /\ h.status = "loading" <=> h.inFlight
  /\ h.inFlight <=> \E r \in g : r.gen = h.gen
  /\ \A r \in g : r.gen <= h.gen
  /\ \A r1, r2 \in g : r1.gen = r2.gen => r1 = r2
  /\ h.status = "loaded" => h.vocabulary # Null

\* No answer of an earlier request can be applied any more.
Superseded(h, g) == \A r \in g : r.gen = h.gen => r.answer = Null

LEMMA FetchSound ==
  ASSUME NEW h, NEW g, h \in Hook, g \in SUBSET Get,
         \A r \in g : r.gen <= h.gen, \A r1, r2 \in g : r1.gen = r2.gen => r1 = r2
  PROVE  LET p == Fetch(h, g)
         IN  /\ Coherent(p[1], p[2]) /\ Superseded(p[1], p[2])
             /\ p[1].status = "loading" /\ p[1].vocabulary = h.vocabulary
<1>. DEFINE h2 == [h EXCEPT !.gen = @ + 1, !.inFlight = TRUE, !.status = "loading"]
            r  == [gen |-> h.gen + 1, answer |-> Null]
<1>1. /\ h2 \in Hook /\ h2.gen = h.gen + 1 /\ h2.inFlight /\ h2.status = "loading"
      /\ h2.vocabulary = h.vocabulary /\ h.gen \in Nat
  <2>1. h.gen \in Nat /\ h.gen + 1 \in Nat /\ "loading" \in Status
    BY DEF Hook, Status
  <2>2. h2 \in Hook
    BY <2>1 DEF Hook
  <2>. QED
    BY <2>1, <2>2 DEF Hook
<1>2. r \in Get /\ r.gen = h.gen + 1 /\ r.answer = Null
  BY <1>1 DEF Get
<1>3. \A q \in g : q.gen \in Nat /\ q.gen <= h.gen
  BY DEF Get
<1>4. Fetch(h, g)[1] = h2 /\ Fetch(h, g)[2] = g \union {r}
  BY DEF Fetch
<1>. HIDE DEF h2, r
<1>5. \A q \in g : q.gen < h2.gen
  BY <1>1, <1>3
<1>6. g \union {r} \in SUBSET Get
  BY <1>2
<1>7. \A q \in g \union {r} : q.gen <= h2.gen
  BY <1>1, <1>2, <1>5, <1>3
<1>8. \A q1, q2 \in g \union {r} : q1.gen = q2.gen => q1 = q2
  BY <1>1, <1>2, <1>5, <1>3
<1>9. \A q \in g \union {r} : q.gen = h2.gen => q = r
  BY <1>1, <1>2, <1>5, <1>3
<1>10. Coherent(h2, g \union {r})
  BY <1>1, <1>2, <1>6, <1>7, <1>8, <1>9 DEF Coherent
<1>11. Superseded(h2, g \union {r})
  BY <1>2, <1>9 DEF Superseded
<1>. QED
  BY <1>1, <1>4, <1>10, <1>11

LEMMA SupersedeSound ==
  ASSUME NEW h, NEW g, Coherent(h, g)
  PROVE  LET p == Supersede(h, g)
         IN  /\ Coherent(p[1], p[2]) /\ Superseded(p[1], p[2])
             /\ p[1].status = "loaded" => h.status = "loaded"
             /\ p[1].vocabulary = h.vocabulary
<1>. DEFINE b == [h EXCEPT !.gen = @ + 1]
<1>1. /\ b \in Hook /\ b.gen = h.gen + 1 /\ b.inFlight = h.inFlight /\ b.status = h.status
      /\ b.vocabulary = h.vocabulary /\ h.gen \in Nat /\ h.inFlight \in BOOLEAN
  BY DEF Coherent, Hook, Status
<1>2. Supersede(h, g) = IF h.inFlight THEN Fetch(b, g) ELSE <<b, g>>
  BY DEF Supersede
<1>. HIDE DEF b
<1>3. \A r \in g : r.gen < b.gen /\ r.gen <= b.gen
  BY <1>1 DEF Coherent, Get
<1>4. CASE h.inFlight
  BY <1>1, <1>2, <1>3, <1>4, FetchSound DEF Coherent
<1>5. CASE ~h.inFlight
  <2>1. \A r \in g : r.gen # b.gen
    BY <1>1, <1>3 DEF Coherent, Get
  <2>2. Coherent(b, g)
    BY <1>1, <1>3, <1>5, <2>1 DEF Coherent
  <2>3. Superseded(b, g)
    BY <2>1 DEF Superseded
  <2>. QED
    BY <1>1, <1>2, <1>5, <2>2, <2>3
<1>. QED
  BY <1>1, <1>4, <1>5

LEMMA ApplyLocalSound ==
  ASSUME NEW h, NEW g, Coherent(h, g), NEW changed,
         h.vocabulary # Null => changed \in Vocabulary
  PROVE  LET p == ApplyLocal(h, g, changed)
         IN  /\ Coherent(p[1], p[2]) /\ Superseded(p[1], p[2])
             /\ p[1].status = "loaded" => h.status = "loaded"
             /\ p[1].vocabulary = IF h.vocabulary = Null THEN Null ELSE changed
<1>. DEFINE h2 == IF h.vocabulary = Null THEN h ELSE [h EXCEPT !.vocabulary = changed]
<1>1. /\ h2 \in Hook /\ h2.gen = h.gen /\ h2.inFlight = h.inFlight /\ h2.status = h.status
      /\ h2.vocabulary = IF h.vocabulary = Null THEN Null ELSE changed
  BY DEF Coherent, Hook
<1>2. ApplyLocal(h, g, changed) = Supersede(h2, g)
  BY DEF ApplyLocal
<1>. HIDE DEF h2
<1>3. h2.status = "loaded" => h2.vocabulary # Null
  BY <1>1, NullIsApart DEF Coherent
<1>4. Coherent(h2, g)
  BY <1>1, <1>3 DEF Coherent
<1>. QED
  BY <1>1, <1>2, <1>4, SupersedeSound

LEMMA RememberSound ==
  ASSUME NEW h, NEW g, Coherent(h, g), NEW id \in Tag, NEW name \in Name
  PROVE  LET p == Remember(h, g, id, name)
         IN  /\ Coherent(p[1], p[2])
             /\ p[1].status = "loaded" => h.status = "loaded"
             /\ \/ /\ Superseded(p[1], p[2])
                   /\ p[1].vocabulary = Null \/
                        (/\ h.vocabulary # Null /\ id \notin DOMAIN h.vocabulary
                         /\ p[1].vocabulary = With(h.vocabulary, id, name))
                \/ /\ p = <<h, g>>
                   /\ h.vocabulary # Null => id \in DOMAIN h.vocabulary
                   /\ h.vocabulary = Null => Superseded(h, g)
<1>1. CASE h.vocabulary = Null /\ h.inFlight
  BY <1>1, SupersedeSound DEF Remember
<1>2. CASE h.vocabulary = Null /\ ~h.inFlight
  BY <1>2 DEF Remember, Coherent, Superseded
<1>3. CASE h.vocabulary # Null /\ id \in DOMAIN h.vocabulary
  BY <1>3 DEF Remember
<1>4. CASE h.vocabulary # Null /\ id \notin DOMAIN h.vocabulary
  <2>. DEFINE h2 == [h EXCEPT !.vocabulary = With(@, id, name)]
  <2>1. With(h.vocabulary, id, name) \in Vocabulary
    BY <1>4, Adding DEF Coherent, Hook
  <2>2. /\ h2 \in Hook /\ h2.gen = h.gen /\ h2.inFlight = h.inFlight
        /\ h2.status = h.status /\ h2.vocabulary = With(h.vocabulary, id, name)
    BY <2>1 DEF Coherent, Hook
  <2>3. Remember(h, g, id, name) = Supersede(h2, g)
    BY <1>4 DEF Remember
  <2>. HIDE DEF h2
  <2>4. Coherent(h2, g)
    BY <2>1, <2>2, NullIsApart DEF Coherent
  <2>. QED
    BY <1>4, <2>2, <2>3, <2>4, SupersedeSound
<1>. QED
  BY <1>1, <1>2, <1>3, <1>4

-----------------------------------------------------------------------------
(* The inductive invariant.                                                  *)

Provider == Coherent(hook, gets)

\* What the provider and the answers know of was given out by the sequence.
TagsStored ==
  /\ tags \in Vocabulary /\ used \in SUBSET Tag /\ DOMAIN tags \subseteq used
  /\ writes \in SUBSET Write /\ nWrites \in Nat
  /\ hook.vocabulary # Null => DOMAIN hook.vocabulary \subseteq used
  /\ \A r \in gets : r.answer # Null => DOMAIN r.answer \subseteq used

\* The dialog lets one rename and one merge be under way, and not both.
OneAtATime ==
  /\ dialog \in Dialog
  /\ \A w \in writes : /\ w.op = "rename" => dialog.renamePending
                       /\ w.op = "merge" => dialog.merging
  /\ \A w1, w2 \in writes : w1.op = w2.op /\ w1.op \in {"rename", "merge"} => w1 = w2
  /\ dialog.renamePending => dialog.collision = Null
  /\ dialog.merging => dialog.collision # Null

\* What the server said of a write is so until the answer arrives, or the tag
\* is gone.
Fact(w) ==
  /\ w.op \in {"rename", "attach"} => w.name \in Name
  /\ w.reply = "done" =>
       /\ w.op = "rename" =>
            w.id \in used /\ (w.id \in DOMAIN tags => tags[w.id] = w.name)
       /\ w.op \in {"delete", "merge"} => w.id \in used \ DOMAIN tags
       /\ w.op = "merge" =>
            /\ w.name \in Name /\ w.target \in used
            /\ w.target \in DOMAIN tags => tags[w.target] = w.name
       /\ w.op = "attach" => w.target \in used

Facts == \A w \in writes : Fact(w)

\* Why v may disagree with the table about t: the provider was not told, or
\* the answer that tells it is on its way.
Explained(v, t) ==
  \/ t \in unheard \/ Agree(v, t)
  \/ \E w \in writes :
       /\ w.reply = "done"
       /\ \/ /\ w.op \in {"delete", "merge"} /\ w.id = t
             /\ t \in DOMAIN v /\ t \notin DOMAIN tags
          \/ /\ w.op = "attach" /\ w.target = t
             /\ t \in DOMAIN tags /\ t \notin DOMAIN v
          \/ /\ w.op = "rename" /\ w.id = t
             /\ t \in DOMAIN v /\ t \in DOMAIN tags

\* What an answer that may still be applied lacks, the provider lacks too.
NotAhead(v, t) ==
  t \in DOMAIN tags /\ t \notin DOMAIN v /\ t \notin unheard /\ hook.vocabulary # Null =>
    t \notin DOMAIN hook.vocabulary

Books ==
  /\ \A v \in Vocabulary : v = hook.vocabulary /\ hook.status = "loaded" =>
       \A t \in Tag : Explained(v, t)
  /\ \A r \in gets, v \in Vocabulary : v = r.answer /\ r.gen = hook.gen =>
       \A t \in Tag : Explained(v, t) /\ NotAhead(v, t)

VocabInv == Provider /\ TagsStored /\ OneAtATime /\ Facts /\ Books

LEMMA VocabInitInv == VocabInit => VocabInv
<1>. SUFFICES ASSUME VocabInit PROVE VocabInv
  OBVIOUS
<1>1. Provider
  BY DEF VocabInit, Provider, Coherent, Hook, Status
<1>2. tags \in Vocabulary /\ DOMAIN tags \in SUBSET Tag
  BY VocabAssumption, VocabularyIs DEF VocabInit, Vocabulary
<1>3. TagsStored
  BY <1>2 DEF VocabInit, TagsStored
<1>4. OneAtATime
  BY DEF VocabInit, OneAtATime, Dialog, TagOrNull
<1>5. Facts
  BY DEF VocabInit, Facts
<1>6. Books
  BY DEF VocabInit, Books
<1>. QED
  BY <1>1, <1>3, <1>4, <1>5, <1>6 DEF VocabInv

-----------------------------------------------------------------------------
(* The kinds of step.                                                        *)

\* The user asks for something, or turns a leaf of the dialog.
Asks ==
  /\ UNCHANGED <<tags, used, hook, gets, unheard>>
  /\ nWrites' \in Nat
  /\ \/ writes' = writes
     \/ \E w \in Write :
          /\ w.reply = "none" /\ (w.op \in {"rename", "attach"} => w.name \in Name)
          /\ writes' = writes \union {w}

Refetches ==
  /\ UNCHANGED <<tags, used, writes, nWrites, unheard>>
  /\ Becomes(Fetch(hook, gets)) \/ UNCHANGED <<hook, gets>>

LEMMA UserKinds == TagsStored /\ OneAtATime /\ UserStep => Asks \/ Refetches
<1>. SUFFICES ASSUME TagsStored, OneAtATime, UserStep PROVE Asks \/ Refetches
  OBVIOUS
<1>0. nWrites \in Nat /\ dialog \in Dialog
  BY DEF TagsStored, OneAtATime
<1>1. ASSUME NEW op \in {"rename", "merge", "delete", "attach"}, NEW id \in TagOrNull,
             NEW name \in NameOrNull, NEW target \in TagOrNull,
             op \in {"rename", "attach"} => name \in Name,
             Send(op, id, name, target), UNCHANGED <<tags, used, hook, gets, unheard>>
      PROVE  Asks
  <2>. DEFINE w == [n |-> nWrites + 1, op |-> op, id |-> id, name |-> name,
                    target |-> target, reply |-> "none"]
  <2>1. w \in Write /\ w.reply = "none" /\ (w.op \in {"rename", "attach"} => w.name \in Name)
    BY <1>0, <1>1 DEF Write
  <2>2. writes' = writes \union {w} /\ nWrites' \in Nat
    BY <1>0, <1>1 DEF Send
  <2>. HIDE DEF w
  <2>. QED
    BY <1>1, <2>1, <2>2 DEF Asks
<1>2. CASE OpenDialog \/ RetryLoad \/ OpenChipEditor
  BY <1>2 DEF OpenDialog, RetryLoad, OpenChipEditor, Refetches, EnsureLoaded, Becomes
<1>3. CASE CloseDialog \/ CancelRename \/ CancelConfirm
           \/ (\E t \in Tag : StartRename(t) \/ AskDelete(t))
  BY <1>0, <1>3 DEF CloseDialog, CancelRename, CancelConfirm, StartRename, AskDelete, Asks
<1>4. CASE ConfirmMerge
  <2>1. dialog.collision.source \in TagOrNull /\ dialog.collision.target \in TagOrNull
    BY <1>0, <1>4 DEF ConfirmMerge, Dialog
  <2>. QED
    BY <1>1, <1>4, <2>1 DEF ConfirmMerge, NameOrNull
<1>5. CASE ConfirmDelete
  <2>1. dialog.deleting \in TagOrNull
    BY <1>0 DEF Dialog
  <2>. QED
    BY <1>1, <1>5, <2>1 DEF ConfirmDelete, NameOrNull, TagOrNull
<1>6. ASSUME NEW n \in Name, SaveRename(n) PROVE Asks
  <2>1. dialog.renaming \in TagOrNull
    BY <1>0 DEF Dialog
  <2>. QED
    BY <1>1, <1>6, <2>1 DEF SaveRename, NameOrNull, TagOrNull
<1>7. ASSUME NEW n \in Name, CommitChip(n) PROVE Asks
  BY <1>1, <1>7 DEF CommitChip, NameOrNull, TagOrNull
<1>. QED
  BY <1>2, <1>3, <1>4, <1>5, <1>6, <1>7 DEF UserStep

\* The server's reply d to w and what it does to the table.
ServerStep(w) == ServeRename(w) \/ ServeMerge(w) \/ ServeDelete(w) \/ ServeAttach(w)

Serves(w, d) ==
  /\ w.reply = "none" /\ d \in Write /\ d.op = w.op /\ d.id = w.id
  /\ writes' = (writes \ {w}) \union {d}
  /\ UNCHANGED <<hook, gets, nWrites, dialog, unheard>>
  /\ \/ /\ d.reply # "done" /\ d.name = w.name
        /\ UNCHANGED <<tags, used>>
     \/ /\ d.reply = "done" /\ d.op = "rename" /\ d.name = w.name /\ w.id \in DOMAIN tags
        /\ tags' = ApplyRenamed(tags, w.id, w.name) /\ UNCHANGED used
     \/ /\ d.reply = "done" /\ d.op \in {"delete", "merge"} /\ w.id \in DOMAIN tags
        /\ d.op = "merge" => d.target \in DOMAIN tags /\ d.name = tags[d.target]
        /\ tags' = ApplyDeleted(tags, w.id) /\ UNCHANGED used
     \/ /\ d.reply = "done" /\ d.op = "attach" /\ d.name = w.name /\ d.target \in DOMAIN tags
        /\ UNCHANGED <<tags, used>>
     \/ /\ d.reply = "done" /\ d.op = "attach" /\ d.name = w.name
        /\ d.target \in Tag \ used
        /\ tags' = With(tags, d.target, w.name) /\ used' = used \union {d.target}

LEMMA ServerKinds ==
  ASSUME TagsStored, NEW w \in writes, ServerStep(w)
  PROVE  \E d : Serves(w, d)
<1>0. w \in Write /\ tags \in Vocabulary /\ used \in SUBSET Tag
  BY DEF TagsStored
<1>1. /\ DOMAIN tags \in SUBSET Tag /\ \A t \in DOMAIN tags : tags[t] \in Name
  BY <1>0, VocabularyIs
<1>2. ASSUME NEW reply \in {"none", "done", "collision", "refused"},
             NEW target \in TagOrNull, NEW name \in NameOrNull
      PROVE  /\ [w EXCEPT !.reply = reply] \in Write
             /\ [w EXCEPT !.reply = reply, !.target = target] \in Write
             /\ [w EXCEPT !.reply = reply, !.name = name] \in Write
  BY <1>0 DEF Write
<1>3. /\ \A reply : LET d == [w EXCEPT !.reply = reply]
                    IN  /\ d.op = w.op /\ d.id = w.id /\ d.name = w.name
                        /\ d.target = w.target /\ d.reply = reply
      /\ \A reply, target : LET d == [w EXCEPT !.reply = reply, !.target = target]
                    IN  /\ d.op = w.op /\ d.id = w.id /\ d.name = w.name
                        /\ d.target = target /\ d.reply = reply
      /\ \A reply, name : LET d == [w EXCEPT !.reply = reply, !.name = name]
                    IN  /\ d.op = w.op /\ d.id = w.id /\ d.name = name
                        /\ d.target = w.target /\ d.reply = reply
  BY <1>0 DEF Write
<1>4. ASSUME w.reply = "none", Served(w, Refused(w), tags), UNCHANGED used
      PROVE  \E d : Serves(w, d)
  <2>. DEFINE d == [w EXCEPT !.reply = "refused"]
  <2>1. d \in Write /\ d.op = w.op /\ d.id = w.id /\ d.name = w.name /\ d.reply = "refused"
    BY <1>0, <1>3 DEF Write
  <2>2. Served(w, d, tags)
    BY <1>4 DEF Refused
  <2>. HIDE DEF d
  <2>. QED
    BY <1>4, <2>1, <2>2 DEF Served, Serves
<1>5. CASE ServeRename(w)
  <2>1. ASSUME NEW t \in DOMAIN tags, Served(w, [w EXCEPT !.reply = "collision", !.target = t], tags)
        PROVE  \E d : Serves(w, d)
    <3>. DEFINE d == [w EXCEPT !.reply = "collision", !.target = t]
    <3>0. t \in TagOrNull
      BY <1>1 DEF TagOrNull
    <3>1. d \in Write /\ d.op = w.op /\ d.id = w.id /\ d.name = w.name /\ d.reply = "collision"
      BY <1>0, <1>3, <3>0 DEF Write
    <3>. HIDE DEF d
    <3>2. Served(w, d, tags)
      BY <2>1 DEF d
    <3>. QED
      BY <1>5, <3>1, <3>2 DEF Served, Serves, ServeRename
  <2>2. ASSUME w.id \in DOMAIN tags,
               Served(w, [w EXCEPT !.reply = "done"], [tags EXCEPT ![w.id] = w.name])
        PROVE  \E d : Serves(w, d)
    <3>. DEFINE d == [w EXCEPT !.reply = "done"]
    <3>1. d \in Write /\ d.op = w.op /\ d.id = w.id /\ d.name = w.name /\ d.reply = "done"
      BY <1>0, <1>3 DEF Write
    <3>. HIDE DEF d
    <3>2. Served(w, d, ApplyRenamed(tags, w.id, w.name))
      BY <2>2 DEF d, ApplyRenamed
    <3>. QED
      BY <1>5, <2>2, <3>1, <3>2 DEF Served, Serves, ServeRename
  <2>. QED
    BY <1>4, <1>5, <2>1, <2>2 DEF ServeRename, NamedOnServer
<1>6. CASE ServeMerge(w)
  <2>1. CASE {w.id, w.target} \subseteq DOMAIN tags
    <3>. DEFINE d == [w EXCEPT !.reply = "done", !.name = tags[w.target]]
    <3>0. tags[w.target] \in NameOrNull
      BY <1>1, <2>1 DEF NameOrNull
    <3>1. /\ d \in Write /\ d.op = w.op /\ d.id = w.id /\ d.name = tags[w.target]
          /\ d.reply = "done" /\ d.target = w.target
      BY <1>0, <1>3, <3>0 DEF Write
    <3>. HIDE DEF d
    <3>2. Served(w, d, ApplyDeleted(tags, w.id))
      BY <1>6, <2>1 DEF d, ServeMerge
    <3>. QED
      BY <1>6, <2>1, <3>1, <3>2 DEF Served, Serves, ServeMerge
  <2>. QED
    BY <1>4, <1>6, <2>1 DEF ServeMerge
<1>7. CASE ServeDelete(w)
  <2>1. CASE w.id \in DOMAIN tags
    <3>. DEFINE d == [w EXCEPT !.reply = "done"]
    <3>1. d \in Write /\ d.op = w.op /\ d.id = w.id /\ d.reply = "done"
      BY <1>0, <1>3 DEF Write
    <3>. HIDE DEF d
    <3>2. Served(w, d, ApplyDeleted(tags, w.id))
      BY <1>7, <2>1 DEF d, ServeDelete
    <3>. QED
      BY <1>7, <2>1, <3>1, <3>2 DEF Served, Serves, ServeDelete
  <2>. QED
    BY <1>4, <1>7, <2>1 DEF ServeDelete
<1>8. CASE ServeAttach(w)
  <2>1. ASSUME NEW t \in Tag, NEW table,
               Served(w, [w EXCEPT !.reply = "done", !.target = t], table),
               \/ table = tags /\ t \in DOMAIN tags /\ UNCHANGED used
               \/ /\ table = With(tags, t, w.name) /\ t \notin used
                  /\ used' = used \union {t}
        PROVE  \E d : Serves(w, d)
    <3>. DEFINE d == [w EXCEPT !.reply = "done", !.target = t]
    <3>0. t \in TagOrNull
      BY DEF TagOrNull
    <3>1. /\ d \in Write /\ d.op = w.op /\ d.id = w.id /\ d.name = w.name
          /\ d.reply = "done" /\ d.target = t
      BY <1>0, <1>3, <3>0 DEF Write
    <3>. HIDE DEF d
    <3>2. Served(w, d, table)
      BY <2>1 DEF d
    <3>. QED
      BY <1>8, <2>1, <3>1, <3>2 DEF Served, Serves, ServeAttach
  <2>. QED
    BY <1>1, <1>8, <2>1 DEF ServeAttach, NamedOnServer
<1>. QED
  BY <1>5, <1>6, <1>7, <1>8 DEF ServerStep

\* An answer, or a failure, reaches the page: the provider is left alone, reads
\* again, changes what it has, or remembers a tag.
AnswersWrite(w) ==
  /\ writes' = writes \ {w} /\ UNCHANGED <<tags, used, nWrites>>
  /\ unheard \subseteq unheard'
  /\ \/ /\ UNCHANGED <<hook, gets>>
        /\ \/ w.reply # "done"
           \/ w.op = "rename" /\ w.id \in unheard'
           \/ w.op = "attach" /\ w.target \in unheard'
     \/ Becomes(Fetch(hook, gets))
     \/ /\ w.reply = "done"
        /\ \/ /\ w.op = "rename"
              /\ Becomes(ApplyLocal(hook, gets, ApplyRenamed(hook.vocabulary, w.id, w.name)))
           \/ /\ w.op = "delete"
              /\ Becomes(ApplyLocal(hook, gets, ApplyDeleted(hook.vocabulary, w.id)))
           \/ /\ w.op = "merge"
              /\ Becomes(ApplyLocal(hook, gets,
                           ApplyMerged(hook.vocabulary, w.id, w.target, w.name)))
     \/ /\ w.reply = "done" /\ w.op = "attach"
        /\ Becomes(Remember(hook, gets, w.target, w.name))
        /\ (w.target \in DOMAIN tags /\ tags[w.target] = w.name) \/ w.target \in unheard'

AnswerStep(w) ==
  \/ RenameAnswered(w) \/ RenameFailed(w) \/ MergeAnswered(w) \/ MergeFailed(w)
  \/ DeleteAnswered(w) \/ DeleteFailed(w) \/ AttachAnswered(w) \/ AttachFailed(w)

LEMMA AnswerKinds == ASSUME NEW w \in writes, AnswerStep(w) PROVE AnswersWrite(w)
<1>1. CASE RenameAnswered(w)
  BY <1>1 DEF RenameAnswered, Answered, AnswersWrite, Becomes
<1>2. CASE RenameFailed(w)
  BY <1>2 DEF RenameFailed, Answered, AnswersWrite, Becomes
<1>3. CASE MergeAnswered(w) \/ DeleteAnswered(w)
  BY <1>3 DEF MergeAnswered, DeleteAnswered, Answered, AnswersWrite
<1>4. CASE MergeFailed(w) \/ DeleteFailed(w)
  BY <1>4 DEF MergeFailed, DeleteFailed, Answered, AnswersWrite
<1>5. CASE AttachAnswered(w)
  BY <1>5 DEF AttachAnswered, Answered, AnswersWrite
<1>6. CASE AttachFailed(w)
  BY <1>6 DEF AttachFailed, Answered, AnswersWrite, Becomes
<1>. QED
  BY <1>1, <1>2, <1>3, <1>4, <1>5, <1>6 DEF AnswerStep

LEMMA StepKinds ==
  ASSUME TagsStored, OneAtATime, [VocabNext]_vocabVars
  PROVE  \/ Asks \/ Refetches
         \/ \E r \in gets : GetStep(r)
         \/ \E w \in writes : \E d : Serves(w, d)
         \/ \E w \in writes : AnswersWrite(w)
<1>1. CASE UserStep
  BY <1>1, UserKinds
<1>2. ASSUME NEW w \in writes, WriteStep(w)
      PROVE  AnswersWrite(w) \/ \E d : Serves(w, d)
  <2>1. ServerStep(w) \/ AnswerStep(w)
    BY <1>2 DEF WriteStep, ServerStep, AnswerStep
  <2>. QED
    BY <2>1, ServerKinds, AnswerKinds
<1>3. CASE UNCHANGED vocabVars
  BY <1>3 DEF vocabVars, Asks, TagsStored
<1>. QED
  BY <1>1, <1>2, <1>3 DEF VocabNext

-----------------------------------------------------------------------------
(* The provider.                                                             *)

LEMMA FetchProvider ==
  ASSUME Provider, Becomes(Fetch(hook, gets))
  PROVE  /\ Coherent(hook', gets') /\ Superseded(hook', gets')
         /\ hook'.status = "loading" /\ hook'.vocabulary = hook.vocabulary
  BY FetchSound DEF Provider, Coherent, Becomes

\* What a change of the loaded tags leaves, for each of the three.
Changed(w) ==
  CASE w.op = "rename" -> ApplyRenamed(hook.vocabulary, w.id, w.name)
    [] w.op = "delete" -> ApplyDeleted(hook.vocabulary, w.id)
    [] w.op = "merge"  -> ApplyMerged(hook.vocabulary, w.id, w.target, w.name)

ChangeOf(w, v) ==
  /\ Changed(w) \in Vocabulary
  /\ DOMAIN Changed(w) = IF w.op = "rename" THEN DOMAIN v ELSE DOMAIN v \ {w.id}
  /\ \A t \in DOMAIN Changed(w) :
       Changed(w)[t] = IF \/ w.op = "rename" /\ t = w.id
                          \/ w.op = "merge" /\ t = w.target
                       THEN w.name ELSE v[t]

LEMMA ChangedIs ==
  ASSUME hook.vocabulary \in Vocabulary, NEW w, w.op \in {"rename", "delete", "merge"},
         w.op = "delete" \/ w.name \in Name
  PROVE  ChangeOf(w, hook.vocabulary)
<1>1. CASE w.op = "rename"
  BY <1>1, Renaming DEF Changed, ChangeOf
<1>2. CASE w.op = "delete"
  BY <1>2, Deleting DEF Changed, ChangeOf
<1>3. CASE w.op = "merge"
  <2>. DEFINE v2 == ApplyDeleted(hook.vocabulary, w.id)
  <2>1. Changed(w) = ApplyRenamed(v2, w.target, w.name)
    BY <1>3 DEF Changed, ApplyMerged
  <2>2. /\ v2 \in Vocabulary /\ DOMAIN v2 = DOMAIN hook.vocabulary \ {w.id}
        /\ \A t \in DOMAIN v2 : v2[t] = hook.vocabulary[t]
    BY Deleting
  <2>. HIDE DEF v2
  <2>3. /\ ApplyRenamed(v2, w.target, w.name) \in Vocabulary
        /\ DOMAIN ApplyRenamed(v2, w.target, w.name) = DOMAIN v2
        /\ \A t \in DOMAIN v2 : ApplyRenamed(v2, w.target, w.name)[t] =
                                 IF t = w.target THEN w.name ELSE v2[t]
    BY <1>3, <2>2, Renaming
  <2>. QED
    BY <1>3, <2>1, <2>2, <2>3 DEF ChangeOf
<1>. QED
  BY <1>1, <1>2, <1>3

LEMMA ChangeEffect ==
  ASSUME Provider, TagsStored, Facts, NEW w \in writes,
         w.reply = "done", w.op \in {"rename", "delete", "merge"},
         Becomes(ApplyLocal(hook, gets, Changed(w)))
  PROVE  /\ Coherent(hook', gets') /\ Superseded(hook', gets')
         /\ hook'.status = "loaded" => hook.status = "loaded"
         /\ w.op # "delete" => w.name \in Name
         /\ hook'.vocabulary = IF hook.vocabulary = Null THEN Null ELSE Changed(w)
<1>0. /\ Coherent(hook, gets) /\ Fact(w)
      /\ hook.vocabulary # Null => hook.vocabulary \in Vocabulary
  BY DEF Provider, Facts, Coherent, Hook
<1>1. w.op # "delete" => w.name \in Name
  BY <1>0 DEF Fact
<1>2. ASSUME hook.vocabulary # Null PROVE Changed(w) \in Vocabulary
  <2>1. hook.vocabulary \in Vocabulary
    BY <1>0, <1>2
  <2>2. ChangeOf(w, hook.vocabulary)
    BY <1>1, <2>1, ChangedIs
  <2>. QED
    BY <2>2 DEF ChangeOf
<1>3. /\ hook' = ApplyLocal(hook, gets, Changed(w))[1]
      /\ gets' = ApplyLocal(hook, gets, Changed(w))[2]
  BY DEF Becomes
<1>. QED
  BY <1>0, <1>1, <1>2, <1>3, ApplyLocalSound

LEMMA RememberEffect ==
  ASSUME Provider, TagsStored, Facts, NEW w \in writes,
         w.reply = "done", w.op = "attach",
         Becomes(Remember(hook, gets, w.target, w.name))
  PROVE  /\ Coherent(hook', gets') /\ w.target \in used /\ w.name \in Name
         /\ hook'.status = "loaded" => hook.status = "loaded"
         /\ \/ /\ Superseded(hook', gets')
               /\ hook'.vocabulary = Null \/
                    (/\ hook.vocabulary # Null /\ w.target \notin DOMAIN hook.vocabulary
                     /\ hook'.vocabulary = With(hook.vocabulary, w.target, w.name))
            \/ /\ UNCHANGED <<hook, gets>>
               /\ hook.vocabulary # Null => w.target \in DOMAIN hook.vocabulary
               /\ hook.vocabulary = Null => Superseded(hook, gets)
<1>. DEFINE p == Remember(hook, gets, w.target, w.name)
<1>1. Coherent(hook, gets) /\ Fact(w) /\ used \in SUBSET Tag
  BY DEF Provider, Facts, TagsStored
<1>2. w.target \in used /\ w.target \in Tag /\ w.name \in Name
  BY <1>1 DEF Fact
<1>3. hook' = p[1] /\ gets' = p[2]
  BY DEF Becomes
<1>4. /\ Coherent(p[1], p[2])
      /\ p[1].status = "loaded" => hook.status = "loaded"
      /\ \/ /\ Superseded(p[1], p[2])
            /\ p[1].vocabulary = Null \/
                 (/\ hook.vocabulary # Null /\ w.target \notin DOMAIN hook.vocabulary
                  /\ p[1].vocabulary = With(hook.vocabulary, w.target, w.name))
         \/ /\ p = <<hook, gets>>
            /\ hook.vocabulary # Null => w.target \in DOMAIN hook.vocabulary
            /\ hook.vocabulary = Null => Superseded(hook, gets)
  BY <1>1, <1>2, RememberSound
<1>. HIDE DEF p
<1>. QED
  BY <1>2, <1>3, <1>4

\* The four ways an answer can leave the provider.
LEMMA AnswerEffect ==
  ASSUME Provider, TagsStored, Facts, NEW w \in writes, AnswersWrite(w)
  PROVE  /\ Coherent(hook', gets')
         /\ \/ UNCHANGED <<hook, gets>>
            \/ Superseded(hook', gets') /\ hook'.status = "loading"
               /\ hook'.vocabulary = hook.vocabulary
            \/ /\ Superseded(hook', gets')
               /\ hook'.status = "loaded" => hook.status = "loaded"
               /\ \/ /\ w.op \in {"rename", "delete", "merge"} /\ w.reply = "done"
                     /\ w.op # "delete" => w.name \in Name
                     /\ hook'.vocabulary = IF hook.vocabulary = Null THEN Null
                                            ELSE Changed(w)
                  \/ hook'.vocabulary = Null
                  \/ /\ w.op = "attach" /\ w.reply = "done" /\ w.name \in Name
                     /\ w.target \in used
                     /\ hook.vocabulary # Null
                     /\ hook'.vocabulary = With(hook.vocabulary, w.target, w.name)
<1>0. /\ Coherent(hook, gets) /\ Fact(w) /\ w \in Write /\ used \in SUBSET Tag
      /\ hook.vocabulary # Null => hook.vocabulary \in Vocabulary
  BY DEF Provider, Facts, TagsStored, Coherent, Hook
<1>1. CASE UNCHANGED <<hook, gets>>
  BY <1>0, <1>1
<1>2. CASE Becomes(Fetch(hook, gets))
  BY <1>2, FetchProvider
<1>3. ASSUME w.reply = "done", w.op \in {"rename", "delete", "merge"},
             Becomes(ApplyLocal(hook, gets, Changed(w)))
      PROVE  /\ Coherent(hook', gets') /\ Superseded(hook', gets')
             /\ hook'.status = "loaded" => hook.status = "loaded"
             /\ w.op # "delete" => w.name \in Name
             /\ hook'.vocabulary = IF hook.vocabulary = Null THEN Null ELSE Changed(w)
  BY <1>3, ChangeEffect
<1>4. CASE /\ w.reply = "done" /\ w.op = "attach"
           /\ Becomes(Remember(hook, gets, w.target, w.name))
  BY <1>4, RememberEffect
<1>5. CASE w.op = "rename" /\ w.reply = "done" /\
           Becomes(ApplyLocal(hook, gets, ApplyRenamed(hook.vocabulary, w.id, w.name)))
  BY <1>3, <1>5 DEF Changed
<1>6. CASE w.op = "delete" /\ w.reply = "done" /\
           Becomes(ApplyLocal(hook, gets, ApplyDeleted(hook.vocabulary, w.id)))
  BY <1>3, <1>6 DEF Changed
<1>7. CASE w.op = "merge" /\ w.reply = "done" /\
           Becomes(ApplyLocal(hook, gets,
                     ApplyMerged(hook.vocabulary, w.id, w.target, w.name)))
  BY <1>3, <1>7 DEF Changed
<1>. QED
  BY <1>1, <1>2, <1>4, <1>5, <1>6, <1>7 DEF AnswersWrite

\* A get is served, applied, dropped, or lost.
LEMMA GetEffect ==
  ASSUME Provider, TagsStored, NEW r \in gets, GetStep(r)
  PROVE  /\ Coherent(hook', gets') /\ UNCHANGED <<tags, used, writes, nWrites>>
         /\ \/ /\ UNCHANGED <<hook, unheard>>
               /\ \A q \in gets' : \/ q \in gets
                                   \/ q.answer = tags
            \/ /\ r.gen = hook.gen /\ r.answer # Null /\ hook'.vocabulary = r.answer
               /\ unheard' = StillUnheard(r.answer) /\ Superseded(hook', gets')
               /\ \A q \in gets' : q \in gets
            \/ /\ UNCHANGED unheard /\ hook'.status = "error" /\ Superseded(hook', gets')
               /\ hook'.vocabulary = hook.vocabulary
               /\ \A q \in gets' : q \in gets
<1>0. Coherent(hook, gets) /\ r \in Get /\ tags \in Vocabulary
  BY DEF Provider, Coherent, TagsStored
<1>1. CASE ServeGet(r)
  <2>. DEFINE d == [r EXCEPT !.answer = tags]
  <2>1. d \in Get /\ d.gen = r.gen /\ d.answer = tags
    BY <1>0 DEF Get
  <2>2. gets' = (gets \ {r}) \union {d}
    BY <1>1 DEF ServeGet
  <2>3. UNCHANGED <<tags, used, hook, writes, nWrites, unheard>>
    BY <1>1 DEF ServeGet
  <2>. HIDE DEF d
  <2>4. Coherent(hook, (gets \ {r}) \union {d})
    BY <1>0, <2>1 DEF Coherent
  <2>. QED
    BY <2>1, <2>2, <2>3, <2>4
<1>2. CASE GetAnswered(r) \/ GetFailed(r)
  <2>1. gets' = gets \ {r} /\ UNCHANGED <<tags, used, writes, nWrites>>
    BY <1>2 DEF GetAnswered, GetFailed
  <2>2. CASE r.gen # hook.gen
    <3>1. UNCHANGED <<hook, unheard>>
      BY <1>2, <2>2 DEF GetAnswered, GetFailed
    <3>2. Coherent(hook, gets \ {r})
      BY <1>0, <2>2 DEF Coherent
    <3>. QED
      BY <2>1, <3>1, <3>2
  <2>3. CASE r.gen = hook.gen
    <3>1. \A q \in gets' : q.gen # hook.gen
      BY <1>0, <2>1, <2>3 DEF Coherent
    <3>2. CASE GetAnswered(r)
      <4>1. /\ r.answer # Null /\ unheard' = StillUnheard(r.answer)
            /\ hook' = [hook EXCEPT !.inFlight = FALSE, !.vocabulary = r.answer,
                                     !.status = "loaded"]
        BY <2>3, <3>2 DEF GetAnswered
      <4>2. /\ hook' \in Hook /\ hook'.gen = hook.gen /\ ~hook'.inFlight
            /\ hook'.status = "loaded" /\ hook'.vocabulary = r.answer
        BY <1>0, <4>1 DEF Coherent, Hook, Get, Status
      <4>3. Coherent(hook', gets') /\ Superseded(hook', gets')
        BY <1>0, <2>1, <3>1, <4>1, <4>2 DEF Coherent, Superseded
      <4>. QED
        BY <2>1, <2>3, <4>1, <4>2, <4>3
    <3>3. CASE GetFailed(r)
      <4>1. /\ unheard' = unheard
            /\ hook' = [hook EXCEPT !.inFlight = FALSE, !.status = "error"]
        BY <2>3, <3>3 DEF GetFailed
      <4>2. /\ hook' \in Hook /\ hook'.gen = hook.gen /\ ~hook'.inFlight
            /\ hook'.status = "error" /\ hook'.vocabulary = hook.vocabulary
        BY <1>0, <4>1 DEF Coherent, Hook, Status
      <4>3. Coherent(hook', gets') /\ Superseded(hook', gets')
        BY <1>0, <2>1, <3>1, <4>2 DEF Coherent, Superseded
      <4>. QED
        BY <2>1, <4>1, <4>2, <4>3
    <3>. QED
      BY <1>2, <3>2, <3>3
  <2>. QED
    BY <2>2, <2>3
<1>. QED
  BY <1>1, <1>2 DEF GetStep

LEMMA ProviderStep ==
  ASSUME Provider, TagsStored, OneAtATime, Facts, [VocabNext]_vocabVars
  PROVE  Provider'
<1>1. Coherent(hook', gets')
  <2>0. Coherent(hook, gets)
    BY DEF Provider
  <2>1. CASE Asks
    BY <2>0, <2>1 DEF Asks
  <2>2. CASE Refetches
    BY <2>0, <2>2, FetchProvider DEF Refetches
  <2>3. CASE \E w \in writes : \E d : Serves(w, d)
    BY <2>0, <2>3 DEF Serves
  <2>. QED
    BY <2>1, <2>2, <2>3, StepKinds, GetEffect, AnswerEffect
<1>. QED
  BY <1>1 DEF Provider, Coherent

-----------------------------------------------------------------------------
(* The table, and what the server said of it.                                *)

\* What serving leaves: a table of the same kind, whose ids grow only by one
\* that was never given out.
LEMMA ServesTable ==
  ASSUME TagsStored, Facts, NEW w \in writes, NEW d, Serves(w, d)
  PROVE  /\ tags' \in Vocabulary /\ used' \in SUBSET Tag /\ DOMAIN tags' \subseteq used'
         /\ used \subseteq used'
         /\ \A t \in used : t \in DOMAIN tags' => t \in DOMAIN tags
<1>0. /\ tags \in Vocabulary /\ used \in SUBSET Tag /\ DOMAIN tags \subseteq used
      /\ Fact(w) /\ d \in Write /\ d.op = w.op
  BY DEF TagsStored, Facts, Serves
<1>1. CASE UNCHANGED <<tags, used>>
  BY <1>0, <1>1
<1>2. CASE /\ d.op = "rename" /\ w.id \in DOMAIN tags
           /\ tags' = ApplyRenamed(tags, w.id, w.name) /\ UNCHANGED used
  <2>1. w.name \in Name
    BY <1>0, <1>2 DEF Fact
  <2>2. tags' \in Vocabulary /\ DOMAIN tags' = DOMAIN tags
    BY <1>0, <1>2, <2>1, Renaming
  <2>. QED
    BY <1>0, <1>2, <2>2
<1>3. CASE tags' = ApplyDeleted(tags, w.id) /\ UNCHANGED used
  <2>0. tags \in Vocabulary
    BY <1>0
  <2>1. tags' \in Vocabulary /\ DOMAIN tags' = DOMAIN tags \ {w.id}
    BY <1>3, <2>0, Deleting
  <2>. QED
    BY <1>0, <1>3, <2>1
<1>4. CASE /\ d.op = "attach" /\ d.target \in Tag \ used
           /\ tags' = With(tags, d.target, w.name) /\ used' = used \union {d.target}
  <2>1. w.name \in Name
    BY <1>0, <1>4 DEF Fact
  <2>2. tags \in Vocabulary /\ d.target \in Tag
    BY <1>0, <1>4
  <2>3. tags' \in Vocabulary /\ DOMAIN tags' = DOMAIN tags \union {d.target}
    BY <1>4, <2>1, <2>2, Adding
  <2>. QED
    BY <1>0, <1>4, <2>3
<1>. QED
  BY <1>1, <1>2, <1>3, <1>4 DEF Serves

LEMMA TableStep ==
  ASSUME Provider, TagsStored, OneAtATime, Facts, [VocabNext]_vocabVars
  PROVE  TagsStored'
<1>0. /\ TagsStored /\ Coherent(hook, gets) /\ tags \in Vocabulary /\ used \in SUBSET Tag
  BY DEF Provider, TagsStored
<1>1. CASE Asks
  BY <1>0, <1>1 DEF Asks, TagsStored
<1>2. CASE Refetches
  <2>1. CASE UNCHANGED <<hook, gets>>
    BY <1>0, <1>2, <2>1 DEF Refetches, TagsStored
  <2>2. CASE Becomes(Fetch(hook, gets))
    <3>1. hook'.vocabulary = hook.vocabulary
      BY <2>2, FetchProvider
    <3>2. \A r \in gets' : r \in gets \/ r.answer = Null
      BY <2>2 DEF Becomes, Fetch
    <3>. QED
      BY <1>0, <1>2, <3>1, <3>2 DEF Refetches, TagsStored
  <2>. QED
    BY <1>2, <2>1, <2>2 DEF Refetches
<1>3. ASSUME NEW r \in gets, GetStep(r) PROVE TagsStored'
  <2>1. UNCHANGED <<tags, used, writes, nWrites>>
    BY <1>3, GetEffect
  <2>2. \A q \in gets' : q.answer = Null \/ DOMAIN q.answer \subseteq used
    BY <1>0, <1>3, GetEffect DEF TagsStored
  <2>3. hook'.vocabulary # Null => DOMAIN hook'.vocabulary \subseteq used
    BY <1>0, <1>3, GetEffect DEF TagsStored
  <2>. QED
    BY <1>0, <2>1, <2>2, <2>3 DEF TagsStored
<1>4. ASSUME NEW w \in writes, NEW d, Serves(w, d) PROVE TagsStored'
  <2>1. /\ tags' \in Vocabulary /\ used' \in SUBSET Tag /\ DOMAIN tags' \subseteq used'
        /\ used \subseteq used'
    BY <1>4, ServesTable
  <2>2. /\ writes' \in SUBSET Write /\ nWrites' \in Nat
        /\ UNCHANGED <<hook, gets>>
    BY <1>0, <1>4 DEF Serves, TagsStored
  <2>. QED
    BY <1>0, <2>1, <2>2 DEF TagsStored
<1>5. ASSUME NEW w \in writes, AnswersWrite(w) PROVE TagsStored'
  <2>1. writes' = writes \ {w} /\ UNCHANGED <<tags, used, nWrites>>
    BY <1>5 DEF AnswersWrite
  <2>2. hook'.vocabulary # Null => DOMAIN hook'.vocabulary \subseteq used
    <3>1. ASSUME w.op \in {"rename", "delete", "merge"}, w.op # "delete" => w.name \in Name,
                 hook.vocabulary # Null, hook'.vocabulary = Changed(w)
          PROVE  DOMAIN hook'.vocabulary \subseteq used
      <4>1. hook.vocabulary \in Vocabulary
        BY <1>0, <3>1 DEF Coherent, Hook
      <4>2. ChangeOf(w, hook.vocabulary)
        BY <3>1, <4>1, ChangedIs
      <4>3. DOMAIN Changed(w) \subseteq DOMAIN hook.vocabulary
        BY <4>2 DEF ChangeOf
      <4>4. DOMAIN hook.vocabulary \subseteq used
        BY <3>1 DEF TagsStored
      <4>. QED
        BY <3>1, <4>3, <4>4
    <3>2. ASSUME w.name \in Name, w.target \in used, hook.vocabulary # Null,
                 hook'.vocabulary = With(hook.vocabulary, w.target, w.name)
          PROVE  DOMAIN hook'.vocabulary \subseteq used
      <4>1. hook.vocabulary \in Vocabulary
        BY <1>0, <3>2 DEF Coherent, Hook
      <4>2. w.target \in Tag /\ w.name \in Name
        BY <1>0, <3>2
      <4>3. DOMAIN With(hook.vocabulary, w.target, w.name)
              = DOMAIN hook.vocabulary \union {w.target}
        BY <4>1, <4>2, Adding
      <4>. QED
        BY <1>0, <3>2, <4>3 DEF TagsStored
    <3>. QED
      BY <1>0, <1>5, <3>1, <3>2, AnswerEffect DEF TagsStored
  <2>3. \A r \in gets' : r.answer # Null => DOMAIN r.answer \subseteq used
    <3>1. \A r \in gets' : r \in gets \/ r.answer = Null
      BY <1>5 DEF AnswersWrite, Becomes, Fetch, ApplyLocal, Remember, Supersede
    <3>. QED
      BY <1>0, <3>1 DEF TagsStored
  <2>. QED
    BY <1>0, <2>1, <2>2, <2>3 DEF TagsStored
<1>. QED
  BY <1>1, <1>2, <1>3, <1>4, <1>5, StepKinds

LEMMA FactsStep ==
  ASSUME Provider, TagsStored, OneAtATime, Facts, [VocabNext]_vocabVars
  PROVE  Facts'
<1>1. ASSUME UNCHANGED <<tags, used>>, \A w \in writes' : w \in writes \/
               (w.reply # "done" /\ (w.op \in {"rename", "attach"} => w.name \in Name))
      PROVE  Facts'
  BY <1>1 DEF Facts, Fact
<1>2. CASE Asks
  BY <1>1, <1>2 DEF Asks
<1>3. CASE Refetches
  BY <1>1, <1>3 DEF Refetches
<1>4. ASSUME NEW r \in gets, GetStep(r) PROVE Facts'
  BY <1>1, <1>4, GetEffect
<1>5. ASSUME NEW w \in writes, AnswersWrite(w) PROVE Facts'
  BY <1>1, <1>5 DEF AnswersWrite
<1>6. ASSUME NEW w \in writes, NEW d, Serves(w, d) PROVE Facts'
  <2>0. /\ tags \in Vocabulary /\ used \in SUBSET Tag /\ DOMAIN tags \subseteq used
        /\ Fact(w) /\ d \in Write /\ d.op = w.op /\ d.id = w.id /\ w.reply = "none"
        /\ \A t \in DOMAIN tags : tags[t] \in Name
        /\ DOMAIN tags \subseteq Tag
    BY <1>6, VocabularyIs DEF TagsStored, Facts, Serves
  <2>1. \A e \in writes' : e = d \/ (e \in writes /\ e # w)
    BY <1>6 DEF Serves
  <2>2. \A e \in writes : Fact(e)
    BY DEF Facts
  <2>3. /\ used \subseteq used'
        /\ \A t \in used : t \in DOMAIN tags' => t \in DOMAIN tags
    BY <1>6, ServesTable
  <2>4. CASE UNCHANGED <<tags, used>> /\ d.reply # "done" /\ d.name = w.name
    BY <2>0, <2>1, <2>4, <1>1 DEF Fact
  <2>5. CASE /\ d.op = "rename" /\ d.name = w.name /\ w.id \in DOMAIN tags
             /\ tags' = ApplyRenamed(tags, w.id, w.name) /\ UNCHANGED used
    <3>1. w.name \in Name
      BY <2>0, <2>5 DEF Fact
    <3>2. /\ DOMAIN tags' = DOMAIN tags
          /\ \A t \in DOMAIN tags : tags'[t] = IF t = w.id THEN w.name ELSE tags[t]
      BY <2>0, <2>5, <3>1, Renaming
    <3>3. \A e \in writes : e # w => e.op \notin {"rename", "merge"}
      BY <2>0, <2>5 DEF OneAtATime
    <3>. QED
      BY <2>0, <2>1, <2>2, <2>5, <3>1, <3>2, <3>3 DEF Facts, Fact
  <2>6. CASE /\ d.op \in {"delete", "merge"} /\ w.id \in DOMAIN tags
             /\ d.op = "merge" => d.target \in DOMAIN tags /\ d.name = tags[d.target]
             /\ tags' = ApplyDeleted(tags, w.id) /\ UNCHANGED used
    <3>1. /\ DOMAIN tags' = DOMAIN tags \ {w.id}
          /\ \A t \in DOMAIN tags \ {w.id} : tags'[t] = tags[t]
      BY <2>0, <2>6, Deleting
    <3>. QED
      BY <2>0, <2>1, <2>2, <2>6, <3>1 DEF Facts, Fact
  <2>7. CASE /\ d.op = "attach" /\ d.name = w.name /\ d.target \in DOMAIN tags
             /\ UNCHANGED <<tags, used>>
    BY <2>0, <2>1, <2>2, <2>7 DEF Facts, Fact
  <2>8. CASE /\ d.op = "attach" /\ d.name = w.name /\ d.target \in Tag \ used
             /\ tags' = With(tags, d.target, w.name) /\ used' = used \union {d.target}
    <3>1. w.name \in Name
      BY <2>0, <2>8 DEF Fact
    <3>2. /\ DOMAIN tags' = DOMAIN tags \union {d.target}
          /\ \A t \in DOMAIN tags \union {d.target} :
                tags'[t] = IF t = d.target THEN w.name ELSE tags[t]
      BY <2>8 DEF With
    <3>3. \A t \in DOMAIN tags : t # d.target /\ tags'[t] = tags[t]
      BY <2>0, <2>8, <3>2
    <3>4. Fact(d)'
      BY <2>0, <2>8, <3>1 DEF Fact
    <3>5. ASSUME NEW e \in writes PROVE Fact(e)'
      <4>1. Fact(e)
        BY <2>2
      <4>2. \A t \in used : t # d.target /\ (t \in DOMAIN tags' <=> t \in DOMAIN tags)
        BY <2>0, <2>8, <3>2
      <4>3. used \subseteq used'
        BY <2>8
      <4>. QED
        BY <3>3, <4>1, <4>2, <4>3 DEF Fact
    <3>. QED
      BY <2>1, <3>4, <3>5 DEF Facts
  <2>. QED
    BY <1>6, <2>4, <2>5, <2>6, <2>7, <2>8 DEF Serves
<1>. QED
  BY <1>2, <1>3, <1>4, <1>5, <1>6, StepKinds

-----------------------------------------------------------------------------
(* The dialog.                                                               *)

\* What the fields that matter are after a step.
Leaves(renamePending, collision, merging) ==
  /\ dialog' \in Dialog
  /\ dialog'.renamePending = renamePending /\ dialog'.collision = collision
  /\ dialog'.merging = merging

LEMMA UserDialog ==
  ASSUME TagsStored, OneAtATime, UserStep
  PROVE  OneAtATime'
<1>0. /\ dialog \in Dialog /\ writes \in SUBSET Write
      /\ dialog.renamePending \in BOOLEAN /\ dialog.merging \in BOOLEAN
  BY DEF TagsStored, OneAtATime, Dialog
<1>1. ASSUME Leaves(dialog.renamePending, dialog.collision, dialog.merging),
             \A w \in writes' : w \in writes \/ w.op \in {"delete", "attach"}
      PROVE  OneAtATime'
  BY <1>0, <1>1 DEF Leaves, OneAtATime
<1>2. CASE OpenDialog \/ CloseDialog \/ CancelRename
           \/ (\E t \in Tag : StartRename(t) \/ AskDelete(t))
  <2>1. writes' = writes
    BY <1>2 DEF OpenDialog, CloseDialog, CancelRename, StartRename, AskDelete
  <2>2. Leaves(dialog.renamePending, dialog.collision, dialog.merging)
    BY <1>0, <1>2
       DEF OpenDialog, CloseDialog, CancelRename, StartRename, AskDelete, Dialog, Leaves,
           TagOrNull
  <2>. QED
    BY <1>1, <2>1, <2>2
<1>3. CASE RetryLoad \/ OpenChipEditor
  BY <1>0, <1>3 DEF RetryLoad, OpenChipEditor, OneAtATime
<1>4. ASSUME NEW n \in Name, CommitChip(n) PROVE OneAtATime'
  <2>1. dialog' = dialog /\ \A w \in writes' : w \in writes \/ w.op = "attach"
    BY <1>4 DEF CommitChip, Send
  <2>. QED
    BY <1>0, <1>1, <2>1 DEF Leaves
<1>5. CASE ConfirmDelete
  <2>1. Leaves(dialog.renamePending, dialog.collision, dialog.merging)
    BY <1>0, <1>5 DEF ConfirmDelete, Dialog, Leaves
  <2>2. \A w \in writes' : w \in writes \/ w.op = "delete"
    BY <1>5 DEF ConfirmDelete, Send
  <2>. QED
    BY <1>1, <2>1, <2>2
<1>6. CASE CancelConfirm
  <2>1. /\ writes' = writes
        /\ \/ Leaves(dialog.renamePending, dialog.collision, dialog.merging)
           \/ ~dialog.merging /\ Leaves(dialog.renamePending, Null, dialog.merging)
    BY <1>0, <1>6 DEF CancelConfirm, Dialog, Leaves, TagOrNull
  <2>. QED
    BY <1>0, <1>1, <2>1 DEF Leaves, OneAtATime
<1>7. ASSUME NEW n \in Name, SaveRename(n) PROVE OneAtATime'
  <2>1. ~dialog.renamePending /\ dialog.collision = Null
    BY <1>7 DEF SaveRename, ListShown, NoConfirm
  <2>2. Leaves(TRUE, Null, dialog.merging)
    BY <1>0, <1>7, <2>1 DEF SaveRename, Dialog, Leaves
  <2>3. \E w : w.op = "rename" /\ writes' = writes \union {w}
    <3>. DEFINE w == [n |-> nWrites + 1, op |-> "rename", id |-> dialog.renaming,
                      name |-> n, target |-> Null, reply |-> "none"]
    <3>1. w.op = "rename" /\ writes' = writes \union {w}
      BY <1>7 DEF SaveRename, Send
    <3>. QED
      BY <3>1
  <2>4. ~dialog.merging /\ \A w \in writes : w.op # "rename" /\ w.op # "merge"
    BY <1>0, <2>1 DEF OneAtATime
  <2>. QED
    BY <2>2, <2>3, <2>4 DEF Leaves, OneAtATime
<1>8. CASE ConfirmMerge
  <2>1. ~dialog.merging /\ dialog.collision # Null
    BY <1>8 DEF ConfirmMerge
  <2>2. Leaves(dialog.renamePending, dialog.collision, TRUE)
    BY <1>0, <1>8 DEF ConfirmMerge, Dialog, Leaves
  <2>3. \E w : w.op = "merge" /\ writes' = writes \union {w}
    <3>. DEFINE w == [n |-> nWrites + 1, op |-> "merge", id |-> dialog.collision.source,
                      name |-> Null, target |-> dialog.collision.target, reply |-> "none"]
    <3>1. w.op = "merge" /\ writes' = writes \union {w}
      BY <1>8 DEF ConfirmMerge, Send
    <3>. QED
      BY <3>1
  <2>4. ~dialog.renamePending /\ \A w \in writes : w.op # "rename" /\ w.op # "merge"
    BY <1>0, <2>1 DEF OneAtATime
  <2>. QED
    BY <2>1, <2>2, <2>3, <2>4 DEF Leaves, OneAtATime
<1>. QED
  BY <1>2, <1>3, <1>4, <1>5, <1>6, <1>7, <1>8 DEF UserStep

LEMMA AnswerDialog ==
  ASSUME TagsStored, OneAtATime, NEW w \in writes, AnswerStep(w)
  PROVE  OneAtATime'
<1>0. /\ dialog \in Dialog /\ w \in Write
      /\ dialog.renamePending \in BOOLEAN /\ dialog.merging \in BOOLEAN
      /\ \A e \in writes : e.op = w.op /\ w.op \in {"rename", "merge"} => e = w
  BY DEF TagsStored, OneAtATime, Dialog
<1>1. writes' = writes \ {w}
  BY AnswerKinds DEF AnswersWrite
<1>2. CASE RenameAnswered(w)
  <2>1. w.id \in TagOrNull /\ w.target \in TagOrNull
    BY <1>0 DEF Write
  <2>2. dialog.renamePending /\ dialog.collision = Null /\ ~dialog.merging
    BY <1>0, <1>2 DEF RenameAnswered, OneAtATime
  <2>3. /\ dialog' \in Dialog /\ ~dialog'.renamePending
        /\ dialog'.merging = dialog.merging
    <3>. DEFINE c == [source |-> w.id, target |-> w.target]
    <3>1. c \in [source : TagOrNull, target : TagOrNull]
      BY <2>1
    <3>2. \/ dialog' = [dialog EXCEPT !.renaming = Null, !.renamePending = FALSE]
          \/ dialog' = [dialog EXCEPT !.renamePending = FALSE, !.collision = c]
      BY <1>2 DEF RenameAnswered
    <3>. HIDE DEF c
    <3>. QED
      BY <1>0, <3>1, <3>2 DEF Dialog, TagOrNull
  <2>4. w.op = "rename"
    BY <1>2 DEF RenameAnswered
  <2>. QED
    BY <1>0, <1>1, <2>2, <2>3, <2>4 DEF OneAtATime
<1>3. CASE RenameFailed(w)
  <2>1. w.op = "rename" /\ Leaves(FALSE, dialog.collision, dialog.merging)
    BY <1>0, <1>3 DEF RenameFailed, Dialog, Leaves
  <2>. QED
    BY <1>0, <1>1, <2>1 DEF OneAtATime, Leaves
<1>4. CASE MergeAnswered(w) \/ MergeFailed(w)
  <2>1. w.op = "merge" /\ Leaves(dialog.renamePending, Null, FALSE)
    BY <1>0, <1>4 DEF MergeAnswered, MergeFailed, Dialog, Leaves, TagOrNull
  <2>. QED
    BY <1>0, <1>1, <2>1 DEF OneAtATime, Leaves
<1>5. CASE DeleteAnswered(w) \/ DeleteFailed(w)
  <2>1. Leaves(dialog.renamePending, dialog.collision, dialog.merging)
    BY <1>0, <1>5 DEF DeleteAnswered, DeleteFailed, Dialog, Leaves, TagOrNull
  <2>. QED
    BY <1>0, <1>1, <2>1 DEF OneAtATime, Leaves
<1>6. CASE AttachAnswered(w) \/ AttachFailed(w)
  BY <1>0, <1>1, <1>6 DEF AttachAnswered, AttachFailed, OneAtATime
<1>. QED
  BY <1>2, <1>3, <1>4, <1>5, <1>6 DEF AnswerStep

LEMMA OneAtATimeStep ==
  ASSUME Provider, TagsStored, OneAtATime, [VocabNext]_vocabVars
  PROVE  OneAtATime'
<1>1. ASSUME NEW r \in gets, GetStep(r) PROVE OneAtATime'
  BY <1>1 DEF GetStep, ServeGet, GetAnswered, GetFailed, OneAtATime
<1>2. ASSUME NEW w \in writes, NEW d, Serves(w, d) PROVE OneAtATime'
  <2>1. /\ d.op = w.op /\ dialog' = dialog
        /\ \A e \in writes' : e = d \/ (e \in writes /\ e # w)
    BY <1>2 DEF Serves
  <2>. QED
    BY <2>1 DEF OneAtATime
<1>3. ASSUME NEW w \in writes, WriteStep(w) PROVE OneAtATime'
  <2>1. ServerStep(w) \/ AnswerStep(w)
    BY <1>3 DEF WriteStep, ServerStep, AnswerStep
  <2>. QED
    BY <1>2, <2>1, ServerKinds, AnswerDialog
<1>4. CASE UNCHANGED vocabVars
  BY <1>4 DEF vocabVars, OneAtATime
<1>. QED
  BY <1>1, <1>3, <1>4, UserDialog DEF VocabNext

-----------------------------------------------------------------------------
(* The books.                                                                *)

LEMMA ServesBooks ==
  ASSUME TagsStored, Facts, NEW w \in writes, NEW d, Serves(w, d),
         NEW v, NEW t, DOMAIN v \subseteq used, Explained(v, t)
  PROVE  Explained(v, t)'
<1>0. /\ tags \in Vocabulary /\ DOMAIN tags \subseteq used /\ Fact(w)
      /\ d.op = w.op /\ d.id = w.id /\ w.reply = "none" /\ unheard' = unheard
  BY DEF TagsStored, Facts, Serves
<1>1. /\ \A e \in writes : e.reply = "done" => e \in writes'
      /\ d \in writes'
  BY DEF Serves
<1>2. CASE UNCHANGED <<tags, used>>
  BY <1>0, <1>1, <1>2 DEF Explained, Agree
<1>3. CASE /\ d.reply = "done" /\ d.op = "rename" /\ w.id \in DOMAIN tags
           /\ tags' = ApplyRenamed(tags, w.id, w.name)
  <2>1. w.name \in Name
    BY <1>0, <1>3 DEF Fact
  <2>2. /\ DOMAIN tags' = DOMAIN tags
        /\ \A s \in DOMAIN tags : s # w.id => tags'[s] = tags[s]
    BY <1>0, <1>3, <2>1, Renaming
  <2>3. CASE t = w.id
    BY <1>0, <1>1, <1>3, <2>2, <2>3 DEF Explained, Agree
  <2>4. CASE t # w.id
    BY <1>0, <1>1, <2>2, <2>4 DEF Explained, Agree
  <2>. QED
    BY <2>3, <2>4
<1>4. CASE /\ d.reply = "done" /\ d.op \in {"delete", "merge"} /\ w.id \in DOMAIN tags
           /\ tags' = ApplyDeleted(tags, w.id)
  <2>1. /\ DOMAIN tags' = DOMAIN tags \ {w.id}
        /\ \A s \in DOMAIN tags \ {w.id} : tags'[s] = tags[s]
    BY <1>0, <1>4, Deleting
  <2>2. CASE t = w.id
    BY <1>0, <1>1, <1>4, <2>1, <2>2 DEF Explained, Agree
  <2>3. CASE t # w.id
    BY <1>0, <1>1, <2>1, <2>3 DEF Explained, Agree
  <2>. QED
    BY <2>2, <2>3
<1>5. CASE /\ d.reply = "done" /\ d.op = "attach" /\ d.target \in Tag \ used
           /\ tags' = With(tags, d.target, w.name)
  <2>1. /\ DOMAIN tags' = DOMAIN tags \union {d.target}
        /\ \A s \in DOMAIN tags : s # d.target => tags'[s] = tags[s]
    BY <1>5 DEF With
  <2>2. CASE t = d.target
    BY <1>0, <1>1, <1>5, <2>1, <2>2 DEF Explained, Agree
  <2>3. CASE t # d.target
    BY <1>0, <1>1, <2>1, <2>3 DEF Explained, Agree
  <2>. QED
    BY <2>2, <2>3
<1>. QED
  BY <1>2, <1>3, <1>4, <1>5 DEF Serves

\* A change the provider is told of leaves no disagreement about its tags.
LEMMA ChangedBooks ==
  ASSUME Facts, NEW w \in writes, w.reply = "done", w.op \in {"rename", "delete", "merge"},
         writes' = writes \ {w}, UNCHANGED tags, unheard \subseteq unheard',
         NEW v0, NEW v, v = Changed(w), ChangeOf(w, v0), NEW t, Explained(v0, t)
  PROVE  Explained(v, t)'
<1>0. /\ Fact(w)
      /\ DOMAIN v = IF w.op = "rename" THEN DOMAIN v0 ELSE DOMAIN v0 \ {w.id}
      /\ \A s \in DOMAIN v : v[s] = IF \/ w.op = "rename" /\ s = w.id
                                       \/ w.op = "merge" /\ s = w.target
                                    THEN w.name ELSE v0[s]
  BY DEF Facts, ChangeOf
<1>1. CASE t = w.id /\ w.op # "rename"
  BY <1>0, <1>1 DEF Fact, Explained, Agree
<1>2. CASE t = w.id /\ w.op = "rename"
  <2>1. CASE t \in DOMAIN v /\ t \in DOMAIN tags
    BY <1>0, <1>2, <2>1 DEF Fact, Explained, Agree
  <2>2. CASE t \notin DOMAIN v \/ t \notin DOMAIN tags
    BY <1>0, <1>2, <2>2 DEF Explained, Agree
  <2>. QED
    BY <2>1, <2>2
<1>3. CASE t # w.id
  <2>1. t \in DOMAIN v <=> t \in DOMAIN v0
    BY <1>0, <1>3
  <2>2. t \in DOMAIN v => v[t] = v0[t] \/ (t \in DOMAIN tags => v[t] = tags[t])
    BY <1>0, <1>3 DEF Fact
  <2>. QED
    BY <1>3, <2>1, <2>2 DEF Explained, Agree
<1>. QED
  BY <1>1, <1>2, <1>3

\* When no answer under way can be applied, the provider is all there is to say.
LEMMA SupersededBooks ==
  ASSUME Superseded(hook', gets'),
         \A v \in Vocabulary : v = hook'.vocabulary /\ hook'.status = "loaded" =>
           \A t \in Tag : Explained(v, t)'
  PROVE  Books'
<1>1. \A r \in gets', v \in Vocabulary : ~(v = r.answer /\ r.gen = hook'.gen)
  BY NullIsApart DEF Superseded
<1>. QED
  BY <1>1 DEF Books

\* Nothing changes but the writes, and those lost are not needed.
Keeps ==
  /\ tags' = tags /\ hook' = hook /\ gets' = gets /\ unheard \subseteq unheard'
  /\ \A w \in writes : \/ w \in writes' \/ w.reply # "done"
                       \/ w.op = "rename" /\ w.id \in unheard'
                       \/ w.op = "attach" /\ w.target \in unheard'

LEMMA KeptBooks == ASSUME Books, Keeps PROVE Books'
<1>1. \A v \in Vocabulary, t \in Tag : Explained(v, t) => Explained(v, t)'
  BY DEF Keeps, Explained, Agree
<1>2. \A v \in Vocabulary, t \in Tag : NotAhead(v, t) => NotAhead(v, t)'
  BY DEF Keeps, NotAhead
<1>. QED
  BY <1>1, <1>2 DEF Books, Keeps

LEMMA FetchBooks ==
  ASSUME Provider, Becomes(Fetch(hook, gets))
  PROVE  Books'
<1>1. Superseded(hook', gets') /\ hook'.status = "loading"
  BY FetchProvider
<1>. QED
  BY <1>1, SupersededBooks

LEMMA GetBooks ==
  ASSUME Provider, TagsStored, Books, NEW r \in gets, GetStep(r)
  PROVE  Books'
<1>0. UNCHANGED <<tags, used, writes, nWrites>> /\ Coherent(hook, gets)
  BY GetEffect DEF Provider
<1>1. CASE /\ UNCHANGED <<hook, unheard>>
           /\ \A q \in gets' : q \in gets \/ q.answer = tags
  <2>0. tags' = tags /\ unheard' = unheard /\ writes' = writes
    BY <1>0, <1>1
  <2>1. \A v \in Vocabulary, t \in Tag : Explained(v, t) => Explained(v, t)'
    BY <2>0 DEF Explained, Agree
  <2>2. \A v \in Vocabulary, t \in Tag : NotAhead(v, t) => NotAhead(v, t)'
    BY <1>0, <1>1 DEF NotAhead
  <2>3. \A t \in Tag : Explained(tags, t) /\ NotAhead(tags, t)
    BY DEF Explained, Agree, NotAhead
  <2>4. ASSUME NEW v \in Vocabulary, v = hook'.vocabulary, hook'.status = "loaded", NEW t \in Tag
        PROVE  Explained(v, t)'
    BY <1>1, <2>1, <2>4 DEF Books
  <2>5. ASSUME NEW q \in gets', NEW v \in Vocabulary, v = q.answer, q.gen = hook'.gen, NEW t \in Tag
        PROVE  Explained(v, t)' /\ NotAhead(v, t)'
    <3>1. Explained(v, t) /\ NotAhead(v, t)
      BY <1>1, <2>3, <2>5 DEF Books
    <3>. QED
      BY <2>1, <2>2, <3>1
  <2>. QED
    BY <2>4, <2>5 DEF Books
<1>2. CASE /\ r.gen = hook.gen /\ r.answer # Null /\ hook'.vocabulary = r.answer
           /\ unheard' = StillUnheard(r.answer) /\ Superseded(hook', gets')
  <2>1. ASSUME NEW v \in Vocabulary, v = r.answer, NEW t \in Tag
        PROVE  Explained(v, t)'
    <3>1. Explained(v, t)
      BY <1>2, <2>1 DEF Books
    <3>2. t \in unheard => t \in unheard' \/ Agree(v, t)
      BY <1>2, <2>1 DEF StillUnheard
    <3>. QED
      BY <1>0, <3>1, <3>2 DEF Explained, Agree
  <2>. QED
    BY <1>2, <2>1, SupersededBooks
<1>3. CASE hook'.status = "error" /\ Superseded(hook', gets')
  BY <1>3, SupersededBooks
<1>. QED
  BY <1>1, <1>2, <1>3, GetEffect

LEMMA ServeBooks ==
  ASSUME Provider, TagsStored, Facts, Books, NEW w \in writes, NEW d, Serves(w, d)
  PROVE  Books'
<1>0. /\ UNCHANGED <<hook, gets, unheard>>
      /\ hook.vocabulary # Null => DOMAIN hook.vocabulary \subseteq used
      /\ \A r \in gets : r.answer # Null => DOMAIN r.answer \subseteq used
      /\ \A t \in used : t \in DOMAIN tags' => t \in DOMAIN tags
  BY ServesTable DEF Serves, TagsStored
<1>1. ASSUME NEW v, NEW t, DOMAIN v \subseteq used, Explained(v, t)
      PROVE  Explained(v, t)'
  BY <1>1, ServesBooks
<1>2. ASSUME NEW v, NEW t, NotAhead(v, t)
      PROVE  NotAhead(v, t)'
  BY <1>0, <1>2 DEF NotAhead
<1>3. ASSUME NEW v \in Vocabulary, v = hook'.vocabulary, hook'.status = "loaded", NEW t \in Tag
      PROVE  Explained(v, t)'
  <2>1. Explained(v, t) /\ DOMAIN v \subseteq used
    BY <1>0, <1>3, NullIsApart DEF Books
  <2>. QED
    BY <1>1, <2>1
<1>4. ASSUME NEW r \in gets', NEW v \in Vocabulary, v = r.answer, r.gen = hook'.gen, NEW t \in Tag
      PROVE  Explained(v, t)' /\ NotAhead(v, t)'
  <2>1. Explained(v, t) /\ NotAhead(v, t) /\ DOMAIN v \subseteq used
    BY <1>0, <1>4, NullIsApart DEF Books
  <2>. QED
    BY <1>1, <1>2, <2>1
<1>. QED
  BY <1>3, <1>4 DEF Books

LEMMA AnswerBooks ==
  ASSUME Provider, TagsStored, Facts, Books, NEW w \in writes, AnswersWrite(w)
  PROVE  Books'
<1>0. /\ writes' = writes \ {w} /\ UNCHANGED <<tags, used, nWrites>>
      /\ unheard \subseteq unheard' /\ used \in SUBSET Tag /\ Coherent(hook, gets)
  BY DEF AnswersWrite, TagsStored, Provider
<1>00. hook.vocabulary # Null => hook.vocabulary \in Vocabulary
  BY <1>0 DEF Coherent, Hook
<1>1. CASE /\ UNCHANGED <<hook, gets>>
           /\ \/ w.reply # "done"
              \/ w.op = "rename" /\ w.id \in unheard'
              \/ w.op = "attach" /\ w.target \in unheard'
  <2>1. Keeps
    BY <1>0, <1>1 DEF Keeps
  <2>. QED
    BY <2>1, KeptBooks
<1>2. CASE Becomes(Fetch(hook, gets))
  BY <1>2, FetchBooks
<1>3. ASSUME w.reply = "done", w.op \in {"rename", "delete", "merge"},
             Becomes(ApplyLocal(hook, gets, Changed(w)))
      PROVE  Books'
  <2>1. /\ Superseded(hook', gets')
        /\ hook'.status = "loaded" => hook.status = "loaded"
        /\ w.op # "delete" => w.name \in Name
        /\ hook'.vocabulary = IF hook.vocabulary = Null THEN Null ELSE Changed(w)
    BY <1>3, ChangeEffect
  <2>2. ASSUME NEW v \in Vocabulary, v = hook'.vocabulary, hook'.status = "loaded", NEW t \in Tag
        PROVE  Explained(v, t)'
    <3>1. hook.vocabulary \in Vocabulary /\ v = Changed(w)
      BY <1>00, <2>1, <2>2, NullIsApart
    <3>2. ChangeOf(w, hook.vocabulary)
      BY <1>3, <2>1, <3>1, ChangedIs
    <3>3. \A v0 \in Vocabulary : v0 = hook.vocabulary => Explained(v0, t)
      BY <2>1, <2>2 DEF Books
    <3>4. PICK v0 \in Vocabulary : v0 = hook.vocabulary
      BY <3>1
    <3>5. ChangeOf(w, v0) /\ Explained(v0, t)
      BY <3>2, <3>3, <3>4
    <3>. QED
      BY <1>0, <1>3, <3>1, <3>5, ChangedBooks
  <2>. QED
    BY <2>1, <2>2, SupersededBooks
<1>4. CASE /\ w.op = "rename" /\ w.reply = "done"
           /\ Becomes(ApplyLocal(hook, gets, ApplyRenamed(hook.vocabulary, w.id, w.name)))
  BY <1>3, <1>4 DEF Changed
<1>5. CASE /\ w.op = "delete" /\ w.reply = "done"
           /\ Becomes(ApplyLocal(hook, gets, ApplyDeleted(hook.vocabulary, w.id)))
  BY <1>3, <1>5 DEF Changed
<1>6. CASE /\ w.op = "merge" /\ w.reply = "done"
           /\ Becomes(ApplyLocal(hook, gets,
                        ApplyMerged(hook.vocabulary, w.id, w.target, w.name)))
  BY <1>3, <1>6 DEF Changed
<1>7. CASE /\ w.reply = "done" /\ w.op = "attach"
           /\ Becomes(Remember(hook, gets, w.target, w.name))
           /\ (w.target \in DOMAIN tags /\ tags[w.target] = w.name) \/ w.target \in unheard'
  <2>0. /\ w.target \in Tag
        /\ \A v, t : Explained(v, t) /\ t # w.target => Explained(v, t)'
    <3>1. w.target \in Tag
      BY <1>0, <1>7, RememberEffect
    <3>2. ASSUME NEW v, NEW t, Explained(v, t), t # w.target PROVE Explained(v, t)'
      BY <1>0, <1>7, <3>2 DEF Explained, Agree
    <3>. QED
      BY <3>1, <3>2
  <2>1. CASE Superseded(hook', gets') /\ hook'.vocabulary = Null
    BY <2>1, NullIsApart, SupersededBooks
  <2>2. CASE /\ Superseded(hook', gets') /\ hook.vocabulary # Null
             /\ hook'.vocabulary = With(hook.vocabulary, w.target, w.name)
    <3>1. hook'.status = "loaded" => hook.status = "loaded"
      BY <1>7, RememberEffect
    <3>2. ASSUME NEW v \in Vocabulary, v = hook'.vocabulary, hook'.status = "loaded", NEW t \in Tag
          PROVE  Explained(v, t)'
      <4>1. PICK v0 \in Vocabulary : v0 = hook.vocabulary
        BY <1>00, <2>2
      <4>2. Explained(v0, t)
        BY <3>1, <3>2, <4>1 DEF Books
      <4>3. /\ DOMAIN v = DOMAIN v0 \union {w.target}
            /\ \A s \in DOMAIN v : v[s] = IF s = w.target THEN w.name ELSE v0[s]
        BY <2>2, <3>2, <4>1 DEF With
      <4>4. CASE t = w.target
        BY <1>0, <1>7, <4>3, <4>4 DEF Explained, Agree
      <4>5. CASE t # w.target
        <5>1. Explained(v0, t)'
          BY <2>0, <4>2, <4>5
        <5>2. (t \in DOMAIN v <=> t \in DOMAIN v0) /\ (t \in DOMAIN v => v[t] = v0[t])
          BY <4>3, <4>5
        <5>. QED
          BY <5>1, <5>2 DEF Explained, Agree
      <4>. QED
        BY <4>4, <4>5
    <3>. QED
      BY <2>2, <3>2, SupersededBooks
  <2>3. CASE /\ UNCHANGED <<hook, gets>> /\ hook.vocabulary = Null
             /\ Superseded(hook, gets)
    <3>1. Superseded(hook', gets')
      BY <2>3 DEF Superseded
    <3>. QED
      BY <2>3, <3>1, NullIsApart, SupersededBooks
  <2>4. CASE /\ UNCHANGED <<hook, gets>> /\ hook.vocabulary # Null
             /\ w.target \in DOMAIN hook.vocabulary
    <3>1. ASSUME NEW v \in Vocabulary, NEW t \in Tag, Explained(v, t),
                 t = w.target /\ t \in DOMAIN tags => t \in DOMAIN v \/ t \in unheard
          PROVE  Explained(v, t)'
      BY <1>0, <1>7, <3>1 DEF Explained, Agree
    <3>2. ASSUME NEW v \in Vocabulary, v = hook.vocabulary, hook.status = "loaded", NEW t \in Tag
          PROVE  Explained(v, t)'
      <4>1. Explained(v, t)
        BY <3>2 DEF Books
      <4>. QED
        BY <2>4, <3>1, <3>2, <4>1
    <3>3. ASSUME NEW r \in gets, NEW v \in Vocabulary, v = r.answer, r.gen = hook.gen, NEW t \in Tag
          PROVE  Explained(v, t)' /\ NotAhead(v, t)'
      <4>1. Explained(v, t) /\ NotAhead(v, t)
        BY <3>3 DEF Books
      <4>2. t = w.target /\ t \in DOMAIN tags => t \in DOMAIN v \/ t \in unheard
        BY <2>4, <4>1 DEF NotAhead
      <4>3. NotAhead(v, t)'
        BY <1>0, <2>4, <4>1 DEF NotAhead
      <4>. QED
        BY <3>1, <4>1, <4>2, <4>3
    <3>. QED
      BY <2>4, <3>2, <3>3 DEF Books
  <2>. QED
    BY <1>7, <2>1, <2>2, <2>3, <2>4, RememberEffect
<1>. QED
  BY <1>1, <1>2, <1>4, <1>5, <1>6, <1>7 DEF AnswersWrite

LEMMA BooksStep ==
  ASSUME Provider, TagsStored, OneAtATime, Facts, Books, [VocabNext]_vocabVars
  PROVE  Books'
<1>1. CASE Asks
  <2>1. Keeps
    BY <1>1 DEF Asks, Keeps
  <2>. QED
    BY <2>1, KeptBooks
<1>2. CASE Refetches
  <2>1. CASE UNCHANGED <<hook, gets>>
    <3>1. Keeps
      BY <1>2, <2>1 DEF Refetches, Keeps
    <3>. QED
      BY <3>1, KeptBooks
  <2>. QED
    BY <1>2, <2>1, FetchBooks DEF Refetches
<1>3. ASSUME NEW r \in gets, GetStep(r) PROVE Books'
  BY <1>3, GetBooks
<1>4. ASSUME NEW w \in writes, NEW d, Serves(w, d) PROVE Books'
  BY <1>4, ServeBooks
<1>5. ASSUME NEW w \in writes, AnswersWrite(w) PROVE Books'
  BY <1>5, AnswerBooks
<1>. QED
  BY <1>1, <1>2, <1>3, <1>4, <1>5, StepKinds

-----------------------------------------------------------------------------
(* The theorems.                                                             *)

LEMMA VocabStep == VocabInv /\ [VocabNext]_vocabVars => VocabInv'
  BY ProviderStep, TableStep, OneAtATimeStep, FactsStep, BooksStep DEF VocabInv

(* The invariant holds of useTagVocabulary.tsx with its callers and the tags *)
(* table at every step, for any set of tags and names.                       *)
THEOREM VocabularyInvariant == VocabSpec => []VocabInv
<1>. QED
  BY VocabInitInv, VocabStep, PTL DEF VocabSpec

(* While the provider says loading, a GET of the current generation is on    *)
(* its way, and at no other time: supersede (useTagVocabulary.tsx) never     *)
(* strands the surface on loading, nor lets an old answer be applied.        *)
THEOREM LoadingNeverStrands == VocabSpec => []LoadingIsAwaited
<1>1. VocabInv => LoadingIsAwaited
  BY DEF VocabInv, Provider, Coherent, LoadingIsAwaited
<1>. QED
  BY <1>1, VocabularyInvariant, PTL

(* What useTagVocabulary.tsx has loaded agrees with the tags table about     *)
(* every tag no request in flight is about and no answer was lost or late    *)
(* for, whatever was dropped, failed or overtaken on the way.                *)
THEOREM LoadedTagsAreTheTable == VocabSpec => []VocabularyIsCurrent
<1>1. VocabInv => VocabularyIsCurrent
  <2>. SUFFICES ASSUME VocabInv, hook.status = "loaded", NEW t \in Tag \ InQuestion
                PROVE  Agree(hook.vocabulary, t)
    BY DEF VocabularyIsCurrent
  <2>1. hook.vocabulary \in Vocabulary
    BY DEF VocabInv, Provider, Coherent, Hook
  <2>2. PICK v \in Vocabulary : v = hook.vocabulary
    BY <2>1
  <2>3. Explained(v, t)
    BY <2>2 DEF VocabInv, Books
  <2>4. t \notin unheard /\ \A w \in writes : w.id # t /\ w.target # t
    BY DEF InQuestion
  <2>. QED
    BY <2>2, <2>3, <2>4 DEF Explained
<1>. QED
  BY <1>1, VocabularyInvariant, PTL

-----------------------------------------------------------------------------
(* Every variable keeps its type, and every bound is kept.                   *)

LEMMA SessionTypesHold == SessionInit /\ [][SessionNext]_sessionVars => []SessionTypeOK
<1>1. SessionInv => SessionTypeOK
  BY DEF SessionInv, SessionTypes
<1>. QED
  BY <1>1, SessionInitInv, SessionInvariant, PTL DEF SessionSpec

SystemBounds ==
  mount \in 1..MaxMounts /\ nFetches \in 1..MaxFetches /\ nSaves \in 0..MaxSaves

LEMMA SystemBoundsStep == SystemBounds /\ [SystemNext]_systemVars => SystemBounds'
<1>. SUFFICES ASSUME SystemBounds, [SystemNext]_systemVars PROVE SystemBounds'
  OBVIOUS
<1>. USE SystemAssumption DEF SystemBounds
<1>1. CASE OpenPage
  BY <1>1 DEF OpenPage, Fetching
<1>2. CASE RetryMount \/ HandleRefresh
  BY <1>2 DEF RetryMount, HandleRefresh, Fetching
<1>3. ASSUME NEW next, Save(next) PROVE SystemBounds'
  BY <1>3 DEF Save
<1>4. CASE HandleDigestModeChange \/ \E c \in {"daily", "weekly"} : HandleCadenceChange(c)
  BY <1>3, <1>4 DEF HandleDigestModeChange, HandleCadenceChange
<1>5. CASE UNCHANGED <<mount, nFetches, nSaves>>
  BY <1>5
<1>6. ASSUME NEW r \in fetches, ServeFetch(r) \/ FetchAnswered(r) \/ FetchFailed(r)
                                \/ FetchUnauthorized(r)
      PROVE  SystemBounds'
  BY <1>5, <1>6 DEF ServeFetch, FetchAnswered, FetchFailed, FetchUnauthorized
<1>7. ASSUME NEW w \in saves, ServeSave(w) \/ SaveAnswered(w) \/ SaveFailed(w)
                              \/ SaveUnauthorized(w)
      PROVE  SystemBounds'
  BY <1>5, <1>7 DEF ServeSave, SaveAnswered, SaveFailed, SaveUnauthorized
<1>8. CASE LeavePage \/ Render \/ StatusFades \/ UNCHANGED systemVars
  BY <1>5, <1>8 DEF LeavePage, Render, StatusFades, systemVars
<1>. QED
  BY <1>1, <1>2, <1>4, <1>6, <1>7, <1>8 DEF SystemNext

LEMMA SystemTypesHold == SystemInit /\ [][SystemNext]_systemVars => []SystemTypeOK
<1>1. SystemInit => PageInv /\ SystemBounds
  BY PageInitInv, SystemAssumption DEF SystemInit, SystemBounds
<1>2. PageInv /\ SystemBounds => SystemTypeOK
  BY DEF PageInv, SystemTypes, SystemBounds, SystemTypeOK, Screen, DigestCard
<1>. QED
  BY <1>1, <1>2, SystemStep, SystemBoundsStep, PTL

SearchBound == nSearches \in 0..MaxSearches

LEMMA SearchBoundStep == SearchBound /\ [SearchNext]_searchVars => SearchBound'
<1>. SUFFICES ASSUME SearchBound, [SearchNext]_searchVars PROVE SearchBound'
  OBVIOUS
<1>1. CASE RunSearch
  BY <1>1, SearchAssumption DEF RunSearch, SearchBound
<1>2. CASE ~RunSearch
  BY <1>2
     DEF SearchNext, HandleSearchChange, LeaveSearch, ServeSearch, SearchAnswered, searchVars,
              SearchBound
<1>. QED
  BY <1>1, <1>2

LEMMA SearchTypesHold == SearchInit /\ [][SearchNext]_searchVars => []SearchTypeOK
<1>1. SearchInit => SearchInv /\ SearchBound
  BY SearchAssumption
     DEF SearchInit, SearchInv, SearchTypes, SearchIsCurrent, FreshBox, Box, SearchBound
<1>2. SearchInv /\ SearchBound => SearchTypeOK
  BY DEF SearchInv, SearchTypes, SearchBound, SearchTypeOK, Box, Search
<1>. QED
  BY <1>1, <1>2, SearchStep, SearchBoundStep, PTL

\* One more visit than the user's: the stale tag id leaves the URL by itself.
FeedBounds ==
  /\ visit \in 1..MaxVisits + 1 /\ nMores \in 0..MaxMore
  /\ tagNames = "loading" => visit <= MaxVisits

LEMMA FeedBoundsStep == FeedBounds /\ [FeedNext]_feedVars => FeedBounds'
<1>. SUFFICES ASSUME FeedBounds, [FeedNext]_feedVars PROVE FeedBounds'
  OBVIOUS
<1>. USE FeedAssumption DEF FeedBounds
<1>1. CASE (\E f \in Filters : SetFilter(f)) \/ FeedRetry
  <2>1. visit < MaxVisits /\ visit' = visit + 1 /\ UNCHANGED <<nMores, tagNames>>
    BY <1>1 DEF SetFilter, FeedRetry, Visit
  <2>. QED
    BY <2>1
<1>2. CASE TagsLoaded
  <2>1. tagNames = "loading" /\ tagNames' = "loaded" /\ nMores' = nMores
        /\ visit' \in {visit, visit + 1}
    BY <1>2 DEF TagsLoaded, Visit
  <2>. QED
    BY <2>1
<1>3. CASE LoadMore
  BY <1>3 DEF LoadMore
<1>4. CASE UNCHANGED <<visit, nMores>> /\ tagNames' \in {tagNames, "error"}
  BY <1>4
<1>5. ASSUME NEW r \in pageOne, ServePageOne(r) \/ PageOneAnswered(r) \/ PageOneFailed(r)
      PROVE  FeedBounds'
  BY <1>4, <1>5 DEF ServePageOne, PageOneAnswered, PageOneFailed
<1>6. ASSUME NEW r \in mores, ServeMore(r) \/ MoreAnswered(r) \/ MoreFailed(r)
      PROVE  FeedBounds'
  BY <1>4, <1>6 DEF ServeMore, MoreAnswered, MoreFailed
<1>7. CASE (\E e \in Event : InsertEvent(e)) \/ TagsFailed \/ UNCHANGED feedVars
  BY <1>4, <1>7 DEF InsertEvent, TagsFailed, feedVars
<1>. QED
  BY <1>1, <1>2, <1>3, <1>5, <1>6, <1>7 DEF FeedNext

LEMMA FeedTypesHold == FeedInit /\ [][FeedNext]_feedVars => []FeedTypeOK
<1>1. FeedInit => FeedInv /\ FeedBounds
  BY FeedInitInv, FeedAssumption DEF FeedInit, FeedBounds
<1>2. FeedInv /\ FeedBounds => FeedTypeOK
  BY DEF FeedInv, FeedTypes, FeedBounds, FeedTypeOK, FeedRecord
<1>. QED
  BY <1>1, <1>2, FeedStep, FeedBoundsStep, PTL

-----------------------------------------------------------------------------
(* The tags table keeps its names apart, and the dialog its tags.            *)

\* A rename is of a tag, and collides with one.
Renamed(w) ==
  w.op = "rename" => w.id \in Tag /\ (w.reply = "collision" => w.target \in Tag)

NamesApart ==
  /\ IsInjective(tags) /\ unheard \in SUBSET Tag
  /\ dialog.collision \in [source : Tag, target : Tag] \union {Null}
  /\ \A w \in writes : Renamed(w)

LEMMA UserKeepsNames ==
  ASSUME VocabInv, NamesApart, UserStep
  PROVE  NamesApart'
<1>0. /\ dialog \in Dialog /\ (hook.vocabulary # Null => DOMAIN hook.vocabulary \subseteq Tag)
      /\ hook.status = "loaded" => hook.vocabulary # Null
  BY DEF VocabInv, OneAtATime, TagsStored, Provider, Coherent
<1>1. tags' = tags /\ unheard' = unheard
  BY
     DEF UserStep, OpenDialog, CloseDialog, RetryLoad, CancelRename, ConfirmMerge,
         ConfirmDelete,
         CancelConfirm, OpenChipEditor, StartRename, AskDelete, SaveRename, CommitChip
<1>2. dialog'.collision \in {dialog.collision, Null}
  BY <1>0 DEF Dialog, UserStep, OpenDialog, CloseDialog, RetryLoad, CancelRename, ConfirmMerge,
         ConfirmDelete, CancelConfirm, OpenChipEditor, StartRename, AskDelete, SaveRename, CommitChip
<1>3. ASSUME NEW w \in writes' \ writes, w.op = "rename"
      PROVE  w.id \in Tag /\ w.reply = "none"
  <2>1. PICK n \in Name : SaveRename(n)
    BY <1>3 DEF UserStep, OpenDialog, CloseDialog, RetryLoad, CancelRename, ConfirmMerge, Send,
         ConfirmDelete, CancelConfirm, OpenChipEditor, StartRename, AskDelete, CommitChip
  <2>. QED
    BY <1>0, <1>3, <2>1 DEF SaveRename, Send, ListShown
<1>4. \A w \in writes' : Renamed(w)
  BY <1>3 DEF Renamed, NamesApart
<1>. QED
  BY <1>1, <1>2, <1>4 DEF NamesApart

\* The unique index on names.
LEMMA ServerKeepsNames ==
  ASSUME VocabInv, NamesApart, NEW w \in writes,
         ServeRename(w) \/ ServeMerge(w) \/ ServeDelete(w) \/ ServeAttach(w)
  PROVE  NamesApart'
<1>0. tags \in Vocabulary /\ DOMAIN tags \subseteq Tag /\ Renamed(w)
  BY VocabularyIs DEF VocabInv, TagsStored, NamesApart
<1>1. dialog' = dialog /\ unheard' = unheard
  BY DEF ServeRename, ServeMerge, ServeDelete, ServeAttach, Served
<1>2. PICK d : /\ writes' = (writes \ {w}) \union {d}
               /\ Renamed(d)
  <2>1. CASE ServeRename(w)
    <3>1. w \in Write
      BY DEF VocabInv, TagsStored
    <3>2. /\ w.op = "rename" /\ w.reply = "none" /\ w.id \in Tag
          /\ \/ writes' = (writes \ {w}) \union {Refused(w)}
             \/ writes' = (writes \ {w}) \union {[w EXCEPT !.reply = "done"]}
             \/ \E t \in Tag : writes' = (writes \ {w}) \union
                                   {[w EXCEPT !.reply = "collision", !.target = t]}
      BY <1>0, <2>1 DEF ServeRename, Served, Renamed, NamedOnServer
    <3>3. CASE \E t \in Tag : writes' = (writes \ {w}) \union
                                 {[w EXCEPT !.reply = "collision", !.target = t]}
      <4>1. PICK t \in Tag : writes' = (writes \ {w}) \union
                               {[w EXCEPT !.reply = "collision", !.target = t]}
        BY <3>3
      <4>2. Renamed([w EXCEPT !.reply = "collision", !.target = t])
        BY <3>1, <3>2 DEF Renamed, Write
      <4>. QED
        BY <4>1, <4>2
    <3>4. Renamed(Refused(w)) /\ Renamed([w EXCEPT !.reply = "done"])
      BY <3>1, <3>2 DEF Renamed, Refused, Write
    <3>. QED
      BY <3>2, <3>3, <3>4
  <2>2. CASE ServeMerge(w) \/ ServeDelete(w) \/ ServeAttach(w)
    <3>1. w \in Write
      BY DEF VocabInv, TagsStored
    <3>2. w.op # "rename"
      BY <2>2 DEF ServeMerge, ServeDelete, ServeAttach
    <3>3. CASE ServeMerge(w)
      <4>1. \/ writes' = (writes \ {w}) \union {Refused(w)}
            \/ writes' = (writes \ {w}) \union
                          {[w EXCEPT !.reply = "done", !.name = tags[w.target]]}
        BY <3>3 DEF ServeMerge, Served
      <4>2. /\ Refused(w).op = w.op
            /\ [w EXCEPT !.reply = "done", !.name = tags[w.target]].op = w.op
        BY <3>1 DEF Refused, Write
      <4>. QED
        BY <3>2, <4>1, <4>2 DEF Renamed
    <3>4. CASE ServeDelete(w)
      <4>1. \/ writes' = (writes \ {w}) \union {Refused(w)}
            \/ writes' = (writes \ {w}) \union {[w EXCEPT !.reply = "done"]}
        BY <3>4 DEF ServeDelete, Served
      <4>2. Refused(w).op = w.op /\ [w EXCEPT !.reply = "done"].op = w.op
        BY <3>1 DEF Refused, Write
      <4>. QED
        BY <3>2, <4>1, <4>2 DEF Renamed
    <3>5. CASE ServeAttach(w)
      <4>1. PICK t : writes' = (writes \ {w}) \union
                               {[w EXCEPT !.reply = "done", !.target = t]}
        BY <3>5 DEF ServeAttach, Served
      <4>2. [w EXCEPT !.reply = "done", !.target = t].op = w.op
        BY <3>1 DEF Write
      <4>. QED
        BY <3>2, <4>1, <4>2 DEF Renamed
    <3>. QED
      BY <2>2, <3>3, <3>4, <3>5
  <2>. QED
    BY <2>1, <2>2
<1>3. IsInjective(tags')
  <2>1. CASE tags' = tags
    BY <2>1 DEF NamesApart
  <2>2. CASE \E id : tags' = ApplyDeleted(tags, id)
    <3>1. PICK id : tags' = ApplyDeleted(tags, id)
      BY <2>2
    <3>2. DOMAIN tags' = DOMAIN tags \ {id} /\ \A t \in DOMAIN tags \ {id} : tags'[t] = tags[t]
      BY <1>0, <3>1, Deleting
    <3>. QED
      BY <3>2 DEF IsInjective, NamesApart
  <2>3. CASE /\ w.id \in DOMAIN tags /\ NamedOnServer(w.name) \subseteq {w.id}
             /\ tags' = [tags EXCEPT ![w.id] = w.name]
    <3>1. DOMAIN tags' = DOMAIN tags
          /\ \A t \in DOMAIN tags : tags'[t] = IF t = w.id THEN w.name ELSE tags[t]
      BY <1>0, <2>3, VocabularyIs
    <3>2. \A t \in DOMAIN tags : tags[t] = w.name => t = w.id
      BY <2>3 DEF NamedOnServer
    <3>. QED
      BY <3>1, <3>2 DEF IsInjective, NamesApart
  <2>4. CASE NamedOnServer(w.name) = {} /\ \E t \in Tag \ used : tags' = With(tags, t, w.name)
    <3>1. PICK t \in Tag \ used : tags' = With(tags, t, w.name)
      BY <2>4
    <3>2. DOMAIN tags' = DOMAIN tags \union {t}
          /\ \A u \in DOMAIN tags' : tags'[u] = IF u = t THEN w.name ELSE tags[u]
      BY <3>1 DEF With
    <3>3. \A u \in DOMAIN tags : tags[u] # w.name
      BY <2>4 DEF NamedOnServer
    <3>. QED
      BY <3>2, <3>3 DEF IsInjective, NamesApart
  <2>. QED
    BY <2>1, <2>2, <2>3, <2>4 DEF ServeRename, ServeMerge, ServeDelete, ServeAttach, Served
<1>4. \A v \in writes' : Renamed(v)
  BY <1>2 DEF NamesApart
<1>. QED
  BY <1>1, <1>3, <1>4 DEF NamesApart

LEMMA AnswersKeepNames ==
  ASSUME VocabInv, NamesApart, NEW w \in writes,
         \/ RenameAnswered(w) \/ RenameFailed(w) \/ MergeAnswered(w) \/ MergeFailed(w)
         \/ DeleteAnswered(w) \/ DeleteFailed(w) \/ AttachAnswered(w) \/ AttachFailed(w)
  PROVE  NamesApart'
<1>0. dialog \in Dialog /\ Fact(w) /\ Renamed(w) /\ used \subseteq Tag
  BY DEF VocabInv, OneAtATime, Facts, TagsStored, NamesApart
<1>1. tags' = tags /\ writes' \subseteq writes
  BY DEF RenameAnswered, RenameFailed, MergeAnswered, MergeFailed, DeleteAnswered, DeleteFailed,
         AttachAnswered, AttachFailed, Answered
<1>2. unheard' \subseteq Tag
  BY <1>0 DEF RenameAnswered, RenameFailed, MergeAnswered, MergeFailed, DeleteAnswered,
         DeleteFailed, AttachAnswered, AttachFailed, Fact, NamesApart
<1>3. dialog'.collision \in [source : Tag, target : Tag] \union {Null}
  <2>1. CASE RenameAnswered(w)
    <3>1. CASE w.reply = "collision"
      <4>1. dialog'.collision = [source |-> w.id, target |-> w.target]
        BY <1>0, <2>1, <3>1 DEF RenameAnswered, Dialog
      <4>2. w.id \in Tag /\ w.target \in Tag
        BY <1>0, <2>1, <3>1 DEF RenameAnswered, Renamed
      <4>. QED
        BY <4>1, <4>2
    <3>2. CASE w.reply # "collision"
      BY <1>0, <2>1, <3>2 DEF RenameAnswered, Dialog, NamesApart
    <3>. QED
      BY <3>1, <3>2
  <2>2. CASE dialog'.collision \in {dialog.collision, Null}
    BY <2>2 DEF NamesApart
  <2>3. CASE \/ RenameFailed(w) \/ MergeAnswered(w) \/ MergeFailed(w) \/ DeleteAnswered(w)
             \/ DeleteFailed(w)
    BY <1>0, <2>2, <2>3
       DEF RenameFailed, MergeAnswered, MergeFailed, DeleteAnswered, DeleteFailed, Dialog
  <2>4. CASE AttachAnswered(w) \/ AttachFailed(w)
    BY <2>2, <2>4 DEF AttachAnswered, AttachFailed
  <2>. QED
    BY <2>1, <2>3, <2>4
<1>. QED
  BY <1>1, <1>2, <1>3 DEF NamesApart

LEMMA NamesStep == VocabInv /\ NamesApart /\ [VocabNext]_vocabVars => NamesApart'
<1>. SUFFICES ASSUME VocabInv, NamesApart, [VocabNext]_vocabVars PROVE NamesApart'
  OBVIOUS
<1>1. ASSUME NEW r \in gets, GetStep(r) PROVE NamesApart'
  BY <1>1 DEF GetStep, ServeGet, GetAnswered, GetFailed, StillUnheard, NamesApart
<1>2. CASE UNCHANGED vocabVars
  BY <1>2 DEF vocabVars, NamesApart
<1>. QED
  BY <1>1, <1>2, UserKeepsNames, ServerKeepsNames, AnswersKeepNames DEF VocabNext, WriteStep

LEMMA VocabTypesHold == VocabInit /\ [][VocabNext]_vocabVars => []VocabTypeOK
<1>1. VocabInit => VocabInv /\ NamesApart
  BY VocabInitInv, VocabAssumption DEF VocabInit, NamesApart
<1>2. VocabInv /\ NamesApart => VocabTypeOK
  <2>. SUFFICES ASSUME VocabInv, NamesApart PROVE VocabTypeOK
    OBVIOUS
  <2>1. /\ hook \in Hook /\ gets \in SUBSET Get /\ dialog \in Dialog
        /\ tags \in Vocabulary /\ used \in SUBSET Tag /\ DOMAIN tags \subseteq used
        /\ writes \in SUBSET Write /\ nWrites \in Nat
    BY DEF VocabInv, Provider, Coherent, OneAtATime, TagsStored
  <2>2. dialog \in [open : BOOLEAN, renaming : TagOrNull, renamePending : BOOLEAN,
                    collision : [source : Tag, target : Tag] \union {Null},
                    merging : BOOLEAN, deleting : TagOrNull, deletePending : BOOLEAN]
    BY <2>1 DEF Dialog, NamesApart
  <2>. QED
    BY <2>1, <2>2 DEF VocabTypeOK, Hook, Get, Status, NamesApart
<1>. QED
  BY <1>1, <1>2, VocabStep, NamesStep, PTL
=============================================================================
