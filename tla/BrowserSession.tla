--------------------------- MODULE BrowserSession ---------------------------
(***************************************************************************)
(* A member's session in a browser: the tabs of the web application        *)
(* (web/src/api/client.ts, web/src/auth/AuthProvider.tsx), the refresh     *)
(* cookie they share, the Gateway that sets and clears it                  *)
(* (gateway/session_cookie.go) and, as their environment, the Identity     *)
(* Service, reduced to the chain of refresh tokens that SessionPromise     *)
(* says a session is.                                                      *)
(*                                                                         *)
(* Whoever signs in is told apart by the session the sign-in opens.        *)
(***************************************************************************)
EXTENDS Naturals, FiniteSets

CONSTANTS
  Tabs,
  SessionIds,   \* sessions the Identity Service may open
  Calls,        \* API calls that may be in flight at the same time
  Exchanges,    \* exchanges on /auth that may be in flight at the same time
  MaxTokens,    \* bound: refresh tokens issued in a session
  MaxMishaps    \* bound: see Crossing

ASSUME BrowserAssumption == MaxTokens \in Nat \ {0} /\ MaxMishaps \in Nat

VARIABLES
  chain,     \* Identity: the latest token of each session, and how it is
  cookie,    \* the refresh token the browser holds, if any
  tab,       \* memory of each page
  call,      \* calls of api()
  exchange,  \* sign-ins, refreshes and sign-outs
  mishaps    \* how often exchanges crossed or an answer was lost

vars == <<chain, cookie, tab, call, exchange, mishaps>>

(* A page that was closed or reloaded: nobody waits for its exchanges.      *)
Left == "left"

Tokens == SessionIds \X (1..MaxTokens)
OneOrNone(S) == {{}} \cup {{x} : x \in S}

Closed == [screen |-> "closed", access |-> {}, refreshing |-> FALSE, restoring |-> FALSE]
NoCall == [state |-> "idle"]
NoExchange == [kind |-> "none"]

(* Every variable has its type (client.ts, AuthProvider.tsx,                *)
(* session_cookie.go), and what the Identity Service grants is a token.     *)
TypeOK ==
  /\ chain \in [SessionIds -> [latest : 0..MaxTokens, status : {"live", "ended", "reused"}]]
  /\ cookie \in OneOrNone(Tokens)
  /\ tab \in [Tabs -> [screen : SessionIds \cup {"closed", "loading", "signin"},
                       access : OneOrNone(SessionIds),
                       refreshing : BOOLEAN, restoring : BOOLEAN]]
  /\ call \in [Calls -> {NoCall} \cup [state : {"sent", "waiting", "resent"}, tab : Tabs]]
  /\ exchange \in [Exchanges -> {NoExchange} \cup
       [kind : {"signin", "refresh", "signout"}, tab : Tabs \cup {Left},
        state : {"sent", "granted", "body", "refused", "failed", "unreachable"},
        token : OneOrNone(Tokens)]]
  /\ mishaps \in 0..MaxMishaps
  /\ \A e \in Exchanges : exchange[e] # NoExchange /\ exchange[e].state \in {"granted", "body"} =>
       exchange[e].token # {}

Init ==
  /\ chain = [s \in SessionIds |-> [latest |-> 0, status |-> "live"]]
  /\ cookie = {}
  /\ tab = [t \in Tabs |-> Closed]
  /\ call = [c \in Calls |-> NoCall]
  /\ exchange = [e \in Exchanges |-> NoExchange]
  /\ mishaps = 0

-----------------------------------------------------------------------------
(* Sending an exchange.                                                     *)

SignedIn(t) == tab[t].screen \in SessionIds

InFlight == {e \in Exchanges : exchange[e] # NoExchange}

(* Of one page, however many callers find the access token expired.         *)
IsRefreshOf(e, t) == exchange[e].kind = "refresh" /\ exchange[e].tab = t

(* A mishap is what the web client does not guard against: an exchange that *)
(* is sent while another one is under way in the browser, a sign-in under   *)
(* an open page of somebody else, and an answer that is lost.               *)
Mishap(happens) ==
  /\ mishaps' = IF happens THEN mishaps + 1 ELSE mishaps
  /\ mishaps' <= MaxMishaps

Crosses(t) == \E e \in InFlight : ~IsRefreshOf(e, t)

Sent(kind, t) ==
  [kind |-> kind, tab |-> t, state |-> "sent",
   token |-> IF kind = "refresh" THEN cookie ELSE {}]

-----------------------------------------------------------------------------
(* The pages.                                                               *)

(* A page is opened or reloaded: its memory is new, and the member is asked *)
(* for with the cookie.                                                     *)
Load(t, e) ==
  /\ e \notin InFlight
  /\ tab' = [tab EXCEPT ![t] = [screen |-> "loading", access |-> {},
                                refreshing |-> TRUE, restoring |-> TRUE]]
  /\ call' = [c \in Calls |-> IF call[c] # NoCall /\ call[c].tab = t THEN NoCall ELSE call[c]]
  /\ exchange' = [d \in Exchanges |->
       IF d = e THEN Sent("refresh", t)
       ELSE IF d \in InFlight /\ exchange[d].tab = t THEN [exchange[d] EXCEPT !.tab = Left]
       ELSE exchange[d]]
  /\ Mishap(InFlight # {})
  /\ UNCHANGED <<chain, cookie>>

SignIn(t, e) ==
  /\ e \notin InFlight
  /\ tab[t].screen \in {"loading", "signin"}
  /\ ~\E d \in InFlight : exchange[d].kind = "signin" /\ exchange[d].tab = t
  /\ exchange' = [exchange EXCEPT ![e] = Sent("signin", t)]
  /\ Mishap(InFlight # {} \/ \E u \in Tabs : SignedIn(u))
  /\ UNCHANGED <<chain, cookie, tab, call>>

(* The page forgets the member at once, whatever it is waiting for.         *)
SignOut(t, e) ==
  /\ e \notin InFlight
  /\ SignedIn(t)
  /\ tab' = [tab EXCEPT ![t].access = {}, ![t].screen = "signin"]
  /\ exchange' = [exchange EXCEPT ![e] = Sent("signout", t)]
  /\ Mishap(InFlight # {})
  /\ UNCHANGED <<chain, cookie, call>>

(* api(): a page that shows a member calls the Gateway.                     *)
Call(t, c) ==
  /\ call[c] = NoCall
  /\ SignedIn(t)
  /\ call' = [call EXCEPT ![c] = [state |-> "sent", tab |-> t]]
  /\ UNCHANGED <<chain, cookie, tab, exchange, mishaps>>

(* It is answered, or fails; a second 401 is an error like any other.       *)
CallEnds(c) ==
  /\ call[c] # NoCall
  /\ call[c].state \in {"sent", "resent"}
  /\ call' = [call EXCEPT ![c] = NoCall]
  /\ UNCHANGED <<chain, cookie, tab, exchange, mishaps>>

(* Mutant: each caller sends a refresh of its own.                          *)
RefreshEach(c, e) ==
  /\ call[c] # NoCall /\ call[c].state = "sent"
  /\ e \notin InFlight
  /\ exchange' = [exchange EXCEPT ![e] = Sent("refresh", call[c].tab)]
  /\ tab' = [tab EXCEPT ![call[c].tab].refreshing = TRUE]
  /\ Mishap(Crosses(call[c].tab))
  /\ call' = [call EXCEPT ![c].state = "waiting"]
  /\ UNCHANGED <<chain, cookie>>

(* Its access token has expired (401): refreshSession sends a refresh, or   *)
(* joins the one the page is waiting for.                                   *)
RefreshSession(c, e) ==
  /\ call[c] # NoCall /\ call[c].state = "sent"
  /\ IF tab[call[c].tab].refreshing
     THEN UNCHANGED <<tab, exchange, mishaps>>
     ELSE /\ e \notin InFlight
          /\ exchange' = [exchange EXCEPT ![e] = Sent("refresh", call[c].tab)]
          /\ tab' = [tab EXCEPT ![call[c].tab].refreshing = TRUE]
          /\ Mishap(Crosses(call[c].tab))
  /\ call' = [call EXCEPT ![c].state = "waiting"]
  /\ UNCHANGED <<chain, cookie>>

-----------------------------------------------------------------------------
(* The Gateway and the Identity Service.                                    *)

To(e, kind) == e \in InFlight /\ exchange[e].kind = kind /\ exchange[e].state = "sent"

Answer(e, state, token) ==
  exchange' = [exchange EXCEPT ![e].state = state, ![e].token = token]

(* StartSession opens a session.                                            *)
StartSession(e, s) ==
  /\ To(e, "signin")
  /\ chain[s].latest = 0
  /\ chain' = [chain EXCEPT ![s].latest = 1]
  /\ Answer(e, "granted", {<<s, 1>>})
  /\ UNCHANGED <<cookie, tab, call, mishaps>>

(* presentCookie finds no token: answered without asking anybody.           *)
NoSession(e) ==
  /\ To(e, "refresh")
  /\ exchange[e].token = {}
  /\ Answer(e, "failed", {})
  /\ UNCHANGED <<chain, cookie, tab, call, mishaps>>

(* RotateRefreshToken, of the token presented: the latest of a session that *)
(* goes on is exchanged, and an earlier one ends its session.               *)
Rotate(e) ==
  /\ To(e, "refresh")
  /\ \E s \in SessionIds, n \in 1..MaxTokens :
       /\ exchange[e].token = {<<s, n>>}
       /\ \/ /\ n = chain[s].latest /\ n < MaxTokens
             /\ chain[s].status = "live"
             /\ chain' = [chain EXCEPT ![s].latest = n + 1]
             /\ Answer(e, "granted", {<<s, n + 1>>})
          \/ /\ n < chain[s].latest \/ chain[s].status # "live"
             /\ chain' = IF n < chain[s].latest /\ chain[s].status = "live"
                         THEN [chain EXCEPT ![s].status = "reused"] ELSE chain
             /\ Answer(e, "refused", {})
  /\ UNCHANGED <<cookie, tab, call, mishaps>>

(* The session reaches its cap, or is revoked for a change of its member.   *)
EndSession(s) ==
  /\ chain[s].latest > 0 /\ chain[s].status = "live"
  /\ chain' = [chain EXCEPT ![s].status = "ended"]
  /\ UNCHANGED <<cookie, tab, call, exchange, mishaps>>

(* Too many requests, the Identity Service is down, or the network is.      *)
ExchangeFails(e, state) ==
  /\ e \in InFlight /\ exchange[e].state = "sent"
  /\ Answer(e, state, {})
  /\ UNCHANGED <<chain, cookie, tab, call, mishaps>>

(* The answer is lost after the Identity Service has acted.                 *)
AnswerLost(e) ==
  /\ e \in InFlight /\ exchange[e].state = "granted"
  /\ Answer(e, "unreachable", {})
  /\ Mishap(TRUE)
  /\ UNCHANGED <<chain, cookie, tab, call>>

-----------------------------------------------------------------------------
(* The answers.                                                             *)

Ended(e) == exchange' = [exchange EXCEPT ![e] = NoExchange]

Waiting(c, t) == call[c] # NoCall /\ call[c].tab = t /\ call[c].state = "waiting"

(* Mutant: only the caller that sent the refresh is told.                   *)
TellOne(t, c) ==
  Waiting(c, t) /\ c = CHOOSE d \in Calls : Waiting(d, t)

(* The callers that are told what came of the refresh of a page.            *)
Told(t, c) == Waiting(c, t)

(* The callers send their request once more.                                *)
Refreshed(t, s) ==
  /\ tab' = [tab EXCEPT ![t] =
       [screen |-> IF @.restoring THEN s ELSE @.screen, access |-> {s},
        refreshing |-> FALSE, restoring |-> FALSE]]
  /\ call' = [c \in Calls |-> IF Told(t, c) THEN [call[c] EXCEPT !.state = "resent"] ELSE call[c]]

(* Mutant: the member stays on the screen.                                  *)
NotRefreshedShown(t, answered) ==
  /\ tab' = [tab EXCEPT ![t] =
       [screen |-> IF @.restoring THEN "signin" ELSE @.screen,
        access |-> IF answered \/ \E c \in Calls : Told(t, c) THEN {} ELSE @.access,
        refreshing |-> FALSE, restoring |-> FALSE]]
  /\ call' = [c \in Calls |-> IF Told(t, c) THEN NoCall ELSE call[c]]

(* The callers give up and the page returns to signing in: onSessionLost.   *)
(* A refusal makes it forget its access token even if nobody called.        *)
NotRefreshed(t, answered) ==
  LET lost == \E c \in Calls : Told(t, c)
  IN  /\ tab' = [tab EXCEPT ![t] =
           [screen |-> IF @.restoring \/ lost THEN "signin" ELSE @.screen,
            access |-> IF answered \/ lost THEN {} ELSE @.access,
            refreshing |-> FALSE, restoring |-> FALSE]]
      /\ call' = [c \in Calls |-> IF Told(t, c) THEN NoCall ELSE call[c]]

(* The headers of a granted token set the cookie.                           *)
CookieSet(e) ==
  /\ e \in InFlight /\ exchange[e].state = "granted" /\ exchange[e].tab # Left
  /\ cookie' = exchange[e].token
  /\ exchange' = [exchange EXCEPT ![e].state = "body"]
  /\ UNCHANGED <<chain, tab, call, mishaps>>

(* A page that was left does not read the answer; the browser may have.     *)
LeftBehind(e) ==
  /\ e \in InFlight /\ exchange[e].tab = Left /\ exchange[e].state # "sent"
  /\ cookie' \in {cookie}
       \cup (IF exchange[e].state = "granted" THEN {exchange[e].token} ELSE {})
       \cup (IF exchange[e].state = "refused" THEN {{}} ELSE {})
  /\ Ended(e)
  /\ UNCHANGED <<chain, tab, call, mishaps>>

Arrived(e, kind, states) ==
  /\ e \in InFlight /\ exchange[e].kind = kind
  /\ exchange[e].tab # Left /\ exchange[e].state \in states

BodyRead(e) ==
  /\ Arrived(e, "refresh", {"body"})
  /\ \E token \in exchange[e].token : Refreshed(exchange[e].tab, token[1])
  /\ Ended(e)
  /\ UNCHANGED <<chain, cookie, mishaps>>

(* A refused refresh clears the cookie.                                     *)
RefreshRefused(e) ==
  /\ Arrived(e, "refresh", {"refused"})
  /\ NotRefreshed(exchange[e].tab, TRUE)
  /\ cookie' = {}
  /\ Ended(e)
  /\ UNCHANGED <<chain, mishaps>>

(* A failed one leaves it, answered or not.                                 *)
RefreshFailed(e) ==
  /\ Arrived(e, "refresh", {"failed", "unreachable"})
  /\ NotRefreshed(exchange[e].tab, exchange[e].state = "failed")
  /\ Ended(e)
  /\ UNCHANGED <<chain, cookie, mishaps>>

MemberSignedIn(e) ==
  /\ Arrived(e, "signin", {"body"})
  /\ \E token \in exchange[e].token :
       tab' = [tab EXCEPT ![exchange[e].tab].screen = token[1],
                          ![exchange[e].tab].access = {token[1]}]
  /\ Ended(e)
  /\ UNCHANGED <<chain, cookie, call, mishaps>>

SignInFailed(e) ==
  /\ Arrived(e, "signin", {"failed", "unreachable"})
  /\ Ended(e)
  /\ UNCHANGED <<chain, cookie, tab, call, mishaps>>

(* handleSignOut answers by itself.                                         *)
CookieCleared(e) ==
  /\ To(e, "signout")
  /\ cookie' = {}
  /\ Ended(e)
  /\ UNCHANGED <<chain, tab, call, mishaps>>

SignOutFailed(e) ==
  /\ Arrived(e, "signout", {"failed", "unreachable"})
  /\ Ended(e)
  /\ UNCHANGED <<chain, cookie, tab, call, mishaps>>

-----------------------------------------------------------------------------

ExchangeStep(e) ==
  \/ \E s \in SessionIds : StartSession(e, s)
  \/ NoSession(e) \/ Rotate(e)
  \/ \E state \in {"failed", "unreachable"} : ExchangeFails(e, state)
  \/ AnswerLost(e)
  \/ CookieSet(e) \/ LeftBehind(e)
  \/ BodyRead(e) \/ RefreshRefused(e) \/ RefreshFailed(e)
  \/ MemberSignedIn(e) \/ SignInFailed(e)
  \/ CookieCleared(e) \/ SignOutFailed(e)

Next ==
  \/ \E t \in Tabs :
       \/ \E e \in Exchanges : Load(t, e) \/ SignIn(t, e) \/ SignOut(t, e)
       \/ \E c \in Calls : Call(t, c)
  \/ \E c \in Calls : CallEnds(c) \/ \E e \in Exchanges : RefreshSession(c, e)
  \/ \E e \in Exchanges : ExchangeStep(e)
  \/ \E s \in SessionIds : EndSession(s)

Spec == Init /\ [][Next]_vars

-----------------------------------------------------------------------------
(* Properties.                                                              *)

(* "Two exchanges of the same token look like a stolen copy and end the     *)
(* session" (client.ts): without a mishap it never happens, however many    *)
(* calls find the access token expired, and whenever the page is reloaded.  *)
TokenUsedOnce == mishaps = 0 => \A s \in SessionIds : chain[s].status # "reused"

(* Without a mishap, a page calls the Gateway as the member it shows.       *)
CallsAsShown == mishaps = 0 => \A t \in Tabs : SignedIn(t) => tab[t].access = {tab[t].screen}

(* A call that waits for a refresh waits for one that is under way, so that *)
(* it is sent once more or given up when that ends, however it ends.        *)
NobodyIsForgotten ==
  \A c \in Calls : call[c] # NoCall /\ call[c].state = "waiting" =>
    \E e \in InFlight : IsRefreshOf(e, call[c].tab)

(* Once the cookie is cleared "no browser holds" the token "any more"       *)
(* (handleSignOut): the next one comes from signing in.  It does not hold:  *)
(* see v_sign_out_undone.cfg.                                               *)
SignedOutStays ==
  [][cookie = {} /\ cookie' # {} =>
       \E e \in InFlight : exchange[e].kind = "signin" /\ cookie' = exchange[e].token]_vars
=============================================================================
