-------------------------- MODULE SessionRotation --------------------------
(***************************************************************************)
(* How a browser stays signed in.  services/auth keeps a row per refresh   *)
(* token and replaces the token at every refresh, statement by statement,  *)
(* with no transaction; a token that comes a second time revokes all       *)
(* sessions of the user.  The page (apps/web) holds the access token, the  *)
(* browser the cookie with the refresh token.  A call that is refused      *)
(* starts a refresh, or waits for the one its HTTP client has in flight    *)
(* (lib/api/client.ts); a page that is loaded sends a refresh of its own   *)
(* (lib/api/auth-api.ts), whatever is in flight.                           *)
(*                                                                         *)
(* The minutes of an access token may be over whenever it is used, so that *)
(* the page either has one or has none.  Sign-in is one step, whatever the *)
(* factors; the lockout, device and audit data are left out.               *)
(***************************************************************************)
EXTENDS Naturals, FiniteSets

CONSTANTS
    Tokens,       \* identities of refresh tokens
    Other,        \* the token of the user's session on another device
    NoToken,      \* no token
    Clients,      \* the HTTP clients of the page, each with its own flag
    Page, Nobody, \* who else may wait for a refresh: a loading page, or nobody
    Refreshes,    \* bounds the refreshes in flight
    Calls,        \* API calls that can be in progress
    MayReload,    \* whether the page is ever loaded again
    MaxTroubles   \* bounds faults and overlaps together

ASSUME SessionRotationAssumption ==
    /\ Other \notin Tokens /\ NoToken \notin Tokens \cup {Other}
    /\ Page \notin Clients /\ Nobody \notin Clients \cup {Page}
    /\ IsFiniteSet(Tokens) /\ IsFiniteSet(Refreshes)
    /\ MayReload \in BOOLEAN
    /\ MaxTroubles \in Nat

VARIABLES
    row,      \* per token, its row: none, live, revoked or lapsed
    cookie,   \* the refresh token the browser holds
    access,   \* the page holds an access token
    refresh,  \* the refreshes: where they are, for whom, old and new token
    call,     \* per call, where it is and its client
    signout,  \* where a sign-out is, and the cookie it was sent with
    faults,   \* lost answers, refusals of a new token and sign-outs (history)
    overlaps  \* starts during a refresh of somebody else (history)

vars == <<row, cookie, access, refresh, call, signout, faults, overlaps>>

-----------------------------------------------------------------------------
NoRefresh == [pc |-> "idle", by |-> Nobody, old |-> NoToken, new |-> NoToken]
NoSignOut == [pc |-> "idle", token |-> NoToken]
NoCall    == [pc |-> "idle", via |-> Nobody]

InFlight  == {x \in Refreshes : refresh[x].pc # "idle"}
Serving   == {x \in Refreshes : refresh[x].pc \in {"sent", "read", "reuse", "inserted"}}
Free      == Refreshes \ InFlight
Slot      == CHOOSE x \in Free : TRUE

(* The identity of a token serves again when nobody holds the token and its  *)
(* row is not live: no request can then tell that row from none.             *)
Held   == {cookie, signout.token} \cup {refresh[x].old : x \in InFlight}
                                 \cup {refresh[x].new : x \in InFlight}
Unused == {t \in Tokens \ Held : row[t] # "live"}
Fresh  == CHOOSE t \in Unused : TRUE

(* Variants of the definitions below, each with a mistake the code avoids.   *)
NeverBusy(cl)    == FALSE
OldStays(x)      == row
LeaveWaiting(cl) == call

(* isRefreshing, coreRefreshing.                                             *)
Busy(cl) == \E x \in InFlight : refresh[x].by = cl

(* stored_token.save() with revoked set.                                     *)
OldRevoked(x) == [row EXCEPT ![refresh[x].old] = "revoked"]

(* _revoke_all_user_tokens, whether they have expired or not.                *)
AllRevoked == [t \in DOMAIN row |-> IF row[t] \in {"live", "lapsed"} THEN "revoked" ELSE row[t]]

(* processQueue: the calls that waited are sent again with the new token,    *)
(* once, or rejected.                                                        *)
Settled(cl) == [c \in Calls |->
    IF call[c].pc = "waiting" /\ call[c].via = cl THEN NoCall ELSE call[c]]
Rejected(cl) == Settled(cl)

Bound  == faults + overlaps < MaxTroubles
Fault  == Bound /\ faults' = faults + 1

(* A refresh, a sign-in or a load of the page starts while refreshes are in  *)
(* flight that it takes no account of.                                       *)
Overlap(others) ==
    \/ others = {} /\ UNCHANGED overlaps
    \/ others # {} /\ Bound /\ overlaps' = overlaps + 1

-----------------------------------------------------------------------------
Init ==
    /\ row = [t \in Tokens \cup {Other} |-> IF t = Other THEN "live" ELSE "none"]
    /\ cookie = NoToken /\ access = FALSE
    /\ refresh = [x \in Refreshes |-> NoRefresh]
    /\ call = [c \in Calls |-> NoCall]
    /\ signout = NoSignOut
    /\ faults = 0 /\ overlaps = 0

(* generate_tokens swallows a failure to store the row: the token is handed  *)
(* out and no row will be found for it.                                      *)
Store(t) == row' \in {[row EXCEPT ![t] = "live"], [row EXCEPT ![t] = "none"]}

(* Bound: there is a token for every refresh that has read its row.          *)
Spare == Cardinality(Unused) > Cardinality({x \in Refreshes : refresh[x].pc = "read"})

SignIn ==
    /\ Spare
    /\ ~access /\ signout.pc \in {"idle", "cut"}
    /\ Store(Fresh) /\ cookie' = Fresh /\ access' = TRUE
    /\ Overlap(InFlight)
    /\ UNCHANGED <<refresh, call, signout, faults>>

-----------------------------------------------------------------------------
Send(c, cl) ==
    /\ call[c] = NoCall
    /\ call' = [call EXCEPT ![c] = [pc |-> "sent", via |-> cl]]
    /\ UNCHANGED <<row, cookie, access, refresh, signout, faults, overlaps>>

Served(c) ==
    /\ call[c].pc = "sent"
    /\ call' = [call EXCEPT ![c] = NoCall]
    /\ UNCHANGED <<row, cookie, access, refresh, signout, faults, overlaps>>

(* The browser adds the cookie it holds when the refresh is sent.            *)
Asking(by) == [pc |-> "sent", by |-> by, old |-> cookie, new |-> NoToken]

(* 401: wait for the refresh in flight, or start one.                        *)
Refused(c) ==
    LET cl == call[c].via
    IN /\ call[c].pc = "sent"
       /\ call' = [call EXCEPT ![c].pc = "waiting"]
       /\ \/ Busy(cl) /\ UNCHANGED <<refresh, overlaps>>
          \/ /\ ~Busy(cl) /\ Free # {}
             /\ refresh' = [refresh EXCEPT ![Slot] = Asking(cl)]
             /\ Overlap({x \in InFlight : refresh[x].by # cl})
       /\ UNCHANGED <<row, cookie, access, signout, faults>>

-----------------------------------------------------------------------------
(* POST /refresh: validate_and_rotate looks for an unrevoked row, and if     *)
(* there is none, for a revoked one; a row it finds may have expired.        *)
Look(x) ==
    LET t    == refresh[x].old
        Found(pc) == refresh' = [refresh EXCEPT ![x].pc = pc]
    IN /\ refresh[x].pc = "sent"
       /\ \/ t # NoToken /\ row[t] = "live" /\ Spare /\ Found("read") /\ UNCHANGED row
          \/ t # NoToken /\ row[t] = "live" /\ Found("refused") /\ row' = [row EXCEPT ![t] = "lapsed"]
          \/ t # NoToken /\ row[t] = "revoked" /\ Found("reuse") /\ UNCHANGED row
          \/ t = NoToken /\ Found("refused") /\ UNCHANGED row
          \/ t # NoToken /\ row[t] \notin {"live", "revoked"} /\ Found("refused") /\ UNCHANGED row
       /\ UNCHANGED <<cookie, access, call, signout, faults, overlaps>>

RevokeAll(x) ==
    /\ refresh[x].pc = "reuse"
    /\ row' = AllRevoked
    /\ refresh' = [refresh EXCEPT ![x].pc = "refused"]
    /\ UNCHANGED <<cookie, access, call, signout, faults, overlaps>>

Insert(x) ==
    /\ refresh[x].pc = "read"
    /\ Store(Fresh)
    /\ refresh' = [refresh EXCEPT ![x].pc = "inserted", ![x].new = Fresh]
    /\ UNCHANGED <<cookie, access, call, signout, faults, overlaps>>

Revoke(x) ==
    /\ refresh[x].pc = "inserted"
    /\ row' = OldRevoked(x)
    /\ refresh' = [refresh EXCEPT ![x].pc = "granted"]
    /\ UNCHANGED <<cookie, access, call, signout, faults, overlaps>>

(* The answer brings the cookie and the access token.                        *)
Granted(x) ==
    /\ refresh[x].pc = "granted" /\ refresh[x].by # Nobody
    /\ cookie' = refresh[x].new /\ access' = TRUE
    /\ refresh' = [refresh EXCEPT ![x] = NoRefresh]
    /\ call' = Settled(refresh[x].by)
    /\ UNCHANGED <<row, signout, faults, overlaps>>

(* A refresh that brings nothing ends in clearAuth, and the cookie stays.  A *)
(* loading page goes on with the access token it finds stored, if any.       *)
Fails(by) ==
    /\ access' \in IF by = Page THEN BOOLEAN ELSE {FALSE}
    /\ call' = Rejected(by)

Denied(x) ==
    /\ refresh[x].pc = "refused" /\ refresh[x].by # Nobody
    /\ refresh' = [refresh EXCEPT ![x] = NoRefresh]
    /\ Fails(refresh[x].by)
    /\ UNCHANGED <<row, cookie, signout, faults, overlaps>>

(* The answer to a refresh nobody waits for any more goes nowhere.           *)
Ignored(x) ==
    /\ refresh[x].pc \in {"granted", "refused"} /\ refresh[x].by = Nobody
    /\ refresh' = [refresh EXCEPT ![x] = NoRefresh]
    /\ UNCHANGED <<row, cookie, access, call, signout, faults, overlaps>>

(* The request or its answer is lost, or the service dies between two of its *)
(* statements.                                                               *)
Lost(x) ==
    /\ x \in InFlight /\ Fault
    /\ refresh' = [refresh EXCEPT ![x] = NoRefresh]
    /\ IF refresh[x].by = Nobody THEN UNCHANGED <<access, call>> ELSE Fails(refresh[x].by)
    /\ UNCHANGED <<row, cookie, signout, overlaps>>

(* The page gives up waiting for an answer that the service is still at.     *)
TimesOut(x) ==
    /\ x \in Serving /\ refresh[x].by # Nobody /\ Fault
    /\ refresh' = [refresh EXCEPT ![x].by = Nobody]
    /\ Fails(refresh[x].by)
    /\ UNCHANGED <<row, cookie, signout, overlaps>>

-----------------------------------------------------------------------------
(* The page is loaded again, at any moment: its calls and its clients are    *)
(* gone, what the service has been sent it goes on with, and refreshSession  *)
(* sends a refresh.                                                          *)
Reload ==
    LET left == [x \in Refreshes |->
                    IF x \in Serving THEN [refresh[x] EXCEPT !.by = Nobody] ELSE NoRefresh]
    IN /\ MayReload /\ Free # {}
       /\ refresh' = [left EXCEPT ![Slot] = Asking(Page)]
       /\ call' = [c \in Calls |-> NoCall]
       /\ signout' = IF signout.pc \in {"sent", "cut"} THEN [signout EXCEPT !.pc = "cut"] ELSE NoSignOut
       /\ Overlap(InFlight)
       /\ UNCHANGED <<row, cookie, access, faults>>

(* The new access token is refused as well, or getCurrentUser of a loaded    *)
(* page fails: clearAuth.                                                    *)
Cleared ==
    /\ access /\ Fault
    /\ access' = FALSE
    /\ UNCHANGED <<row, cookie, refresh, call, signout, overlaps>>

(* POST /logout: the row of the cookie is revoked, the answer clears it.     *)
SignOut ==
    /\ access /\ signout.pc = "idle"
    /\ Fault
    /\ signout' = [pc |-> "sent", token |-> cookie]
    /\ UNCHANGED <<row, cookie, access, refresh, call, overlaps>>

SignOutRevoke ==
    /\ signout.pc \in {"sent", "cut"}
    /\ row' = IF signout.token # NoToken /\ row[signout.token] \in {"live", "lapsed"}
                THEN [row EXCEPT ![signout.token] = "revoked"] ELSE row
    /\ signout' = IF signout.pc = "sent" THEN [signout EXCEPT !.pc = "revoked"] ELSE NoSignOut
    /\ UNCHANGED <<cookie, access, refresh, call, faults, overlaps>>

SignOutAnswer ==
    /\ signout.pc = "revoked"
    /\ cookie' = NoToken /\ access' = FALSE
    /\ signout' = NoSignOut
    /\ UNCHANGED <<row, refresh, call, faults, overlaps>>

(* No answer: logout clears the page all the same.                           *)
SignOutLost ==
    /\ signout.pc \in {"sent", "revoked"}
    /\ access' = FALSE
    /\ signout' = IF signout.pc = "sent" THEN [signout EXCEPT !.pc = "cut"] ELSE NoSignOut
    /\ UNCHANGED <<row, cookie, refresh, call, faults, overlaps>>

-----------------------------------------------------------------------------
RefreshStep(x) ==
    \/ Look(x) \/ RevokeAll(x) \/ Insert(x) \/ Revoke(x)
    \/ Granted(x) \/ Denied(x) \/ Ignored(x)

Answer(c) == Served(c) \/ Refused(c)

Next ==
    \/ SignIn \/ Reload \/ Cleared
    \/ SignOut \/ SignOutRevoke \/ SignOutAnswer \/ SignOutLost
    \/ \E c \in Calls : Answer(c) \/ \E cl \in Clients : Send(c, cl)
    \/ \E x \in Refreshes : RefreshStep(x) \/ Lost(x) \/ TimesOut(x)

Spec == Init /\ [][Next]_vars

(* The service answers what it gets, and the page handles each answer; a     *)
(* refresh that is lost counts as handled by the timeout of the page.        *)
FairSpec ==
    /\ Spec
    /\ \A c \in Calls : WF_vars(Answer(c))
    /\ \A x \in Refreshes : WF_vars(RefreshStep(x))

-----------------------------------------------------------------------------
(* Rows, requests and calls are of their kinds, and isRefreshing and         *)
(* coreRefreshing do their work: a client has one refresh in flight at most. *)
TypeOK ==
    /\ row \in [Tokens \cup {Other} -> {"none", "live", "revoked", "lapsed"}]
    /\ cookie \in Tokens \cup {NoToken}
    /\ access \in BOOLEAN
    /\ refresh \in [Refreshes -> [pc : {"idle", "sent", "read", "reuse", "inserted",
                                       "granted", "refused"},
                                 by : Clients \cup {Page, Nobody},
                                 old : Tokens \cup {NoToken}, new : Tokens \cup {NoToken}]]
    /\ \A x, y \in InFlight : refresh[x].by = refresh[y].by /\ refresh[x].by \in Clients => x = y
    /\ call \in [Calls -> [pc : {"idle", "sent", "waiting"}, via : Clients \cup {Nobody}]]
    /\ signout \in [pc : {"idle", "sent", "revoked", "cut"}, token : Tokens \cup {NoToken}]
    /\ faults \in Nat /\ overlaps \in Nat /\ faults + overlaps <= MaxTroubles

(* The user's session on another device ends only when a refresh presents a  *)
(* token a second time.  Calls, refreshes, expiries, sign-ins and reloads    *)
(* do not do that one after the other, however many calls are refused at     *)
(* once: it takes a lost answer, a sign-out, or two parties (the clients,    *)
(* the page before and after a reload) that refresh at the same time.        *)
OtherDeviceStaysIn == faults = 0 /\ overlaps = 0 => row[Other] = "live"

(* Live sessions the browser has lost hold of: neither its cookie nor a      *)
(* refresh in flight knows them.                                             *)
Strays ==
    {t \in Tokens : /\ row[t] = "live" /\ t # cookie
                    /\ \A x \in InFlight : t \notin {refresh[x].old, refresh[x].new}}

(* A browser loses hold of at most one session for every refresh, sign-in or *)
(* reload that overlaps a refresh in flight, and of two for every lost       *)
(* answer, timeout or sign-out, however they interleave with the statements  *)
(* of the service; of none, if there are none of these.                      *)
StraysAreBounded == Cardinality(Strays) <= overlaps + 2 * faults

(* Every call ends: it is served, sent again after a refresh, or rejected,   *)
(* also when the refresh it waits for is refused or its answer is lost.      *)
CallsEnd == \A c \in Calls : call[c].pc # "idle" ~> call[c].pc = "idle"

(* "Token refresh with dedup" of client.ts, taken at its word: a page that   *)
(* is not reloaded, and loses no answer, ends nobody's session.              *)
DedupKeepsSessions == ~MayReload /\ faults = 0 => row[Other] = "live"
=============================================================================
