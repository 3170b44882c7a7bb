-------------------------------- MODULE Sessions --------------------------------
(***************************************************************************)
(* The administrator's sessions and the guest account: login, logout, the  *)
(* check in front of every protected route, the cleanup of old rows and    *)
(* the editing of the guest account, with a store that may be unavailable. *)
(* A cookie is a signed copy of its claims that a client may keep and send *)
(* for ever; the row in the store is what revokes it.  The static API key, *)
(* which is not a session, is left out.                                    *)
(***************************************************************************)
EXTENDS Integers, FiniteSets

CONSTANTS
    Session,        \* admin sessions, one per login
    TTL,            \* adminSessionTTL
    KeepRows,       \* age at which CleanupExpiredAdminSessions takes a row
    MaxTime         \* bound on the clock

SessionAssumption == TTL \in Nat

VARIABLES
    rows,           \* admin_sessions: expiry and revocation per session
    cookie,         \* expiry in the claims a client holds, per session
    guest,          \* guest account: "none", "disabled" or "enabled"
    guestCookie,    \* expiry of a guest's claims
    edit,           \* what a PUT on the guest account has loaded
    up,             \* the store answers
    leaving,        \* sessions whose logout has passed RequireAuthFunc
    loggedOut,      \* sessions whose logout was answered with success
    last,           \* the request that was admitted last
    now

vars == <<rows, cookie, guest, guestCookie, edit, up, leaving, loggedOut, last, now>>

Never == -1
NoRow == [expires |-> Never, revoked |-> Never]
Nobody == [role |-> "none", session |-> "none", route |-> "any", mutates |-> FALSE, turn |-> 0]

(* RouteAuth: AuthAny, AuthAdminMutation, AuthAdmin.                        *)
Routes == {"any", "admin-mutation", "admin"}

(* A request that passed; the turn tells it from an equal one before it.    *)
Admitted(role, session, route, mutates) ==
    last' = [role |-> role, session |-> session, route |-> route, mutates |-> mutates,
             turn |-> 1 - last.turn]

Init ==
    /\ rows = [s \in Session |-> NoRow]
    /\ cookie = [s \in Session |-> Never]
    /\ guest = "none" /\ guestCookie = Never /\ edit = "none"
    /\ up = TRUE
    /\ leaving = {} /\ loggedOut = {} /\ last = Nobody
    /\ now = 0

(* CleanupExpiredAdminSessions: a bounded batch of these.                   *)
Old == {s \in Session :
          \/ rows[s].expires <= now - KeepRows
          \/ rows[s].revoked # Never /\ rows[s].revoked <= now - KeepRows}

(* AuthLoginHandler, right password: the row first; without it no cookie.   *)
(* The cleanup that follows is opportunistic.                               *)
Login(s) ==
    /\ up /\ cookie[s] = Never
    /\ \E gone \in SUBSET Old :
         rows' = [x \in Session |->
                    IF x = s THEN [expires |-> now + TTL, revoked |-> Never]
                    ELSE IF x \in gone THEN NoRow ELSE rows[x]]
    /\ cookie' = [cookie EXCEPT ![s] = now + TTL]
    /\ UNCHANGED <<guest, guestCookie, edit, up, leaving, loggedOut, last, now>>

(* The store's own retention sweep.                                         *)
Cleanup ==
    /\ up
    /\ \E gone \in SUBSET Old :
         rows' = [s \in Session |-> IF s \in gone THEN NoRow ELSE rows[s]]
    /\ UNCHANGED <<cookie, guest, guestCookie, edit, up, leaving, loggedOut, last, now>>

LoginGuest ==
    /\ up /\ guest = "enabled"
    /\ guestCookie' = now + TTL
    /\ UNCHANGED <<rows, cookie, guest, edit, up, leaving, loggedOut, last, now>>

AdminSessionActive(s) ==
    rows[s] # NoRow /\ rows[s].revoked = Never /\ rows[s].expires > now

(* RequireAuthFunc with an administrator's cookie: claims, row, CSRF.  No   *)
(* route refuses an administrator.                                          *)
AdmitAdmin(s, route, mutates) ==
    /\ cookie[s] # Never /\ now <= cookie[s]
    /\ up /\ AdminSessionActive(s)
    /\ Admitted("admin", s, route, mutates)
    /\ UNCHANGED <<rows, cookie, guest, guestCookie, edit, up, leaving, loggedOut, now>>

(* RequireAdminFunc and RequireAdminForMutationFunc; a route that is only   *)
(* AuthAny takes a guest's POST too, once it passed the CSRF check.         *)
GuestMay(route, mutates) ==
    \/ route = "any"
    \/ route = "admin-mutation" /\ ~mutates

(* RequireAuthFunc with a guest's cookie, ensureGuestSessionActive.  A      *)
(* guest's logout is such a request: it is answered with success and        *)
(* revokes nothing.                                                         *)
AdmitGuest(route, mutates) ==
    /\ guestCookie # Never /\ now <= guestCookie
    /\ up /\ guest = "enabled" /\ GuestMay(route, mutates)
    /\ Admitted("guest", "none", route, mutates)
    /\ UNCHANGED <<rows, cookie, guest, guestCookie, edit, up, leaving, loggedOut, now>>

(* POST /v1/auth/logout is AuthAny: the session is checked first.           *)
BeginLogout(s) ==
    /\ cookie[s] # Never /\ now <= cookie[s]
    /\ up /\ AdminSessionActive(s)
    /\ Admitted("admin", s, "any", TRUE)
    /\ leaving' = leaving \cup {s}
    /\ UNCHANGED <<rows, cookie, guest, guestCookie, edit, up, loggedOut, now>>

(* Mutant: logout is answered although the store could not be told.         *)
CanLogoutAnyway == TRUE

CanLogout == up

(* AuthLogoutHandler: the row is revoked before success is reported; any    *)
(* client may keep a copy of the cookie.                                    *)
Revoke(s) ==
    /\ s \in leaving /\ now <= cookie[s] /\ CanLogout
    /\ rows' = IF up /\ rows[s] # NoRow /\ rows[s].revoked = Never
                 THEN [rows EXCEPT ![s].revoked = now] ELSE rows
    /\ leaving' = leaving \ {s} /\ loggedOut' = loggedOut \cup {s}
    /\ UNCHANGED <<cookie, guest, guestCookie, edit, up, last, now>>

(* Claims that expired since the check are not looked up: success.          *)
LogoutExpired(s) ==
    /\ s \in leaving /\ now > cookie[s]
    /\ leaving' = leaving \ {s} /\ loggedOut' = loggedOut \cup {s}
    /\ UNCHANGED <<rows, cookie, guest, guestCookie, edit, up, last, now>>

(* 503: the cookie stays, to be logged out another time.                    *)
LogoutFails(s) ==
    /\ s \in leaving /\ now <= cookie[s] /\ ~up
    /\ leaving' = leaving \ {s}
    /\ UNCHANGED <<rows, cookie, guest, guestCookie, edit, up, loggedOut, last, now>>

(* GuestAccessHandler: POST and DELETE write at once, PUT loads and then    *)
(* saves what it loaded with its changes.                                   *)
SaveGuest(status) ==
    /\ up /\ guest' = status
    /\ UNCHANGED <<rows, cookie, guestCookie, edit, up, leaving, loggedOut, last, now>>

LoadGuest ==
    /\ up /\ guest # "none" /\ edit = "none"
    /\ edit' = guest
    /\ UNCHANGED <<rows, cookie, guest, guestCookie, up, leaving, loggedOut, last, now>>

PutGuest(status) ==
    /\ up /\ edit # "none" /\ status \in {edit, "enabled", "disabled"}
    /\ guest' = status /\ edit' = "none"
    /\ UNCHANGED <<rows, cookie, guestCookie, up, leaving, loggedOut, last, now>>

Toggle ==
    /\ up' = ~up
    /\ UNCHANGED <<rows, cookie, guest, guestCookie, edit, leaving, loggedOut, last, now>>

Tick ==
    /\ now < MaxTime
    /\ now' = now + 1
    /\ UNCHANGED <<rows, cookie, guest, guestCookie, edit, up, leaving, loggedOut, last>>

Next ==
    \/ \E s \in Session :
         \/ Login(s) \/ BeginLogout(s) \/ Revoke(s) \/ LogoutExpired(s) \/ LogoutFails(s)
         \/ \E route \in Routes, m \in BOOLEAN : AdmitAdmin(s, route, m)
    \/ Cleanup
    \/ LoginGuest \/ LoadGuest
    \/ \E route \in Routes, m \in BOOLEAN : AdmitGuest(route, m)
    \/ \E status \in {"none", "disabled", "enabled"} : SaveGuest(status) \/ PutGuest(status)
    \/ Toggle \/ Tick

Spec == Init /\ [][Next]_vars

-----------------------------------------------------------------------------
(* Properties.                                                              *)

(* Logout is final for every copy of the cookie: after it was answered with *)
(* success no request of the session is admitted again, and none after the  *)
(* session expired, across outages of the store, the cleanup of rows and    *)
(* logouts of the same session that overlap.  And on every route that is    *)
(* not open to any session, whoever is admitted for a change is an          *)
(* administrator, also while the guest account is edited.                   *)
AdmitsOnlyLive ==
    last' # last =>
        /\ last'.role = "admin" => last'.session \notin loggedOut /\ now <= cookie[last'.session]
        /\ last'.route = "admin" \/ (last'.route # "any" /\ last'.mutates)
             => last'.role = "admin"

LogoutIsFinal == [][AdmitsOnlyLive]_vars

(* What the requirements say of the guest account: every mutation it        *)
(* attempts is refused.  The routes that are AuthAny and take a POST, the   *)
(* label of a URL among them, refute it.                                    *)
GuestsChangeNothing == last.mutates => last.role = "admin"
=============================================================================
