------------------------------- MODULE AuthShell -------------------------------
(***************************************************************************)
(* Who is signed in: checkAuth and handleLogout of components/Layout.tsx,  *)
(* LoginPage.tsx, and the commands login, logout, reauth and call_api of   *)
(* src-tauri/src/commands.rs, which share the token file and the cached    *)
(* password.  A check runs whenever the window is shown or focused, beside *)
(* the others and beside the calls of the pages.                           *)
(***************************************************************************)
EXTENDS Naturals

CONSTANTS Checks,     \* checkAuth runs at once
          ApiCalls,   \* other backend calls at once
          MaxTurns    \* bound: sign-ins, sign-outs, expiries and outages

ASSUME AuthAssumption == MaxTurns \in Nat /\ Checks \cap ApiCalls = {}

VARIABLES
    wallet,       \* the keyfile: plain or locked by a password
    token,        \* the token file, as the backend sees it
    cachedPassword,   \* WALLET_PASSWORD is set
    isAuth, walletLoaded,
    call,         \* where each check and each call stands
    login, logout,
    online,
    turns

authVars == <<wallet, token, cachedPassword, isAuth, walletLoaded, call, login, logout,
              online, turns>>
secretVars == <<wallet, token, cachedPassword>>

AuthInit ==
    /\ wallet \in {"plain", "locked"}
    /\ token \in {"none", "valid", "expired"}
    /\ cachedPassword = FALSE
    /\ isAuth = FALSE /\ walletLoaded = FALSE
    /\ call = [c \in Checks \cup ApiCalls |-> "idle"]
    /\ login = "idle" /\ logout = "idle"
    /\ online = TRUE
    /\ turns = 0

Turn == turns < MaxTurns /\ turns' = turns + 1
Goes(c, at) == call' = [call EXCEPT ![c] = at]

\* The empty password opens a plain wallet only.
Opens == wallet = "plain" \/ cachedPassword

-----------------------------------------------------------------------------
(* call_api, in which get_balance of a check and the calls of pages fail   *)
(* once without a user noticing.                                           *)

CheckAuth(c) ==
    /\ c \in Checks /\ call[c] = "idle"
    /\ Goes(c, "info")
    /\ UNCHANGED <<secretVars, isAuth, walletLoaded, login, logout, online, turns>>

\* A page's call; without a token it fails at once.
CallApi(c) ==
    /\ c \in ApiCalls /\ call[c] = "idle" /\ token # "none"
    /\ Goes(c, "call")
    /\ UNCHANGED <<secretVars, isAuth, walletLoaded, login, logout, online, turns>>

WalletInfo(c) ==
    /\ call[c] = "info"
    /\ walletLoaded' = TRUE
    /\ Goes(c, IF token = "none" THEN "login" ELSE "call")
    /\ UNCHANGED <<secretVars, isAuth, login, logout, online, turns>>

Succeeds(c) ==
    /\ call[c] \in {"call", "retry"}
    /\ token = "valid" /\ online
    /\ Goes(c, "idle")
    /\ isAuth' = (isAuth \/ c \in Checks)
    /\ UNCHANGED <<secretVars, walletLoaded, login, logout, online, turns>>

FailsOnce(c) ==
    /\ call[c] = "call"
    /\ token # "valid" \/ ~online
    /\ Goes(c, IF Opens THEN "reauth" ELSE IF c \in Checks THEN "login" ELSE "idle")
    /\ UNCHANGED <<secretVars, isAuth, walletLoaded, login, logout, online, turns>>

\* The wallet was opened before the backend was asked: a logout meanwhile does
\* not keep the token from being saved.
Reauth(c) ==
    /\ call[c] = "reauth" /\ online
    /\ token' = "valid"
    /\ Goes(c, "retry")
    /\ UNCHANGED <<wallet, cachedPassword, isAuth, walletLoaded, login, logout, online, turns>>

FailsAgain(c) ==
    /\ \/ call[c] = "reauth" /\ ~online
       \/ call[c] = "retry" /\ (token # "valid" \/ ~online)
    /\ Goes(c, IF c \in Checks THEN "login" ELSE "idle")
    /\ UNCHANGED <<secretVars, isAuth, walletLoaded, login, logout, online, turns>>

\* The second try of a check, with the empty password.
AutoLogin(c) ==
    /\ call[c] = "login" /\ wallet = "plain" /\ online
    /\ token' = "valid" /\ cachedPassword' = FALSE
    /\ isAuth' = TRUE
    /\ Goes(c, "idle")
    /\ UNCHANGED <<wallet, walletLoaded, login, logout, online, turns>>

\* Mutant: a check that fails leaves the flag as it is.
NoSession_Kept(c) ==
    /\ call[c] = "login" /\ (wallet = "locked" \/ ~online)
    /\ Goes(c, "idle")
    /\ UNCHANGED <<secretVars, isAuth, walletLoaded, login, logout, online, turns>>

NoSession(c) ==
    /\ call[c] = "login" /\ (wallet = "locked" \/ ~online)
    /\ isAuth' = FALSE
    /\ Goes(c, "idle")
    /\ UNCHANGED <<secretVars, walletLoaded, login, logout, online, turns>>

-----------------------------------------------------------------------------
(* The login page and the logout.                                          *)

HandleLogin ==
    /\ ~isAuth /\ walletLoaded /\ login = "idle"
    /\ Turn /\ login' = "asked"
    /\ UNCHANGED <<secretVars, isAuth, walletLoaded, call, logout, online>>

\* The password is right.
LoggedIn ==
    /\ login = "asked" /\ online
    /\ login' = "idle"
    /\ token' = "valid" /\ cachedPassword' = (wallet = "locked")
    /\ isAuth' = TRUE
    /\ UNCHANGED <<wallet, walletLoaded, call, logout, online, turns>>

LoginFails ==
    /\ login = "asked" /\ login' = "idle"
    /\ UNCHANGED <<secretVars, isAuth, walletLoaded, call, logout, online, turns>>

\* The seller is stopped and the sessions are closed first: calls like any other.
HandleLogout ==
    /\ isAuth /\ logout = "idle"
    /\ Turn /\ logout' = "closing"
    /\ UNCHANGED <<secretVars, isAuth, walletLoaded, call, login, online>>

Logout ==
    /\ logout = "closing" /\ logout' = "done"
    /\ token' = "none" /\ cachedPassword' = FALSE
    /\ UNCHANGED <<wallet, isAuth, walletLoaded, call, login, online, turns>>

LogoutReturns ==
    /\ logout = "done" /\ logout' = "idle"
    /\ isAuth' = FALSE
    /\ UNCHANGED <<secretVars, walletLoaded, call, login, online, turns>>

-----------------------------------------------------------------------------
(* The backend.                                                            *)

Expires ==
    /\ token = "valid" /\ Turn
    /\ token' = "expired"
    /\ UNCHANGED <<wallet, cachedPassword, isAuth, walletLoaded, call, login, logout, online>>

GoesOffline ==
    /\ online /\ Turn /\ online' = FALSE
    /\ UNCHANGED <<secretVars, isAuth, walletLoaded, call, login, logout>>

ComesOnline ==
    /\ ~online /\ online' = TRUE
    /\ UNCHANGED <<secretVars, isAuth, walletLoaded, call, login, logout, turns>>

AuthNext ==
    \/ \E c \in Checks \cup ApiCalls :
         \/ CheckAuth(c) \/ CallApi(c) \/ WalletInfo(c) \/ Succeeds(c) \/ FailsOnce(c)
         \/ Reauth(c) \/ FailsAgain(c) \/ AutoLogin(c) \/ NoSession(c)
    \/ HandleLogin \/ LoggedIn \/ LoginFails
    \/ HandleLogout \/ Logout \/ LogoutReturns
    \/ Expires \/ GoesOffline \/ ComesOnline

AuthTypeOK ==
    /\ wallet \in {"plain", "locked"} /\ token \in {"none", "valid", "expired"}
    /\ {cachedPassword, isAuth, walletLoaded, online} \subseteq BOOLEAN
    /\ call \in [Checks \cup ApiCalls ->
                   {"idle", "info", "call", "reauth", "retry", "login"}]
    /\ \A c \in ApiCalls : call[c] \notin {"info", "login"}
    /\ login \in {"idle", "asked"} /\ logout \in {"idle", "closing", "done"}
    /\ turns \in 0..MaxTurns

\* The window says the user is signed in exactly when there is a good token.
AuthAgrees == isAuth <=> token = "valid"
=============================================================================
