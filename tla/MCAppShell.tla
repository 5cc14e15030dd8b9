------------------------------ MODULE MCAppShell ------------------------------
(***************************************************************************)
(* TLC instance of the application's parts that share no state with the    *)
(* desktop tunnel, the bridges or each other: one run checks them all, the *)
(* window's and Android's.  A behaviour is one                             *)
(* part's, that of focus, while the others stand still: as no action of a  *)
(* part reads another's variables, interleaving them would add states and  *)
(* no behaviour of any part.                                               *)
(***************************************************************************)
EXTENDS EventStream, PriceList, Updater, Deposits, Language, AuthShell, Wallet,
        SellerLifecycle, AndroidVpn, ComplementRoutes

VARIABLE focus   \* the part that moves

vars == <<focus, sseVars, priceVars, updaterVars, depositVars, languageVars, authVars,
          walletVars, sellerVars, vpnVars, routesVars>>

\* A part that stands still starts in one of its initial states.
Init ==
    /\ focus \in {"stream", "prices", "updater", "deposits", "language", "auth", "wallet",
                  "seller", "vpn", "routes"}
    /\ SseInit /\ PriceInit /\ UpdaterInit /\ DepositsInit /\ LanguageInit /\ AuthInit
    /\ WalletInit /\ SellerInit /\ VpnInit /\ RoutesInit
    /\ focus = "language" \/ storage
    /\ focus = "auth" \/ (wallet = "plain" /\ token = "none")
    /\ focus = "wallet" \/ keyfile = 0
    /\ focus = "vpn" \/ consent

androidVars == <<vpnVars, routesVars>>
windowVars == <<sseVars, priceVars, updaterVars, depositVars, languageVars, authVars,
                walletVars, sellerVars>>

StreamMoves == focus = "stream" /\ SseNext /\ UNCHANGED
    <<focus, priceVars, updaterVars, depositVars, languageVars, authVars, walletVars, sellerVars,
     androidVars>>
PricesMove == focus = "prices" /\ PriceNext /\ UNCHANGED
    <<focus, sseVars, updaterVars, depositVars, languageVars, authVars, walletVars, sellerVars,
     androidVars>>
UpdaterMoves == focus = "updater" /\ UpdaterNext /\ UNCHANGED
    <<focus, sseVars, priceVars, depositVars, languageVars, authVars, walletVars, sellerVars,
     androidVars>>
DepositsMove == focus = "deposits" /\ DepositsNext /\ UNCHANGED
    <<focus, sseVars, priceVars, updaterVars, languageVars, authVars, walletVars, sellerVars,
     androidVars>>
LanguageMoves == focus = "language" /\ LanguageNext /\ UNCHANGED
    <<focus, sseVars, priceVars, updaterVars, depositVars, authVars, walletVars, sellerVars,
     androidVars>>
AuthMoves == focus = "auth" /\ AuthNext /\ UNCHANGED
    <<focus, sseVars, priceVars, updaterVars, depositVars, languageVars, walletVars, sellerVars,
     androidVars>>
WalletMoves == focus = "wallet" /\ WalletNext /\ UNCHANGED
    <<focus, sseVars, priceVars, updaterVars, depositVars, languageVars, authVars, sellerVars,
     androidVars>>
SellerMoves == focus = "seller" /\ SellerNext /\ UNCHANGED
    <<focus, sseVars, priceVars, updaterVars, depositVars, languageVars, authVars, walletVars,
     androidVars>>
VpnMoves == focus = "vpn" /\ VpnNext /\ UNCHANGED <<focus, windowVars, routesVars>>
RoutesMove == focus = "routes" /\ RoutesNext /\ UNCHANGED <<focus, windowVars, vpnVars>>

Next ==
    \/ StreamMoves \/ PricesMove \/ UpdaterMoves \/ DepositsMove
    \/ LanguageMoves \/ AuthMoves \/ WalletMoves \/ SellerMoves
    \/ VpnMoves \/ RoutesMove

-----------------------------------------------------------------------------
(* Fairness: timers fire, awaited calls end, and the runtime runs what it  *)
(* has spawned.                                                            *)

\* The backend keeps its stream open long enough to be opened once.
StreamFairness ==
    /\ SF_sseVars(focus = "stream" /\ HasToken)
    /\ WF_sseVars(focus = "stream" /\ Reconnects)
    /\ WF_sseVars(focus = "stream" /\ TokenUpdated)

\* Not every fetch fails.
PricesFairness ==
    /\ WF_priceVars(focus = "prices" /\ FetchPrices)
    /\ WF_priceVars(focus = "prices" /\ PricesArrive)
    /\ SF_priceVars(focus = "prices" /\ PricesArrive /\ allPricing' = market)

\* Not every check fails.
UpdaterFairness ==
    /\ WF_updaterVars(focus = "updater" /\ CheckForUpdates)
    /\ SF_updaterVars(focus = "updater" /\ UpdateFound)

\* What has begun goes on, and the network comes back.  No check has to begin:
\* one does when the window is loaded, shown or focused, and only then.
AuthFairness ==
    /\ \A c \in Checks \cup ApiCalls :
         /\ WF_authVars(focus = "auth" /\ WalletInfo(c))
         /\ WF_authVars(focus = "auth"
              /\ (\/ Succeeds(c) \/ FailsOnce(c) \/ Reauth(c) \/ FailsAgain(c)
                  \/ AutoLogin(c) \/ NoSession(c)))
    /\ WF_authVars(focus = "auth" /\ ComesOnline)
    /\ WF_authVars(focus = "auth" /\ Logout)
    /\ WF_authVars(focus = "auth" /\ LogoutReturns)
    /\ WF_authVars(focus = "auth" /\ LoggedIn)

SellerFairness ==
    /\ \A l \in Loops :
         /\ WF_sellerVars(focus = "seller" /\ Cancels(l))
         /\ WF_sellerVars(focus = "seller" /\ (Joined(l) \/ JoinTimesOut(l)))
         /\ WF_sellerVars(focus = "seller" /\ FallbackEnds(l))
    /\ \A x \in Tasks :
         /\ WF_sellerVars(focus = "seller" /\ (Connects(x) \/ Fails(x) \/ AuthExpired(x)))
         /\ WF_sellerVars(focus = "seller" /\ StopsUp(x))
         /\ WF_sellerVars(focus = "seller" /\ (Reauthenticates(x) \/ ReauthFails(x)))
         /\ WF_sellerVars(focus = "seller" /\ BackoffEnds(x))
         /\ WF_sellerVars(focus = "seller" /\ PauseEnds(x))

Spec ==
    /\ Init /\ [][Next]_vars
    /\ StreamFairness /\ PricesFairness /\ UpdaterFairness /\ AuthFairness /\ SellerFairness

-----------------------------------------------------------------------------
(* Properties of the parts, as properties of the run.                      *)

\* Types of all the parts' state.
ShellTypeOK ==
    /\ SseTypeOK /\ PriceTypeOK /\ UpdaterTypeOK /\ DepositsTypeOK /\ LanguageTypeOK
    /\ AuthTypeOK /\ WalletTypeOK /\ SellerTypeOK /\ VpnTypeOK

\* The market page's event stream comes back after every error, resume and new
\* token: a page that has a token is not left without a stream for good.
StreamReturns == []<>(focus = "stream" => Streams)

\* Once the backend's offers rest, the table of offers is and stays theirs:
\* a fetch that fails does not keep the next ones out.
PricesSettle == <>[](focus = "prices" => allPricing = market)

\* The banner comes to offer what the server offers, and to withdraw it.
BannerSettles == []<>(focus = "updater" => update = release)

\* For a user who keeps coming back to the window, so that checks begin again and
\* again: whatever checks, calls, sign-ins, sign-outs, expiries and outages
\* overlapped, the window ends up saying that the user is signed in exactly when
\* there is a good token.  A window left alone may go on showing an expired
\* session, and a token a call saves after a logout signs the user in again.
ChecksRecur == []<>(focus = "auth" /\ \E c \in Checks : call[c] = "info")
AuthSettles == ChecksRecur => <>[]AuthAgrees

\* With whatever networks excluded, what the Android VPN routes into the tunnel
\* is their complement.
TunnelTakesTheRest == focus = "routes" => RoutesAreComplement

\* A seller loop that is stopped or replaced comes to an end with all its tasks,
\* those of the fallback paths its aborted task left behind too.
LoopsEnd == \A l \in Loops : (focus = "seller" /\ Lingers(l)) ~> Gone(l)
=============================================================================
