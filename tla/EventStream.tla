----------------------------- MODULE EventStream -----------------------------
(***************************************************************************)
(* The market page's stream of backend events (the SSE effect of           *)
(* src/pages/MarketPage.tsx).  setupSse closes the stream, awaits the      *)
(* token and opens a stream with it; the page being mounted, a timer, the  *)
(* window waking up and a new token each start one, side by side.  One     *)
(* that finishes after another leaves that one's stream open but without a *)
(* reference: a lost stream.                                               *)
(***************************************************************************)
EXTENDS Naturals

CONSTANTS MaxSetups,   \* bound: setups, timers and lost streams at once
          MaxBackoff   \* doublings of the delay, from 2 s to 60 s

ASSUME SetupsAssumption == MaxSetups \in Nat \ {0} /\ MaxBackoff \in Nat

VARIABLES
    streaming,  \* the effect is mounted
    tokenFile,  \* there is a token file
    heard,      \* the listener of auth:token-updated is registered
    missed,     \* a token came that no setup has seen and no listener heard
    es,         \* the stream referred to by es is open
    lost,       \* open streams nothing refers to
    setups,     \* setups awaiting the token
    timers,     \* reconnection timers
    updates,    \* auth:token-updated on its way
    backoff

sseVars == <<streaming, tokenFile, heard, missed, es, lost, setups, timers, updates, backoff>>

SseInit ==
    /\ streaming = FALSE /\ tokenFile = TRUE /\ heard = FALSE /\ missed = FALSE
    /\ es = FALSE /\ lost = 0 /\ setups = 0 /\ timers = 0
    /\ updates = FALSE /\ backoff = 0

\* The first half of setupSse.
SetupSse ==
    /\ setups < MaxSetups
    /\ setups' = setups + 1
    /\ es' = FALSE
    /\ missed' = FALSE

\* The second half: getToken fails when there is none, and nothing is retried.
HasToken ==
    /\ setups > 0 /\ setups' = setups - 1
    /\ es' = (es \/ tokenFile)
    /\ lost' = IF es /\ tokenFile THEN lost + 1 ELSE lost
    /\ lost' <= MaxSetups
    /\ UNCHANGED <<streaming, tokenFile, heard, missed, timers, updates, backoff>>

MountStream ==
    /\ ~streaming /\ streaming' = TRUE
    /\ SetupSse
    /\ backoff' = 0
    /\ UNCHANGED <<tokenFile, heard, lost, timers, updates>>

\* A setup or a timer that is left finds the effect inactive.  The lost streams
\* stay open.
UnmountStream ==
    /\ streaming /\ streaming' = FALSE
    /\ es' = FALSE /\ setups' = 0 /\ timers' = 0
    /\ heard' = FALSE /\ updates' = FALSE /\ missed' = FALSE
    /\ UNCHANGED <<tokenFile, lost, backoff>>

\* The module with listen is imported while the page is in use already.
Listen ==
    /\ streaming /\ ~heard /\ heard' = TRUE
    /\ UNCHANGED <<streaming, tokenFile, missed, es, lost, setups, timers, updates, backoff>>

OnOpen ==
    /\ es /\ backoff > 0 /\ backoff' = 0
    /\ UNCHANGED <<streaming, tokenFile, heard, missed, es, lost, setups, timers, updates>>

\* Mutant: gives up when the delay is at its limit.
OnError_GivesUp ==
    /\ es \/ lost > 0
    /\ streaming /\ timers < MaxSetups
    /\ es' = FALSE
    /\ timers' = IF backoff = MaxBackoff THEN timers ELSE timers + 1
    /\ backoff' = IF backoff < MaxBackoff THEN backoff + 1 ELSE backoff
    /\ UNCHANGED <<streaming, tokenFile, heard, missed, lost, setups, updates>>

\* The handler of any stream, a lost one too, closes the stream es refers to.
OnError ==
    /\ es \/ lost > 0
    /\ streaming /\ timers < MaxSetups
    /\ es' = FALSE
    /\ timers' = timers + 1
    /\ backoff' = IF backoff < MaxBackoff THEN backoff + 1 ELSE backoff
    /\ UNCHANGED <<streaming, tokenFile, heard, missed, lost, setups, updates>>

Reconnects ==
    /\ timers > 0 /\ timers' = timers - 1
    /\ SetupSse
    /\ UNCHANGED <<streaming, tokenFile, heard, lost, updates, backoff>>

OnResumed ==
    /\ streaming
    /\ SetupSse
    /\ UNCHANGED <<streaming, tokenFile, heard, lost, timers, updates, backoff>>

TokenUpdated ==
    /\ updates /\ updates' = FALSE
    /\ SetupSse
    /\ UNCHANGED <<streaming, tokenFile, heard, lost, timers, backoff>>

\* A reauthentication saves a token and emits the event; a logout deletes it.
Reauthenticated ==
    /\ tokenFile' = TRUE
    /\ updates' = (updates \/ heard)
    /\ missed' = (missed \/ (streaming /\ ~heard))
    /\ UNCHANGED <<streaming, heard, es, lost, setups, timers, backoff>>

TokenDeleted ==
    /\ tokenFile /\ tokenFile' = FALSE
    /\ UNCHANGED <<streaming, heard, missed, es, lost, setups, timers, updates, backoff>>

SseNext ==
    \/ HasToken \/ MountStream \/ UnmountStream \/ Listen \/ OnOpen \/ OnError
    \/ Reconnects \/ OnResumed \/ TokenUpdated \/ Reauthenticated \/ TokenDeleted

SseTypeOK ==
    /\ {streaming, tokenFile, heard, missed, es, updates} \subseteq BOOLEAN
    /\ lost \in 0..MaxSetups /\ setups \in 0..MaxSetups /\ timers \in 0..MaxSetups
    /\ backoff \in 0..MaxBackoff
    /\ ~streaming => ~es /\ setups = 0 /\ timers = 0 /\ ~updates

\* A page with a token has its stream, unless it missed the token's arrival.
Streams == streaming /\ tokenFile /\ ~missed => es
=============================================================================
