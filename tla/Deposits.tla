------------------------------- MODULE Deposits -------------------------------
(***************************************************************************)
(* Adding funds: the dialog of components/Layout.tsx creates a deposit and *)
(* hands it to pages/DepositPage.tsx, which waits for the payment with a   *)
(* countdown and a poll.                                                   *)
(***************************************************************************)
EXTENDS Naturals, FiniteSets

CONSTANTS Ids,           \* bound: deposits the backend creates
          Currencies,    \* all currencies; the first list is {Default}
          Default,
          Countdown,     \* bound: ticks until a deposit expires
          MaxLists, MaxPolls   \* bounds: lists and polls unanswered

NoId == "none"

ASSUME DepositsAssumption ==
    /\ Default \in Currencies /\ NoId \notin Ids
    /\ Countdown \in Nat \ {0} /\ MaxLists \in Nat /\ MaxPolls \in Nat

VARIABLES
    showDeposit, depLoading, depAmount, depCurrency, currencies,   \* the dialog
    lists,          \* answers of listCurrencies on their way
    creates,        \* createDeposit calls in progress, by their currencies
    status,         \* the backend's deposits
    pending,        \* _pendingDeposit
    page,           \* the deposit of the page, None when it is not shown
    step, countdown, ticking, polling,
    polls           \* answers of getDeposit on their way to the page

depositVars == <<showDeposit, depLoading, depAmount, depCurrency, currencies, lists, creates,
                 status, pending, page, step, countdown, ticking, polling, polls>>
dialogVars == <<showDeposit, depLoading, depAmount, depCurrency, currencies, lists>>
viewVars == <<page, step, countdown, ticking, polling, polls>>

Amounts == {"valid", "none"}
Paid == {"confirming", "paid"}

DepositsInit ==
    /\ showDeposit = FALSE /\ depLoading = FALSE /\ depAmount = "valid"
    /\ depCurrency = Default /\ currencies = {Default}
    /\ lists = {} /\ creates = {}
    /\ status = [i \in {} |-> "waiting"] /\ pending = NoId
    /\ page = NoId /\ step = "created" /\ countdown = Countdown
    /\ ticking = FALSE /\ polling = FALSE /\ polls = {}

-----------------------------------------------------------------------------
(* The dialog.                                                             *)

OpenDeposit ==
    /\ ~showDeposit /\ showDeposit' = TRUE
    /\ Cardinality(lists) < MaxLists
    /\ \E cs \in SUBSET Currencies : lists' = lists \cup {cs}
    /\ UNCHANGED <<depLoading, depAmount, depCurrency, currencies, creates, status, pending,
                   viewVars>>

\* A list that comes late replaces the user's choice; an empty one stands for a
\* call that failed.
CurrenciesArrive ==
    /\ \E cs \in lists :
         /\ lists' = lists \ {cs}
         /\ IF cs = {} THEN UNCHANGED <<currencies, depCurrency>>
            ELSE currencies' = cs /\ depCurrency' \in cs
    /\ UNCHANGED <<showDeposit, depLoading, depAmount, creates, status, pending, viewVars>>

ChooseAmount ==
    /\ showDeposit /\ depAmount' \in Amounts
    /\ UNCHANGED <<showDeposit, depLoading, depCurrency, currencies, lists, creates, status,
                   pending, viewVars>>

ChooseCurrency ==
    /\ showDeposit /\ depCurrency' \in currencies
    /\ UNCHANGED <<showDeposit, depLoading, depAmount, currencies, lists, creates, status,
                   pending, viewVars>>

\* Mutant: closing the dialog frees its button.
CloseDeposit_ResetsLoading ==
    /\ showDeposit /\ showDeposit' = FALSE
    /\ depAmount' = "valid" /\ depLoading' = FALSE
    /\ UNCHANGED <<depCurrency, currencies, lists, creates, status, pending, viewVars>>

CloseDeposit ==
    /\ showDeposit /\ showDeposit' = FALSE
    /\ depAmount' = "valid"
    /\ UNCHANGED <<depLoading, depCurrency, currencies, lists, creates, status, pending,
                   viewVars>>

HandleCreateDeposit ==
    /\ showDeposit /\ ~depLoading /\ depAmount # "none"
    /\ depLoading' = TRUE
    /\ \E i \in Ids \ (DOMAIN status \cup creates) : creates' = creates \cup {i}
    /\ UNCHANGED <<showDeposit, depAmount, depCurrency, currencies, lists, status, pending,
                   viewVars>>

\* clearTimers and the page's state go with the page.
LeavePage ==
    /\ page' = NoId /\ ticking' = FALSE /\ polling' = FALSE /\ polls' = {}
    /\ step' = "created" /\ countdown' = Countdown

\* The page consumes the pending deposit when it is shown.  A page of an earlier
\* deposit that is shown already stays as it is: the route does not change.
Deposited ==
    /\ \E i \in creates :
         /\ creates' = creates \ {i}
         /\ status' = [j \in DOMAIN status \cup {i} |-> IF j = i THEN "waiting" ELSE status[j]]
         /\ IF page = NoId
            THEN /\ page' = i /\ pending' = NoId
                 /\ ticking' = TRUE /\ polling' = TRUE
            ELSE /\ pending' = i /\ UNCHANGED <<page, ticking, polling>>
    /\ depLoading' = FALSE /\ showDeposit' = FALSE /\ depAmount' = "valid"
    /\ UNCHANGED <<depCurrency, currencies, lists, step, countdown, polls>>

\* The backend may have created it all the same.
DepositFails ==
    /\ \E i \in creates : creates' = creates \ {i}
    /\ depLoading' = FALSE
    /\ UNCHANGED <<showDeposit, depAmount, depCurrency, currencies, lists, status, pending,
                   viewVars>>

-----------------------------------------------------------------------------
(* The page.                                                               *)

\* The page is left by its buttons and by the tabs; coming back finds what is
\* pending, or sends the user to the market.
Leave ==
    /\ page # NoId /\ LeavePage
    /\ UNCHANGED <<dialogVars, creates, status, pending>>

GoBack ==
    /\ page = NoId /\ pending # NoId
    /\ page' = pending /\ pending' = NoId
    /\ ticking' = TRUE /\ polling' = TRUE
    /\ UNCHANGED <<dialogVars, creates, status, step, countdown, polls>>

Tick ==
    /\ ticking
    /\ countdown' = countdown - 1
    /\ IF countdown <= 1
       THEN step' = "expired" /\ ticking' = FALSE /\ polling' = FALSE
       ELSE UNCHANGED <<step, ticking, polling>>
    /\ UNCHANGED <<dialogVars, creates, status, pending, page, polls>>

\* The interval does not wait for an answer.
Poll ==
    /\ polling /\ Cardinality(polls) < MaxPolls
    /\ polls' = polls \cup {status[page]}
    /\ UNCHANGED <<dialogVars, creates, status, pending, page, step, countdown, ticking, polling>>

\* Mutant: the countdown goes on.
PollArrives_Ticks == \E s \in polls :
    /\ polls' = polls \ {s}
    /\ IF s \in Paid THEN step' = "completed" /\ polling' = FALSE ELSE UNCHANGED <<step, polling>>
    /\ UNCHANGED <<dialogVars, creates, status, pending, page, countdown, ticking>>

\* An answer after the deadline still counts.
PollArrives == \E s \in polls :
    /\ polls' = polls \ {s}
    /\ IF s \in Paid THEN step' = "completed" /\ ticking' = FALSE /\ polling' = FALSE
       ELSE UNCHANGED <<step, ticking, polling>>
    /\ UNCHANGED <<dialogVars, creates, status, pending, page, countdown>>

PollFails ==
    /\ \E s \in polls : polls' = polls \ {s}
    /\ UNCHANGED <<dialogVars, creates, status, pending, page, step, countdown, ticking, polling>>

Pay == \E i \in DOMAIN status :
    /\ status[i] # "paid"
    /\ status' = [status EXCEPT ![i] = IF @ = "waiting" THEN "confirming" ELSE "paid"]
    /\ UNCHANGED <<dialogVars, creates, pending, viewVars>>

DepositsNext ==
    \/ OpenDeposit \/ CurrenciesArrive \/ ChooseAmount \/ ChooseCurrency \/ CloseDeposit
    \/ HandleCreateDeposit \/ Deposited \/ DepositFails
    \/ Leave \/ GoBack \/ Tick \/ Poll \/ PollArrives \/ PollFails \/ Pay

DepositsTypeOK ==
    /\ {showDeposit, depLoading, ticking, polling} \subseteq BOOLEAN
    /\ depAmount \in Amounts
    /\ currencies \subseteq Currencies /\ depCurrency \in currencies
    /\ creates \subseteq Ids /\ DOMAIN status \subseteq Ids
    /\ {status[i] : i \in DOMAIN status} \cup polls \subseteq {"waiting"} \cup Paid
    /\ {pending, page} \subseteq DOMAIN status \cup {NoId}
    /\ step \in {"created", "completed", "expired"} /\ countdown \in 0..Countdown

\* The user is never asked to pay twice for one wish: one deposit is created at
\* a time, whatever becomes of the dialog meanwhile.
OneDepositAtATime == Cardinality(creates) <= 1

\* A deposit shown as completed is not taken for expired later.
CompletedIsFinal == [][step = "completed" => step' # "expired"]_depositVars
=============================================================================
