---------------------------- MODULE WindowProofs -----------------------------
(***************************************************************************)
(* Proofs about the parts of the window, each a module of its own with its *)
(* own specification: deposits, the wallet, languages, prices, updates,    *)
(* the seller, the event stream and signing in, for any constants.  They   *)
(* share no variable; AppShellProofs puts them together.                   *)
(***************************************************************************)
EXTENDS EventStream, PriceList, Updater, Deposits, Language, AuthShell, Wallet,
        SellerLifecycle, FiniteSetTheorems, TLAPS

-----------------------------------------------------------------------------
(* Deposits: one is created at a time, and one shown as completed is not   *)
(* taken for expired later.                                                *)
DepositsSpec == DepositsInit /\ [][DepositsNext]_depositVars

\* The button is held back for exactly as long as a call is in progress.
LoadingWhileCreating ==
    IF depLoading THEN \E i \in Ids : creates = {i} ELSE creates = {}

\* Nothing of a page that is not shown is left, and a completed deposit is not
\* counted down.
NothingOffPage ==
    page = NoId => step = "created" /\ ~ticking /\ ~polling /\ polls = {}
CompletedStopsTicking == step = "completed" => ~ticking

DepositsInv ==
    /\ depLoading \in BOOLEAN
    /\ LoadingWhileCreating
    /\ NothingOffPage
    /\ CompletedStopsTicking

-----------------------------------------------------------------------------
(* The dialog changes nothing of the page, and the page nothing of the     *)
(* dialog.                                                                 *)

\* Creation, its answer and its failure keep the button and the calls together.
LEMMA DialogStep ==
    ASSUME DepositsInv, DepositsNext
    PROVE  depLoading' \in BOOLEAN /\ LoadingWhileCreating'
<1> USE DEF DepositsInv, LoadingWhileCreating
<1>1. CASE OpenDeposit \/ CurrenciesArrive \/ ChooseAmount \/ ChooseCurrency \/ CloseDeposit
  BY <1>1 DEF OpenDeposit, CurrenciesArrive, ChooseAmount, ChooseCurrency, CloseDeposit
<1>2. CASE HandleCreateDeposit
  <2>1. creates = {} /\ depLoading' = TRUE
    BY <1>2 DEF HandleCreateDeposit
  <2>2. PICK i \in Ids : creates' = creates \cup {i}
    BY <1>2 DEF HandleCreateDeposit
  <2>3. creates' = {i}
    BY <2>1, <2>2
  <2> QED BY <2>1, <2>3
<1>3. CASE Deposited \/ DepositFails
  <2>1. PICK i \in creates : creates' = creates \ {i}
    BY <1>3 DEF Deposited, DepositFails
  <2>2. creates' = {} /\ depLoading' = FALSE
    BY <1>3, <2>1 DEF Deposited, DepositFails
  <2> QED BY <2>2
<1>4. CASE Leave \/ GoBack \/ Tick \/ Poll \/ PollArrives \/ PollFails \/ Pay
  BY <1>4 DEF Leave, GoBack, Tick, Poll, PollArrives, PollFails, Pay, dialogVars
<1> QED BY <1>1, <1>2, <1>3, <1>4 DEF DepositsNext

\* A page is shown anew with a countdown, and ends it when it is completed.
LEMMA DepositPageStep ==
    ASSUME DepositsInv, DepositsNext
    PROVE  NothingOffPage' /\ CompletedStopsTicking'
<1> USE DEF DepositsInv, NothingOffPage, CompletedStopsTicking
<1>1. CASE OpenDeposit \/ CurrenciesArrive \/ ChooseAmount \/ ChooseCurrency \/ CloseDeposit
           \/ HandleCreateDeposit \/ DepositFails \/ Pay
  BY <1>1 DEF OpenDeposit, CurrenciesArrive, ChooseAmount, ChooseCurrency, CloseDeposit,
     HandleCreateDeposit, DepositFails, Pay, viewVars
<1>2. CASE Deposited
  <2>1. PICK i \in creates :
          IF page = NoId THEN page' = i /\ ticking' = TRUE /\ polling' = TRUE
          ELSE UNCHANGED <<page, ticking, polling>>
    BY <1>2 DEF Deposited
  <2>2. i # NoId
    BY <2>1, DepositsAssumption DEF LoadingWhileCreating
  <2>3. UNCHANGED <<step, polls>>
    BY <1>2 DEF Deposited
  <2> QED BY <2>1, <2>2, <2>3
<1>3. CASE Leave
  BY <1>3 DEF Leave, LeavePage
<1>4. CASE GoBack
  BY <1>4 DEF GoBack
<1>5. CASE Tick
  BY <1>5 DEF Tick
<1>6. CASE Poll
  BY <1>6 DEF Poll
<1>7. CASE PollArrives
  <2>1. page # NoId /\ page' = page
    BY <1>7 DEF PollArrives
  <2>2. (step' = "completed" /\ ticking' = FALSE) \/ UNCHANGED <<step, ticking>>
    BY <1>7 DEF PollArrives
  <2> QED BY <2>1, <2>2
<1>8. CASE PollFails
  BY <1>8 DEF PollFails
<1> QED BY <1>1, <1>2, <1>3, <1>4, <1>5, <1>6, <1>7, <1>8 DEF DepositsNext

LEMMA DepositsInvariant == DepositsSpec => []DepositsInv
<1>1. DepositsInit => DepositsInv
  BY DEF DepositsInit, DepositsInv, LoadingWhileCreating, NothingOffPage,
     CompletedStopsTicking
<1>2. DepositsInv /\ [DepositsNext]_depositVars => DepositsInv'
  <2>1. CASE DepositsNext
    BY <2>1, DialogStep, DepositPageStep DEF DepositsInv
  <2>2. CASE UNCHANGED depositVars
    BY <2>2 DEF depositVars, DepositsInv, LoadingWhileCreating, NothingOffPage,
       CompletedStopsTicking
  <2> QED BY <2>1, <2>2
<1> QED BY <1>1, <1>2, PTL DEF DepositsSpec

-----------------------------------------------------------------------------
\* One deposit is created at a time, however often the dialog is closed and
\* opened while handleCreateDeposit of Layout awaits its answer.
THEOREM OneDeposit == DepositsSpec => []OneDepositAtATime
<1>1. DepositsInv => OneDepositAtATime
  <2> SUFFICES ASSUME DepositsInv PROVE Cardinality(creates) <= 1
    BY DEF OneDepositAtATime
  <2>1. CASE creates = {}
    BY <2>1, FS_EmptySet
  <2>2. CASE \E i \in Ids : creates = {i}
    <3>1. PICK i \in Ids : creates = {i}
      BY <2>2
    <3>2. Cardinality({i}) = 1
      BY FS_Singleton
    <3> QED BY <3>1, <3>2
  <2> QED BY <2>1, <2>2 DEF DepositsInv, LoadingWhileCreating
<1> QED BY <1>1, DepositsInvariant, PTL

\* A deposit shown as completed by DepositPage never turns expired: whichever of
\* the deadline's tick and a poll's late answer comes first.
THEOREM CompletedStays == DepositsSpec => CompletedIsFinal
<1>1. DepositsInv /\ [DepositsNext]_depositVars
        => [step = "completed" => step' # "expired"]_depositVars
  <2> SUFFICES ASSUME DepositsInv, DepositsNext, step = "completed"
               PROVE  step' # "expired"
    OBVIOUS
  <2>1. ~Tick
    BY DEF DepositsInv, CompletedStopsTicking, Tick
  <2>2. CASE OpenDeposit \/ CurrenciesArrive \/ ChooseAmount \/ ChooseCurrency
             \/ CloseDeposit \/ HandleCreateDeposit \/ DepositFails \/ Pay
    BY <2>2 DEF OpenDeposit, CurrenciesArrive, ChooseAmount, ChooseCurrency, CloseDeposit,
       HandleCreateDeposit, DepositFails, Pay, viewVars
  <2>3. CASE Deposited \/ GoBack \/ Poll \/ PollFails
    BY <2>3 DEF Deposited, GoBack, Poll, PollFails
  <2>4. CASE Leave \/ PollArrives
    BY <2>4 DEF Leave, LeavePage, PollArrives
  <2> QED BY <2>1, <2>2, <2>3, <2>4 DEF DepositsNext
<1> QED BY <1>1, DepositsInvariant, PTL DEF DepositsSpec, CompletedIsFinal

-----------------------------------------------------------------------------
(* Types: a page that is not shown has its countdown for later.            *)

OffPageAnew ==
    /\ page = NoId => countdown = Countdown /\ ~ticking /\ ~polling
    /\ ticking => countdown > 0

DepositFlags == {showDeposit, depLoading, ticking, polling}

DialogTyped ==
    /\ depAmount \in Amounts /\ currencies \subseteq Currencies
    /\ depCurrency \in currencies /\ lists \subseteq SUBSET Currencies

States == {"waiting"} \cup Paid
PageTyped ==
    /\ creates \subseteq Ids /\ DOMAIN status \subseteq Ids
    /\ \A i \in DOMAIN status : status[i] \in States
    /\ polls \subseteq States
    /\ pending \in DOMAIN status \cup {NoId} /\ page \in DOMAIN status \cup {NoId}
    /\ step \in {"created", "completed", "expired"} /\ countdown \in 0..Countdown

DepositsTypes == DepositFlags \subseteq BOOLEAN /\ DialogTyped /\ PageTyped /\ OffPageAnew

LEMMA DepositFlagsTyped ==
    ASSUME DepositFlags \subseteq BOOLEAN, DepositsNext
    PROVE  DepositFlags' \subseteq BOOLEAN
<1> USE DEF DepositFlags
<1>1. CASE OpenDeposit \/ CurrenciesArrive \/ ChooseAmount \/ ChooseCurrency \/ CloseDeposit
  BY <1>1, Zenon DEF OpenDeposit, CurrenciesArrive, ChooseAmount, ChooseCurrency, CloseDeposit,
     viewVars
<1>2. CASE HandleCreateDeposit \/ DepositFails \/ Pay
  BY <1>2, Zenon DEF HandleCreateDeposit, DepositFails, Pay, viewVars, dialogVars
<1>3. CASE Deposited
  BY <1>3, Zenon DEF Deposited
<1>4. CASE Leave \/ GoBack \/ Poll \/ PollFails
  BY <1>4, Zenon DEF Leave, LeavePage, GoBack, Poll, PollFails, dialogVars
<1>5. CASE Tick
  BY <1>5, Zenon DEF Tick, dialogVars
<1>6. CASE PollArrives
  BY <1>6, Zenon DEF PollArrives, dialogVars
<1> QED BY <1>1, <1>2, <1>3, <1>4, <1>5, <1>6 DEF DepositsNext

LEMMA DialogTypedStep ==
    ASSUME DialogTyped, DepositsNext
    PROVE  DialogTyped'
<1> USE DEF DialogTyped
<1>1. CASE OpenDeposit
  BY <1>1 DEF OpenDeposit
<1>2. CASE CurrenciesArrive
  <2>1. PICK cs \in lists :
          /\ lists' = lists \ {cs}
          /\ IF cs = {} THEN UNCHANGED <<currencies, depCurrency>>
             ELSE currencies' = cs /\ depCurrency' \in cs
    BY <1>2 DEF CurrenciesArrive
  <2> QED BY <1>2, <2>1 DEF CurrenciesArrive
<1>3. CASE ChooseAmount \/ ChooseCurrency \/ CloseDeposit
  BY <1>3 DEF ChooseAmount, ChooseCurrency, CloseDeposit, Amounts
<1>4. CASE HandleCreateDeposit \/ Deposited \/ DepositFails
  BY <1>4 DEF HandleCreateDeposit, Deposited, DepositFails, Amounts
<1>5. CASE Leave \/ GoBack \/ Tick \/ Poll \/ PollArrives \/ PollFails \/ Pay
  BY <1>5 DEF Leave, GoBack, Tick, Poll, PollArrives, PollFails, Pay, dialogVars
<1> QED BY <1>1, <1>2, <1>3, <1>4, <1>5 DEF DepositsNext

LEMMA PageTypedStep ==
    ASSUME PageTyped, OffPageAnew, DepositsNext
    PROVE  PageTyped' /\ OffPageAnew'
<1>1. Countdown \in Nat \ {0} /\ NoId \notin Ids
  BY DepositsAssumption
<1> USE <1>1 DEF PageTyped, OffPageAnew
<1>2. CASE OpenDeposit \/ CurrenciesArrive \/ ChooseAmount \/ ChooseCurrency \/ CloseDeposit
  BY <1>2 DEF OpenDeposit, CurrenciesArrive, ChooseAmount, ChooseCurrency, CloseDeposit, viewVars
<1>3. CASE HandleCreateDeposit \/ DepositFails
  BY <1>3 DEF HandleCreateDeposit, DepositFails, viewVars
<1>4. CASE Deposited
  <2>1. PICK i \in creates :
          /\ creates' = creates \ {i}
          /\ status' = [j \in DOMAIN status \cup {i} |->
                          IF j = i THEN "waiting" ELSE status[j]]
          /\ IF page = NoId
             THEN /\ page' = i /\ pending' = NoId
                  /\ ticking' = TRUE /\ polling' = TRUE
             ELSE /\ pending' = i /\ UNCHANGED <<page, ticking, polling>>
    BY <1>4 DEF Deposited
  <2>2. UNCHANGED <<step, countdown, polls>>
    BY <1>4 DEF Deposited
  <2>3. DOMAIN status' = DOMAIN status \cup {i} /\ \A j \in DOMAIN status' : status'[j] \in States
    BY <2>1 DEF States
  <2>4. i \in Ids /\ i # NoId
    BY <2>1
  <2> QED BY <2>1, <2>2, <2>3, <2>4
<1>5. CASE Leave
  BY <1>5 DEF Leave, LeavePage, States
<1>6. CASE GoBack
  BY <1>6 DEF GoBack
<1>7. CASE Tick
  <2>1. page # NoId /\ UNCHANGED <<creates, status, pending, page, polls>>
    BY <1>7 DEF Tick
  <2>2. countdown > 0 /\ countdown' = countdown - 1
    BY <1>7 DEF Tick
  <2>3. step' \in {"expired", step} /\ (countdown <= 1 => ~ticking')
    BY <1>7 DEF Tick
  <2> QED BY <2>1, <2>2, <2>3
<1>8. CASE Poll
  <2>1. page \in DOMAIN status
    BY <1>8 DEF Poll
  <2> QED BY <1>8, <2>1 DEF Poll
<1>9. CASE PollArrives \/ PollFails
  BY <1>9 DEF PollArrives, PollFails
<1>10. CASE Pay
  <2>1. DOMAIN status' = DOMAIN status /\ \A j \in DOMAIN status' : status'[j] \in States
    BY <1>10 DEF Pay, States, Paid
  <2> QED BY <1>10, <2>1 DEF Pay, viewVars
<1> QED BY <1>2, <1>3, <1>4, <1>5, <1>6, <1>7, <1>8, <1>9, <1>10 DEF DepositsNext

LEMMA DepositsTyped == DepositsSpec => []DepositsTypeOK
<1>1. DepositsInit => DepositsTypes
  <2>1. DepositsInit => DepositFlags \subseteq BOOLEAN
    BY Zenon DEF DepositsInit, DepositFlags
  <2>2. DepositsInit => PageTyped /\ OffPageAnew
    BY DepositsAssumption DEF DepositsInit, PageTyped, OffPageAnew
  <2>3. DepositsInit => DialogTyped
    BY DepositsAssumption DEF DepositsInit, DialogTyped, Amounts
  <2> QED BY <2>1, <2>2, <2>3 DEF DepositsTypes
<1>2. DepositsTypes /\ DepositsNext => DepositsTypes'
  BY DepositFlagsTyped, DialogTypedStep, PageTypedStep DEF DepositsTypes
<1>3. DepositsTypes /\ UNCHANGED depositVars => DepositsTypes'
  BY DEF depositVars, DepositsTypes, DepositFlags, DialogTyped, PageTyped, OffPageAnew
<1>4. DepositsTypes => DepositsTypeOK
  BY DEF DepositsTypes, DepositFlags, DialogTyped, PageTyped, States, DepositsTypeOK
<1> QED BY <1>1, <1>2, <1>3, <1>4, PTL DEF DepositsSpec

-----------------------------------------------------------------------------
(* The wallet: the words shown are those of the wallet on disk, for any    *)
(* number of wallets made and of commands waiting.                         *)

WalletSpec == WalletInit /\ [][WalletNext]_walletVars

Cmds == [what : {"info", "create", "import"}, seen : BOOLEAN]
AllSeen == \A i \in 1..Len(commands) : commands[i].seen
NoneSeen == \A i \in 1..Len(commands) : ~commands[i].seen

\* What a page left behind is in front of what the page shown has asked for.
LeftBehindFirst ==
    \A i, j \in 1..Len(commands) : i < j /\ commands[i].seen => commands[j].seen

\* The welcome page is never left but for good: it has one command under way, or
\* signs in, and holds its buttons back meanwhile.
OneAtATime ==
    /\ view = "checking" =>
         /\ AllSeen /\ Len(commands) <= 1 /\ words = 0 /\ ~signingIn
         /\ \A i \in 1..Len(commands) : commands[i].what = "info"
    /\ view \in {"no-wallet", "create", "import"} =>
         /\ AllSeen /\ Len(commands) <= 1 /\ words = 0
         /\ commands # <<>> \/ signingIn => walletLoading
         /\ signingIn => commands = <<>>
    /\ view \in {"create-done", "logging-in"} => commands = <<>>
    /\ view = "logging-in" => words = 0

\* Words are shown by the page that asked for them only, and what it left behind
\* before has been run by then.
WordsAreSeen ==
    /\ view = "away" => words = 0 /\ NoneSeen
    /\ view = "wallet" /\ words # 0 => AllSeen
    /\ view \notin WelcomeSteps => ~signingIn

WalletInv ==
    /\ commands \in Seq(Cmds)
    /\ view \in WelcomeSteps \cup {"wallet", "away"}
    /\ walletLoading \in BOOLEAN /\ signingIn \in BOOLEAN
    /\ LeftBehindFirst
    /\ OneAtATime
    /\ WordsAreSeen
    /\ WordsAreOfWallet

-----------------------------------------------------------------------------
(* The queue of commands.                                                  *)

LEMMA InvokeKeeps ==
    ASSUME commands \in Seq(Cmds), NEW what \in {"info", "create", "import"}, Invoke(what)
    PROVE  /\ commands' \in Seq(Cmds) /\ commands' # <<>> /\ Len(commands') = Len(commands) + 1
           /\ LeftBehindFirst => LeftBehindFirst'
           /\ AllSeen => AllSeen'
<1> DEFINE new == [what |-> what, seen |-> TRUE]
<1>1. new \in Cmds /\ new.seen
  BY DEF Cmds
<1>2. commands' = Append(commands, new)
  BY DEF Invoke
<1> HIDE DEF new
<1>3. /\ commands' \in Seq(Cmds) /\ Len(commands') = Len(commands) + 1
      /\ \A i \in 1..Len(commands) : commands'[i] = commands[i]
      /\ commands'[Len(commands')] = new
  BY <1>1, <1>2
<1>4. \A i \in 1..Len(commands') : i \in 1..Len(commands) \/ i = Len(commands')
  BY <1>3
<1> QED BY <1>1, <1>3, <1>4 DEF LeftBehindFirst, AllSeen

LEMMA RunsKeeps ==
    ASSUME commands \in Seq(Cmds), NEW what, NEW seen \in BOOLEAN, Runs(what, seen)
    PROVE  /\ commands # <<>> /\ commands' \in Seq(Cmds)
           /\ 1 \in 1..Len(commands) /\ commands[1].what = what
           /\ Len(commands) <= 1 => commands' = <<>>
           /\ LeftBehindFirst => LeftBehindFirst'
           /\ AllSeen => seen /\ AllSeen'
           /\ NoneSeen => ~seen /\ NoneSeen'
           /\ seen /\ LeftBehindFirst => AllSeen'
<1>1. /\ commands # <<>> /\ commands' = Tail(commands)
      /\ commands[1].seen = seen /\ commands[1].what = what
  BY DEF Runs
<1>2. /\ commands' \in Seq(Cmds) /\ Len(commands') = Len(commands) - 1 /\ Len(commands) \in Nat
      /\ Len(commands) >= 1
      /\ \A i \in 1..Len(commands') : commands'[i] = commands[i + 1]
  BY <1>1
<1>3. Len(commands) <= 1 => commands' = <<>>
  BY <1>2
<1>4. \A i \in 1..Len(commands') : i + 1 \in 1..Len(commands) /\ 1 < i + 1
  BY <1>2
<1>5. LeftBehindFirst => LeftBehindFirst'
  <2> SUFFICES ASSUME LeftBehindFirst, NEW i \in 1..Len(commands'), NEW j \in 1..Len(commands'),
                      i < j, commands'[i].seen
               PROVE  commands'[j].seen
    BY DEF LeftBehindFirst
  <2>1. i + 1 \in 1..Len(commands) /\ j + 1 \in 1..Len(commands) /\ i + 1 < j + 1
    BY <1>4
  <2>2. commands'[i] = commands[i + 1] /\ commands'[j] = commands[j + 1]
    BY <1>2
  <2> QED BY <2>1, <2>2 DEF LeftBehindFirst
<1>6. (AllSeen => seen /\ AllSeen') /\ (NoneSeen => ~seen /\ NoneSeen')
  BY <1>1, <1>2, <1>4 DEF AllSeen, NoneSeen
<1>7. seen /\ LeftBehindFirst => AllSeen'
  <2> SUFFICES ASSUME seen, LeftBehindFirst, NEW i \in 1..Len(commands')
               PROVE  commands'[i].seen
    BY DEF AllSeen
  <2>1. commands[1].seen /\ 1 \in 1..Len(commands)
    BY <1>1, <1>2
  <2>2. commands'[i] = commands[i + 1] /\ i + 1 \in 1..Len(commands) /\ 1 < i + 1
    BY <1>2, <1>4
  <2> QED BY <2>1, <2>2 DEF LeftBehindFirst
<1> QED BY <1>1, <1>2, <1>3, <1>5, <1>6, <1>7

LEMMA LeavesKeeps ==
    ASSUME commands \in Seq(Cmds), Leaves
    PROVE  commands' \in Seq(Cmds) /\ NoneSeen' /\ LeftBehindFirst'
<1> DEFINE unseen(c) == [c EXCEPT !.seen = FALSE]
<1>1. \A c \in Cmds : unseen(c) \in Cmds /\ unseen(c).seen = FALSE
  BY DEF Cmds
<1>2. commands' = [i \in 1..Len(commands) |-> unseen(commands[i])]
  BY DEF Leaves
<1> HIDE DEF unseen
<1>3. \A i \in 1..Len(commands) : commands[i] \in Cmds
  OBVIOUS
<1>4. commands' \in Seq(Cmds) /\ Len(commands') = Len(commands)
  BY <1>1, <1>2, <1>3
<1>5. \A i \in 1..Len(commands') : ~commands'[i].seen
  BY <1>1, <1>2, <1>3, <1>4
<1> QED BY <1>4, <1>5 DEF NoneSeen, LeftBehindFirst

-----------------------------------------------------------------------------
(* The buttons.                                                            *)

LEMMA WelcomePageStep ==
    ASSUME WalletInv, ChooseStep \/ Back \/ ContinueAfterCreate
    PROVE  WalletInv'
<1> USE DEF WalletInv
<1>1. UNCHANGED <<commands, words, keyfile>>
  BY DEF ChooseStep, Back, ContinueAfterCreate
<1>2. LeftBehindFirst' /\ WordsAreOfWallet' /\ (AllSeen => AllSeen')
  BY <1>1 DEF LeftBehindFirst, WordsAreOfWallet, AllSeen
<1>3. CASE ChooseStep \/ Back
  <2>1. /\ view \in {"no-wallet", "create", "import"}
        /\ view' \in {"no-wallet", "create", "import"}
        /\ UNCHANGED <<walletLoading, signingIn>>
    BY <1>3 DEF ChooseStep, Back
  <2> QED BY <1>1, <1>2, <2>1 DEF OneAtATime, WordsAreSeen, WelcomeSteps
<1>4. CASE ContinueAfterCreate
  <2>1. view = "create-done" /\ view' = view /\ walletLoading' = TRUE /\ signingIn' = TRUE
    BY <1>4 DEF ContinueAfterCreate
  <2> QED BY <1>1, <1>2, <2>1 DEF OneAtATime, WordsAreSeen, WelcomeSteps
<1> QED BY <1>3, <1>4

LEMMA AskStep ==
    ASSUME WalletInv, HandleCreate \/ HandleImport \/ HandleInfo \/ OpenWallet
    PROVE  WalletInv'
<1> USE DEF WalletInv
<1>1. PICK what \in {"info", "create", "import"} : Invoke(what)
  BY DEF HandleCreate, HandleImport, HandleInfo, OpenWallet
<1>2. /\ commands' \in Seq(Cmds) /\ commands' # <<>> /\ Len(commands') = Len(commands) + 1
      /\ LeftBehindFirst' /\ (AllSeen => AllSeen')
  BY <1>1, InvokeKeeps
<1>3. walletLoading' = TRUE /\ UNCHANGED <<keyfile, words, signingIn>>
  BY DEF HandleCreate, HandleImport, HandleInfo, OpenWallet
<1>4. CASE view \in {"create", "import"} /\ ~walletLoading /\ UNCHANGED view
  <2>1. commands = <<>> /\ ~signingIn /\ AllSeen /\ words = 0
    BY <1>4 DEF OneAtATime
  <2>2. Len(commands') <= 1
    BY <1>2, <2>1
  <2> QED BY <1>2, <1>3, <1>4, <2>1, <2>2
          DEF OneAtATime, WordsAreSeen, WordsAreOfWallet, WelcomeSteps
<1>5. CASE view = "wallet" /\ UNCHANGED view
  BY <1>2, <1>3, <1>5 DEF OneAtATime, WordsAreSeen, WordsAreOfWallet, WelcomeSteps
<1>6. CASE view = "away" /\ view' = "wallet"
  BY <1>2, <1>3, <1>6 DEF OneAtATime, WordsAreSeen, WordsAreOfWallet, WelcomeSteps
<1> QED BY <1>4, <1>5, <1>6 DEF HandleCreate, HandleImport, HandleInfo, OpenWallet

LEMMA LeaveStep ==
    ASSUME WalletInv, LeaveWallet \/ SignedIn
    PROVE  WalletInv'
<1> USE DEF WalletInv
<1>1. commands' \in Seq(Cmds) /\ NoneSeen' /\ LeftBehindFirst'
  BY LeavesKeeps DEF LeaveWallet, SignedIn
<1>2. view' = "away" /\ words' = 0 /\ walletLoading' = FALSE /\ signingIn' = FALSE
  BY DEF LeaveWallet, SignedIn, WordsAreSeen, WelcomeSteps
<1> QED BY <1>1, <1>2 DEF OneAtATime, WordsAreSeen, WordsAreOfWallet, WelcomeSteps

-----------------------------------------------------------------------------
(* The answers.                                                            *)

LEMMA DoneStep ==
    ASSUME WalletInv, Created \/ Imported \/ CommandFails \/ Informed \/ InfoFails
    PROVE  WalletInv'
<1> USE DEF WalletInv
<1>1. PICK what \in {"info", "create", "import"} : Runs(what, TRUE)
  BY DEF Created, Imported, CommandFails, Informed, InfoFails, Done
<1>2. /\ commands # <<>> /\ 1 \in 1..Len(commands) /\ commands[1].what = what
      /\ commands' \in Seq(Cmds) /\ LeftBehindFirst' /\ AllSeen'
      /\ Len(commands) <= 1 => commands' = <<>>
      /\ ~NoneSeen
  BY <1>1, RunsKeeps
<1>3. view \in {"checking", "no-wallet", "create", "import", "wallet"}
  BY <1>2 DEF OneAtATime, WordsAreSeen, WelcomeSteps
<1>4. CASE view # "wallet"
  <2>1. /\ words = 0 /\ ~signingIn /\ commands' = <<>> /\ Len(commands') <= 1
        /\ view \in WelcomeSteps
    BY <1>2, <1>3, <1>4 DEF OneAtATime, WelcomeSteps
  <2>2. CASE Created
    BY <1>2, <1>3, <1>4, <2>1, <2>2
       DEF Created, Make, OneAtATime, WordsAreSeen, WordsAreOfWallet, WelcomeSteps
  <2>3. CASE Imported
    <3>1. words' = 0 /\ view' = view /\ walletLoading' = walletLoading /\ signingIn' = TRUE
      BY <2>1, <2>3 DEF Imported
    <3>2. commands[1].what = "import"
      BY <2>3, RunsKeeps DEF Imported, Done
    <3>3. view # "checking"
      BY <1>2, <3>2 DEF OneAtATime
    <3>4. walletLoading
      BY <1>2, <1>3, <1>4, <3>3 DEF OneAtATime
    <3> QED BY <1>2, <1>3, <1>4, <2>1, <3>1, <3>3, <3>4
            DEF OneAtATime, WordsAreSeen, WordsAreOfWallet, WelcomeSteps
  <2>4. CASE CommandFails \/ Informed \/ InfoFails
    <3>1. /\ words' = 0 /\ (view' = view \/ view' \in {"no-wallet", "logging-in"})
          /\ signingIn' => view' = "logging-in"
      BY <1>4, <2>1, <2>4 DEF CommandFails, Informed, InfoFails
    <3>2. \A i \in 1..Len(commands') : FALSE
      BY <2>1
    <3> QED BY <1>2, <1>3, <1>4, <2>1, <2>4, <3>1, <3>2
            DEF CommandFails, Informed, InfoFails, OneAtATime, WordsAreSeen, WordsAreOfWallet,
                WelcomeSteps
  <2> QED BY <2>2, <2>3, <2>4
<1>5. CASE view = "wallet"
  <2>1. view' = "wallet" /\ signingIn' = signingIn /\ walletLoading' = FALSE
    BY <1>5 DEF Created, Imported, CommandFails, Informed, InfoFails, WelcomeSteps
  <2>2. words' # 0 => words' = keyfile'
    BY <1>5 DEF Created, Imported, CommandFails, Informed, InfoFails, Make, WordsAreOfWallet,
                WelcomeSteps
  <2> QED BY <1>2, <1>5, <2>1, <2>2
          DEF OneAtATime, WordsAreSeen, WordsAreOfWallet, WelcomeSteps
<1> QED BY <1>4, <1>5

\* A wallet made for a page that was left: no words are shown.
LEMMA UnseenStep ==
    ASSUME WalletInv, Unseen
    PROVE  WalletInv'
<1> USE DEF WalletInv
<1>1. PICK what \in {"info", "create", "import"} : Runs(what, FALSE)
  BY DEF Unseen
<1>2. /\ commands # <<>> /\ commands' \in Seq(Cmds) /\ LeftBehindFirst' /\ ~AllSeen
      /\ NoneSeen => NoneSeen'
  BY <1>1, RunsKeeps
<1>3. words = 0 /\ view \in {"wallet", "away"}
  BY <1>2 DEF OneAtATime, WordsAreSeen, WelcomeSteps
<1>4. UNCHANGED <<view, walletLoading, words, signingIn>>
  BY DEF Unseen
<1> QED BY <1>2, <1>3, <1>4 DEF OneAtATime, WordsAreSeen, WordsAreOfWallet, WelcomeSteps

LEMMA SignInFailsStep ==
    ASSUME WalletInv, SignInFails
    PROVE  WalletInv'
BY DEF WalletInv, SignInFails, LeftBehindFirst, OneAtATime, WordsAreSeen, WordsAreOfWallet,
       AllSeen, NoneSeen, WelcomeSteps

-----------------------------------------------------------------------------
LEMMA WalletInvariant == WalletSpec => []WalletInv
<1>1. WalletInit => WalletInv
  <2> SUFFICES ASSUME WalletInit PROVE WalletInv
    OBVIOUS
  <2> DEFINE first == [what |-> "info", seen |-> TRUE]
  <2>1. first \in Cmds /\ first.seen /\ first.what = "info"
    BY DEF Cmds
  <2>2. commands = <<first>>
    BY DEF WalletInit
  <2> HIDE DEF first
  <2>3. commands \in Seq(Cmds) /\ Len(commands) = 1 /\ commands[1] = first
    BY <2>1, <2>2
  <2>4. AllSeen /\ LeftBehindFirst /\ \A i \in 1..Len(commands) : commands[i].what = "info"
    <3>1. \A i \in 1..Len(commands) : commands[i] = first
      BY <2>3
    <3> QED BY <2>1, <3>1 DEF AllSeen, LeftBehindFirst
  <2>5. view = "checking" /\ walletLoading = FALSE /\ words = 0 /\ signingIn = FALSE
    BY DEF WalletInit
  <2>6. Len(commands) <= 1
    BY <2>3
  <2>7. OneAtATime
    BY <2>4, <2>5, <2>6 DEF OneAtATime
  <2>8. WordsAreSeen /\ WordsAreOfWallet /\ view \in WelcomeSteps
    BY <2>5 DEF WordsAreSeen, WordsAreOfWallet, WelcomeSteps
  <2>9. walletLoading \in BOOLEAN /\ signingIn \in BOOLEAN
    BY <2>5
  <2> QED BY <2>3, <2>4, <2>7, <2>8, <2>9 DEF WalletInv
<1>2. WalletInv /\ [WalletNext]_walletVars => WalletInv'
  <2> SUFFICES ASSUME WalletInv, [WalletNext]_walletVars PROVE WalletInv'
    OBVIOUS
  <2>1. CASE WalletNext
    BY <2>1, WelcomePageStep, AskStep, LeaveStep, DoneStep, UnseenStep, SignInFailsStep
       DEF WalletNext
  <2>2. CASE UNCHANGED walletVars
    BY <2>2 DEF walletVars, WalletInv, LeftBehindFirst, OneAtATime, WordsAreSeen,
                WordsAreOfWallet, AllSeen, NoneSeen
  <2> QED BY <2>1, <2>2
<1> QED BY <1>1, <1>2, PTL DEF WalletSpec

\* Whatever a page left behind still makes, and however often the user goes back
\* and forth: the words WelcomePage and WalletPage show belong to the wallet file.
THEOREM WordsOfWallet == WalletSpec => []WordsAreOfWallet
<1>1. WalletInv => WordsAreOfWallet
  BY DEF WalletInv
<1> QED BY <1>1, WalletInvariant, PTL

-----------------------------------------------------------------------------
(* Types: only so many commands wait, and no more wallets are made.        *)

LEMMA WalletTypes == WalletSpec => []WalletTypeOK
<1> DEFINE Counted ==
             /\ keyfile \in 0..MaxWallets /\ made \in 0..MaxWallets /\ words \in 0..MaxWallets
             /\ Len(commands) <= MaxCommands
<1>1. WalletInit => Counted
  <2>1. Len(<<[what |-> "info", seen |-> TRUE]>>) = 1
    OBVIOUS
  <2> QED BY <2>1, WalletAssumption DEF WalletInit
<1>2. WalletInv /\ Counted /\ [WalletNext]_walletVars => Counted'
  <2> SUFFICES ASSUME WalletInv, Counted, [WalletNext]_walletVars PROVE Counted'
    OBVIOUS
  <2>1. MaxWallets \in Nat /\ MaxCommands \in Nat /\ Len(commands) \in Nat
    BY WalletAssumption DEF WalletInv
  <2>2. /\ keyfile' \in {keyfile, made'} /\ words' \in {words, made', 0}
        /\ made' = made \/ (made' = made + 1 /\ made < MaxWallets)
    BY DEF WalletNext, ChooseStep, Back, HandleCreate, HandleImport, ContinueAfterCreate,
       HandleInfo, LeaveWallet, OpenWallet, Created, Imported, CommandFails, Informed,
       InfoFails, Unseen, SignedIn, SignInFails, Make, walletVars
  <2>3. Len(commands') <= MaxCommands
    <3>1. ASSUME NEW what \in {"info", "create", "import"}, Invoke(what)
          PROVE  Len(commands') <= MaxCommands
      BY <2>1, <3>1, InvokeKeeps DEF Invoke, WalletInv
    <3>2. ASSUME NEW what \in {"info", "create", "import"}, NEW seen \in BOOLEAN,
                 Runs(what, seen)
          PROVE  Len(commands') <= MaxCommands
      <4>1. commands \in Seq(Cmds) /\ commands # <<>> /\ commands' = Tail(commands)
        BY <3>2 DEF Runs, WalletInv
      <4> QED BY <2>1, <4>1
    <3>3. ASSUME Leaves
          PROVE  Len(commands') <= MaxCommands
      <4>1. DOMAIN commands' = 1..Len(commands') /\ Len(commands') \in Nat
        BY <3>3, LeavesKeeps DEF WalletInv
      <4>2. DOMAIN commands' = 1..Len(commands)
        BY <3>3 DEF Leaves, WalletInv
      <4>3. Len(commands') = Len(commands)
        BY <2>1, <4>1, <4>2
      <4> QED BY <4>3
    <3>4. CASE HandleCreate \/ HandleImport \/ HandleInfo \/ OpenWallet
      BY <3>1, <3>4 DEF HandleCreate, HandleImport, HandleInfo, OpenWallet
    <3>5. CASE Created \/ Imported \/ CommandFails \/ Informed \/ InfoFails \/ Unseen
      BY <3>2, <3>5 DEF Created, Imported, CommandFails, Informed, InfoFails, Unseen, Done
    <3>6. CASE LeaveWallet \/ SignedIn
      BY <3>3, <3>6 DEF LeaveWallet, SignedIn
    <3>7. CASE ChooseStep \/ Back \/ ContinueAfterCreate \/ SignInFails \/ UNCHANGED walletVars
      BY <3>7 DEF ChooseStep, Back, ContinueAfterCreate, SignInFails, walletVars
    <3> QED BY <3>4, <3>5, <3>6, <3>7 DEF WalletNext
  <2> QED BY <2>1, <2>2, <2>3
<1>3. WalletInv /\ Counted => WalletTypeOK
  <2>1. commands \in Seq(Cmds) => \A i \in DOMAIN commands : commands[i] \in Cmds
    OBVIOUS
  <2> QED BY <2>1 DEF WalletInv, WalletTypeOK, Cmds
<1> HIDE DEF Counted
<1> QED BY <1>1, <1>2, <1>3, WalletInvariant, PTL DEF WalletSpec

-----------------------------------------------------------------------------
(* Languages: the one shown is the system's while the window says so.      *)

LanguageSpec == LanguageInit /\ [][LanguageNext]_languageVars

LanguageInv == LanguageTypeOK /\ SystemIsFollowed

(* English is a language, and none has the name of what the settings store *)
(* instead of a language.                                                  *)
LEMMA LanguageNames == "en" \in Languages /\ Languages \cap {Unset, SystemPlaceholder} = {}
BY DEF Languages, Unset, SystemPlaceholder

LEMMA DetectableLanguages == Detectable \subseteq Languages
BY LanguageNames DEF Detectable, MatchLanguage

LEMMA LanguageStep == LanguageInv /\ LanguageNext => LanguageInv'
<1> SUFFICES ASSUME LanguageInv, LanguageNext PROVE LanguageInv'
  OBVIOUS
<1> USE DEF LanguageInv, LanguageTypeOK, SystemIsFollowed
<1>1. CASE ReloadWindow
  <2>1. MatchLanguage(NavigatorLocale) \in Languages
    BY DetectableLanguages DEF Detectable
  <2>2. isSystemDefault' \in BOOLEAN /\ language' \in Languages
    <3>1. CASE storedLanguage \in {Unset, SystemPlaceholder}
      <4>1. isSystemDefault' = TRUE
        BY <1>1, <3>1, Zenon DEF ReloadWindow
      <4> QED BY <1>1, <2>1, <4>1 DEF ReloadWindow
    <3>2. CASE storedLanguage \in Languages
      <4>1. storedLanguage \notin {Unset, SystemPlaceholder}
        BY <3>2, LanguageNames
      <4>2. isSystemDefault' = FALSE
        <5>1. (storedLanguage \in {Unset, SystemPlaceholder}) = FALSE
          BY <4>1
        <5> QED BY <1>1, <5>1, Zenon DEF ReloadWindow
      <4> QED BY <1>1, <3>2, <4>2 DEF ReloadWindow
    <3> QED BY <3>1, <3>2
  <2>3. /\ detections' \subseteq {"first", "follow"}
        /\ isSystemDefault' => detections' # {}
    BY <1>1, LanguageNames DEF ReloadWindow
  <2>4. UNCHANGED <<storage, storedLanguage>>
    BY <1>1 DEF ReloadWindow
  <2> QED BY <2>2, <2>3, <2>4
<1>2. CASE DetectSystemLanguage
  <2>1. language' \in Detectable /\ UNCHANGED <<storage, isSystemDefault>>
    BY <1>2 DEF DetectSystemLanguage
  <2>2. storedLanguage' \in Languages \cup {Unset, SystemPlaceholder}
    BY <1>2, <2>1, DetectableLanguages DEF DetectSystemLanguage, PersistLanguage
  <2>3. detections' \subseteq {"first", "follow"} /\ UNCHANGED Detectable
    BY <1>2 DEF DetectSystemLanguage, Detectable, MatchLanguage
  <2> QED BY <2>1, <2>2, <2>3, DetectableLanguages
<1>3. CASE SetLanguage
  BY <1>3 DEF SetLanguage, PersistLanguage
<1>4. CASE SetSystemLanguage
  BY <1>4 DEF SetSystemLanguage, PersistLanguage
<1> QED BY <1>1, <1>2, <1>3, <1>4 DEF LanguageNext

LEMMA LanguageInvariant == LanguageSpec => []LanguageInv
<1>1. LanguageInit => LanguageInv
  BY DetectableLanguages
     DEF LanguageInit, LanguageInv, LanguageTypeOK, SystemIsFollowed, Detectable
<1>2. LanguageInv /\ UNCHANGED languageVars => LanguageInv'
  BY DEF languageVars, LanguageInv, LanguageTypeOK, SystemIsFollowed, Detectable, MatchLanguage
<1> QED BY <1>1, <1>2, LanguageStep, PTL DEF LanguageSpec

\* Whenever detection has ended, a window that says it follows the system (the
\* provider of i18n/index.tsx) shows a language that detection can give, whatever
\* was chosen, stored or reloaded meanwhile.
THEOREM SystemFollowed == LanguageSpec => []SystemIsFollowed
BY LanguageInvariant, PTL DEF LanguageInv

-----------------------------------------------------------------------------
(* Prices: the table only gets newer.                                      *)

PriceSpec == PriceInit /\ [][PriceNext]_priceVars

\* At most one answer is awaited, and none once the flag is down.
OneFetch ==
    /\ inFlight \in BOOLEAN
    /\ ~inFlight => fetches = {}
    /\ \A f, g \in fetches : f = g

\* The table is no newer than an answer on its way, nor that than the offers.
TableBehind ==
    /\ market.version \in Nat /\ allPricing.version \in Nat
    /\ allPricing.version <= market.version
    /\ \A f \in fetches :
         f.version \in Nat /\ allPricing.version <= f.version /\ f.version <= market.version

PriceInv == OneFetch /\ TableBehind

\* What no other operation than the three on offers touches.
tableVars == <<market, fetches, inFlight, allPricing>>

LEMMA SelectorLeavesTable ==
    ASSUME ToggleSelect \/ CloseSelect \/ Search \/ SelectAll \/ SelectCountry
    PROVE  UNCHANGED tableVars
BY DEF ToggleSelect, CloseSelect, Search, SelectAll, SelectCountry, tableVars

LEMMA PriceStep == PriceInv /\ [PriceNext]_priceVars => PriceInv'
<1> SUFFICES ASSUME PriceInv, [PriceNext]_priceVars PROVE PriceInv'
  OBVIOUS
<1> USE DEF PriceInv, OneFetch, TableBehind
<1>1. CASE FetchPrices
  <2>1. ~inFlight /\ fetches = {} /\ fetches' = {market} /\ inFlight' = TRUE
    BY <1>1 DEF FetchPrices
  <2>2. UNCHANGED <<market, allPricing>>
    BY <1>1 DEF FetchPrices
  <2> QED BY <2>1, <2>2
<1>2. CASE PricesArrive
  <2>1. PICK prices \in fetches :
          /\ fetches' = fetches \ {prices} /\ inFlight' = FALSE /\ UNCHANGED market
          /\ allPricing' = prices \/ UNCHANGED allPricing
    BY <1>2 DEF PricesArrive, Listed
  <2>2. fetches' = {}
    BY <2>1
  <2> QED BY <2>1, <2>2
<1>3. CASE OffersChange
  <2>1. market'.version = market.version + 1
    BY <1>3 DEF OffersChange
  <2>2. UNCHANGED <<fetches, inFlight, allPricing>>
    BY <1>3 DEF OffersChange
  <2> QED BY <2>1, <2>2
<1>4. CASE UNCHANGED tableVars
  BY <1>4 DEF tableVars
<1>5. UNCHANGED priceVars => UNCHANGED tableVars
  BY DEF priceVars, tableVars
<1> QED BY <1>1, <1>2, <1>3, <1>4, <1>5, SelectorLeavesTable DEF PriceNext

LEMMA PriceInvariant == PriceSpec => []PriceInv
<1>1. ASSUME PriceInit PROVE PriceInv
  <2>1. inFlight \in BOOLEAN
    BY <1>1, Zenon DEF PriceInit
  <2> QED BY <1>1, <2>1 DEF PriceInit, PriceInv, OneFetch, TableBehind, NoOffers
<1> QED BY <1>1, PriceStep, PTL DEF PriceSpec

\* Whatever the offers do while fetchPrices of MarketPage awaits an answer, and
\* whichever answers fail: the table of prices is never replaced by older offers.
THEOREM PricesAdvance == PriceSpec => PricesNeverGoBack
<1>1. PriceInv /\ [PriceNext]_priceVars
        => [allPricing'.version >= allPricing.version]_priceVars
  <2> SUFFICES ASSUME PriceInv, PriceNext PROVE allPricing'.version >= allPricing.version
    OBVIOUS
  <2> USE DEF PriceInv, TableBehind
  <2>1. CASE PricesArrive
    BY <2>1 DEF PricesArrive, Listed
  <2>2. CASE UNCHANGED allPricing
    BY <2>2
  <2> QED BY <2>1, <2>2, SelectorLeavesTable DEF PriceNext, FetchPrices, OffersChange, tableVars
<1> QED BY <1>1, PriceInvariant, PTL DEF PriceSpec, PricesNeverGoBack

-----------------------------------------------------------------------------
(* Types.                                                                  *)

\* The selector is open only for a table that has countries to choose from.
LEMMA PriceTypesStep == PriceTypeOK /\ PriceNext => PriceTypeOK'
<1> SUFFICES ASSUME PriceTypeOK, PriceNext PROVE PriceTypeOK'
  OBVIOUS
<1> DEFINE Offers == [version : 0..MaxVersion, countries : SUBSET Countries]
<1>1. /\ market' \in Offers /\ fetches' \subseteq Offers /\ allPricing' \in Offers
      /\ countryFilter' \in Countries \cup {All} /\ query' \subseteq Countries
  <2> USE VersionAssumption DEF PriceTypeOK
  <2>1. CASE FetchPrices \/ PricesArrive
    BY <2>1 DEF FetchPrices, PricesArrive, Listed
  <2>2. CASE OffersChange
    BY <2>2 DEF OffersChange
  <2>3. CASE ToggleSelect \/ CloseSelect \/ Search \/ SelectAll \/ SelectCountry
    BY <2>3 DEF ToggleSelect, CloseSelect, Search, SelectAll, SelectCountry, FilteredCountries,
       DistinctCountries
  <2> QED BY <2>1, <2>2, <2>3 DEF PriceNext
<1>2. inFlight' \in BOOLEAN /\ selectOpen' \in BOOLEAN
  <2>1. inFlight \in BOOLEAN /\ selectOpen \in BOOLEAN
    BY DEF PriceTypeOK
  <2>2. CASE FetchPrices \/ PricesArrive \/ OffersChange
    BY <2>1, <2>2, Zenon DEF FetchPrices, PricesArrive, Listed, OffersChange
  <2>3. CASE ToggleSelect \/ CloseSelect \/ Search \/ SelectAll \/ SelectCountry
    BY <2>1, <2>3, Zenon DEF ToggleSelect, CloseSelect, Search, SelectAll, SelectCountry
  <2> QED BY <2>2, <2>3 DEF PriceNext
<1>3. selectOpen' => SelectShown'
  <2>1. selectOpen => Cardinality(allPricing.countries) > 1
    BY DEF PriceTypeOK, SelectShown, DistinctCountries
  <2>2. selectOpen' => Cardinality(allPricing'.countries) > 1
    <3>1. CASE PricesArrive
      BY <2>1, <3>1 DEF PricesArrive, Listed
    <3>2. CASE FetchPrices \/ OffersChange \/ Search
      BY <2>1, <3>2 DEF FetchPrices, OffersChange, Search
    <3>3. CASE ToggleSelect \/ CloseSelect \/ SelectAll \/ SelectCountry
      BY <2>1, <3>3 DEF ToggleSelect, CloseSelect, SelectAll, SelectCountry, SelectShown,
         DistinctCountries
    <3> QED BY <3>1, <3>2, <3>3 DEF PriceNext
  <2> QED BY <2>2 DEF SelectShown, DistinctCountries
<1> QED BY <1>1, <1>2, <1>3 DEF PriceTypeOK

LEMMA PriceTypes == PriceSpec => []PriceTypeOK
<1>1. PriceInit => PriceTypeOK
  <2>1. PriceInit => inFlight \in BOOLEAN /\ selectOpen \in BOOLEAN /\ ~selectOpen
    BY Zenon DEF PriceInit
  <2> QED BY <2>1, VersionAssumption DEF PriceInit, PriceTypeOK, NoOffers
<1>2. PriceTypeOK /\ UNCHANGED priceVars => PriceTypeOK'
  BY DEF priceVars, PriceTypeOK, SelectShown, DistinctCountries
<1> QED BY <1>1, <1>2, PriceTypesStep, PTL DEF PriceSpec

-----------------------------------------------------------------------------
(* Updates: the share of a download that is shown only grows.              *)

UpdaterSpec == UpdaterInit /\ [][UpdaterNext]_updaterVars

Positive == Nat \ {0}
OffDownload == {"idle", "check", "found", "install", "done"}

\* What the banner shows of a download is what it has got, once it got anything.
ShownIsReceived ==
    install.at = "download" =>
        \/ progress.percent = 0
        \/ /\ progress.length \in Positive
           /\ progress.percent = Percent(install.bytes, progress.length)

UpdaterInv ==
    /\ install \in [at : OffDownload \cup {"download"}, bytes : Nat]
    /\ progress \in [length : Nat, percent : Nat]
    /\ ShownIsReceived

-----------------------------------------------------------------------------
LEMMA DivMonotone ==
    ASSUME NEW a \in Nat, NEW b \in Nat, NEW n \in Positive, a <= b
    PROVE  a \div n \in Nat /\ a \div n <= b \div n
BY DEF Positive

(* More bytes of the same length are no smaller share of it.               *)
LEMMA PercentMonotone ==
    ASSUME NEW bytes \in Nat, NEW more \in Nat, NEW length \in Positive, bytes <= more
    PROVE  /\ Percent(bytes, length) \in Nat
           /\ Percent(bytes, length) <= Percent(more, length)
<1> DEFINE a == 200 * bytes + length
           b == 200 * more + length
           n == 2 * length
<1>1. a \in Nat /\ b \in Nat /\ n \in Positive /\ a <= b
  BY DEF Positive
<1>2. a \div n \in Nat /\ b \div n \in Nat /\ a \div n <= b \div n
  <2> HIDE DEF a, b, n
  <2> QED BY <1>1, DivMonotone, b <= b
<1>3. /\ Percent(bytes, length) = IF a \div n < 99 THEN a \div n ELSE 99
      /\ Percent(more, length) = IF b \div n < 99 THEN b \div n ELSE 99
  BY DEF Percent
<1> HIDE DEF a, b, n
<1> QED BY <1>2, <1>3

(* A chunk arrives: the share grows, from what was shown.                  *)
LEMMA ProgressStep ==
    ASSUME UpdaterInv, Progress
    PROVE  UpdaterInv' /\ progress'.percent >= progress.percent
<1> USE DEF UpdaterInv
<1>1. PICK chunk \in 1..2 :
        LET bytes == install.bytes + chunk
            length == IF progress.length = 0 THEN 1 ELSE progress.length
        IN  /\ Install("download", bytes)
            /\ progress' = [length |-> length, percent |-> Percent(bytes, length)]
  BY DEF Progress
<1> DEFINE bytes == install.bytes + chunk
           length == IF progress.length = 0 THEN 1 ELSE progress.length
<1>2. /\ install' = [at |-> "download", bytes |-> bytes]
      /\ progress' = [length |-> length, percent |-> Percent(bytes, length)]
  BY <1>1 DEF Install
<1>3. bytes \in Nat /\ length \in Positive /\ install.bytes \in Nat /\ install.bytes <= bytes
  BY DEF Positive
<1>4. progress.length \in Positive => length = progress.length
  BY DEF Positive
<1>5. install.at = "download"
  BY DEF Progress
<1> HIDE DEF bytes, length
<1>6. /\ Percent(bytes, length) \in Nat
      /\ Percent(install.bytes, length) <= Percent(bytes, length)
  BY <1>3, PercentMonotone, bytes <= bytes
<1>7. UpdaterInv'
  BY <1>2, <1>3, <1>6 DEF ShownIsReceived, Positive, OffDownload
<1>8. progress'.percent >= progress.percent
  BY <1>2, <1>4, <1>5, <1>6 DEF ShownIsReceived
<1> QED BY <1>7, <1>8

(* Every other step ends the download, starts one, or leaves it alone.     *)
LEMMA OtherSteps ==
    ASSUME UpdaterInv, UpdaterNext, ~Progress
    PROVE  \/ UNCHANGED <<install, progress>>
           \/ /\ progress' = progress /\ install' \in [at : OffDownload, bytes : {0}]
           \/ progress' = NoProgress /\ install' \in [at : OffDownload, bytes : {0}]
           \/ \E l \in Lengths : /\ progress' = [length |-> l, percent |-> 0]
                                 /\ install' = [at |-> "download", bytes |-> 0]
<1>1. CASE Release \/ CheckForUpdates \/ UpdateFound \/ CheckFails
  BY <1>1 DEF Release, CheckForUpdates, UpdateFound, CheckFails, Checked, bannerVars
<1>2. CASE DownloadAndInstall \/ InstallChecked \/ Finished \/ Installed \/ InstallFails
  BY <1>2 DEF DownloadAndInstall, InstallChecked, Finished, Installed, InstallFails, Install,
     OffDownload
<1>3. CASE Started
  BY <1>3 DEF Started, Install
<1>4. ASSUME NEW newest, Relaunch(newest)
      PROVE  progress' = NoProgress /\ install' \in [at : OffDownload, bytes : {0}]
  BY <1>4 DEF Relaunch, NoInstall, OffDownload
<1>5. CASE RestartApp \/ PageInstallEnds \/ OrphanEnds
  BY <1>4, <1>5 DEF RestartApp, PageInstallEnds, OrphanEnds, bannerVars
<1>6. CASE HandleCheckUpdate \/ PageChecked \/ CancelUpdate \/ HandleInstallUpdate \/ LeaveAccount
  BY <1>6 DEF HandleCheckUpdate, PageChecked, CancelUpdate, HandleInstallUpdate, LeaveAccount,
     bannerVars
<1> QED BY <1>1, <1>2, <1>3, <1>5, <1>6 DEF UpdaterNext

LEMMA UpdaterInvariant == UpdaterSpec => []UpdaterInv
<1>1. UpdaterInit => UpdaterInv
  BY DEF UpdaterInit, OffDownload, UpdaterInv, ShownIsReceived, NoProgress, NoInstall
<1>2. UpdaterInv /\ [UpdaterNext]_updaterVars => UpdaterInv'
  <2> SUFFICES ASSUME UpdaterInv, [UpdaterNext]_updaterVars PROVE UpdaterInv'
    OBVIOUS
  <2> USE DEF UpdaterInv
  <2>1. CASE Progress
    BY <2>1, ProgressStep
  <2>2. CASE UNCHANGED <<install, progress>>
    BY <2>2 DEF ShownIsReceived
  <2>3. CASE UpdaterNext /\ ~Progress
    BY <2>2, <2>3, OtherSteps, UpdaterAssumption DEF ShownIsReceived, NoProgress, OffDownload
  <2> QED BY <2>1, <2>2, <2>3 DEF updaterVars
<1> QED BY <1>1, <1>2, PTL DEF UpdaterSpec

\* The banner of useUpdater never shows less of a download than it has shown,
\* whatever length the server announced and however its chunks arrive: the
\* rounded percentage, limited to 99, grows with the bytes.
THEOREM ProgressGrows == UpdaterSpec => ProgressForward
<1>1. UpdaterInv /\ [UpdaterNext]_updaterVars
        => [progress # NoProgress /\ progress' # NoProgress
              => progress'.percent = 0 \/ progress'.percent >= progress.percent]_updaterVars
  <2> SUFFICES ASSUME UpdaterInv, UpdaterNext, progress' # NoProgress
               PROVE  progress'.percent = 0 \/ progress'.percent >= progress.percent
    OBVIOUS
  <2>1. CASE Progress
    BY <2>1, ProgressStep
  <2>2. CASE ~Progress
    <3>1. progress' = progress \/ progress'.percent = 0
      BY <2>2, OtherSteps
    <3> QED BY <3>1 DEF UpdaterInv
  <2> QED BY <2>1, <2>2
<1> QED BY <1>1, UpdaterInvariant, PTL DEF UpdaterSpec, ProgressForward

-----------------------------------------------------------------------------
(* Types.                                                                  *)

UpdaterFlags == {checking, downloading, updateError, readyToRestart, pageCheck}

LEMMA UpdaterFlagsTyped ==
    ASSUME UpdaterFlags \subseteq BOOLEAN, UpdaterNext
    PROVE  UpdaterFlags' \subseteq BOOLEAN
<1> USE DEF UpdaterFlags, pageVars, bannerVars
<1>1. CASE Release \/ CheckForUpdates \/ UpdateFound \/ CheckFails
  BY <1>1, Zenon DEF Release, CheckForUpdates, UpdateFound, CheckFails, Checked
<1>2. CASE DownloadAndInstall \/ InstallChecked \/ Started \/ Progress
  BY <1>2, Zenon DEF DownloadAndInstall, InstallChecked, Started, Progress
<1>3. CASE Finished \/ Installed \/ InstallFails
  BY <1>3, Zenon DEF Finished, Installed, InstallFails
<1>4. ASSUME NEW newest, Relaunch(newest) PROVE UpdaterFlags' \subseteq BOOLEAN
  BY <1>4, Zenon DEF Relaunch
<1>5. CASE RestartApp
  BY <1>4, <1>5, Zenon DEF RestartApp
<1>6. CASE PageInstallEnds \/ OrphanEnds
  BY <1>4, <1>6, Zenon DEF PageInstallEnds, OrphanEnds
<1>7. CASE HandleCheckUpdate \/ PageChecked \/ CancelUpdate \/ HandleInstallUpdate \/ LeaveAccount
  BY <1>7, Zenon DEF HandleCheckUpdate, PageChecked, CancelUpdate, HandleInstallUpdate,
     LeaveAccount
<1> QED BY <1>1, <1>2, <1>3, <1>5, <1>6, <1>7 DEF UpdaterNext

ReleasesTyped ==
    /\ release \in 0..MaxReleases /\ releases \in 0..MaxReleases
    /\ update \in 0..MaxReleases /\ updateRef \in 0..MaxReleases
    /\ checks \subseteq 0..MaxReleases
    /\ updatePhase \in {"idle", "checking", "uptodate", "available", "downloading", "error"}
    /\ orphans \in 0..MaxOrphans

LEMMA ReleasesTypedStep ==
    ASSUME ReleasesTyped, UpdaterNext
    PROVE  ReleasesTyped'
<1>1. MaxReleases \in Nat /\ MaxOrphans \in Nat
  BY UpdaterAssumption
<1> USE <1>1 DEF ReleasesTyped, Nothing, serverVars, pageVars, bannerVars
<1>2. CASE Release
  BY <1>2 DEF Release
<1>3. CASE CheckForUpdates \/ UpdateFound \/ CheckFails
  BY <1>3 DEF CheckForUpdates, UpdateFound, CheckFails, Checked
<1>4. CASE DownloadAndInstall \/ InstallChecked \/ Started \/ Progress
  BY <1>4 DEF DownloadAndInstall, InstallChecked, Started, Progress
<1>5. CASE Finished \/ Installed \/ InstallFails
  BY <1>5 DEF Finished, Installed, InstallFails
<1>6. ASSUME NEW newest, Relaunch(newest) PROVE ReleasesTyped'
  BY <1>6 DEF Relaunch
<1>7. CASE RestartApp \/ PageInstallEnds
  BY <1>6, <1>7 DEF RestartApp, PageInstallEnds
<1>8. CASE OrphanEnds
  <2>1. CASE Relaunch(TRUE)
    BY <1>6, <2>1
  <2>2. CASE ~Relaunch(TRUE)
    <3>1. /\ orphans > 0 /\ orphans' = orphans - 1
          /\ UNCHANGED <<release, releases, update, updateRef, checks, updatePhase>>
      BY <1>8, <2>2 DEF OrphanEnds
    <3> QED BY <3>1
  <2> QED BY <2>1, <2>2
<1>9. CASE HandleCheckUpdate \/ PageChecked \/ CancelUpdate \/ HandleInstallUpdate
  BY <1>9 DEF HandleCheckUpdate, PageChecked, CancelUpdate, HandleInstallUpdate
<1>10. CASE LeaveAccount
  BY <1>10 DEF LeaveAccount
<1> QED BY <1>2, <1>3, <1>4, <1>5, <1>7, <1>8, <1>9, <1>10 DEF UpdaterNext

DownloadTyped ==
    /\ progress \in [length : Lengths \cup {0, 1}, percent : 0..100]
    /\ install \in [at : OffDownload \cup {"download"}, bytes : 0..MaxBytes]

LEMMA DownloadTypedStep ==
    ASSUME UpdaterInv, DownloadTyped, UpdaterNext
    PROVE  DownloadTyped'
<1> USE UpdaterAssumption DEF DownloadTyped
<1>1. CASE Progress
  <2>1. PICK chunk \in 1..2 :
          LET bytes == install.bytes + chunk
              length == IF progress.length = 0 THEN 1 ELSE progress.length
          IN  /\ bytes <= MaxBytes
              /\ Install("download", bytes)
              /\ progress' = [length |-> length, percent |-> Percent(bytes, length)]
    BY <1>1 DEF Progress
  <2>2. progress'.percent \in Nat
    BY <1>1, ProgressStep DEF UpdaterInv
  <2>3. progress'.percent <= 99
    <3> DEFINE rounded == (200 * (install.bytes + chunk)
                             + (IF progress.length = 0 THEN 1 ELSE progress.length))
                          \div (2 * (IF progress.length = 0 THEN 1 ELSE progress.length))
    <3>1. progress'.percent = IF rounded < 99 THEN rounded ELSE 99
      BY <2>1 DEF Percent
    <3>2. progress'.percent = 99 \/ progress'.percent < 99
      <4> HIDE DEF rounded
      <4> QED BY <3>1
    <3> QED BY <2>2, <3>2
  <2> QED BY <2>1, <2>2, <2>3 DEF Install, OffDownload
<1>2. CASE ~Progress
  <2>1. \/ UNCHANGED <<install, progress>>
        \/ /\ progress' = progress /\ install' \in [at : OffDownload, bytes : {0}]
        \/ progress' = NoProgress /\ install' \in [at : OffDownload, bytes : {0}]
        \/ \E l \in Lengths : /\ progress' = [length |-> l, percent |-> 0]
                              /\ install' = [at |-> "download", bytes |-> 0]
    BY <1>2, OtherSteps
  <2> QED BY <2>1 DEF NoProgress
<1> QED BY <1>1, <1>2

LEMMA UpdaterTypes == UpdaterSpec => []UpdaterTypeOK
<1> DEFINE Types == UpdaterFlags \subseteq BOOLEAN /\ ReleasesTyped /\ DownloadTyped
<1>1. UpdaterInit => Types
  <2>1. UpdaterInit => UpdaterFlags \subseteq BOOLEAN
    BY Zenon DEF UpdaterInit, UpdaterFlags
  <2> QED BY <2>1, UpdaterAssumption
          DEF UpdaterInit, ReleasesTyped, DownloadTyped, NoProgress, NoInstall, Nothing, OffDownload
<1>2. UpdaterInv /\ Types /\ [UpdaterNext]_updaterVars => Types'
  <2>1. CASE UpdaterNext
    BY <2>1, UpdaterFlagsTyped, ReleasesTypedStep, DownloadTypedStep
  <2>2. CASE UNCHANGED updaterVars
    BY <2>2 DEF updaterVars, UpdaterFlags, ReleasesTyped, DownloadTyped
  <2> QED BY <2>1, <2>2
<1>3. Types => UpdaterTypeOK
  BY DEF UpdaterTypeOK, UpdaterFlags, ReleasesTyped, DownloadTyped, OffDownload
<1> HIDE DEF Types
<1> QED BY <1>1, <1>2, <1>3, UpdaterInvariant, PTL DEF UpdaterSpec

-----------------------------------------------------------------------------
(* The seller: what is shown when all its loops have ended.                *)

SellerSpec == SellerInit /\ [][SellerNext]_sellerVars

\* A task is there only while its loop is.  A path of its own is at work only
\* while it waits for it, or when its loop has left them both behind.
TasksOfLoops ==
    /\ loop \in [Loops -> {"none", "run", "join", "ended"}]
    /\ task \in [Loops -> Steps] /\ fallback \in [Loops -> Steps]
    /\ \A l \in Loops :
         /\ loop[l] = "none" => task[l] = "none"
         /\ loop[l] = "ended" => task[l] = "ended"
         /\ task[l] \notin {"wait", "ended"} => fallback[l] = "none"
         /\ task[l] = "ended" => fallback[l] \in {"none", "ended"} \/ l \in left

SellerInv == TasksOfLoops /\ EndedShowsDisconnected

\* All loops have ended, and left no path behind.
Quiet == \A l \in Loops : loop[l] \in {"none", "ended"} /\ l \notin left

-----------------------------------------------------------------------------
LEMMA SellerInitInv == SellerInit => SellerInv
BY DEF SellerInit, SellerInv, TasksOfLoops, EndedShowsDisconnected, Steps

\* Starting and stopping: a start that shows a connection has started a loop.
LEMMA SellerCommandStep ==
    ASSUME SellerInv,
           (\E s \in Starts : \/ HandleStart(s) \/ Registered(s) \/ RegisterFails(s)
                              \/ StopsOther(s) \/ StartSeller(s) \/ StartReturns(s))
             \/ StopSeller \/ StopReturns
    PROVE  SellerInv'
<1> USE DEF SellerInv
<1>1. CASE \E s \in Starts : StartSeller(s)
  <2>1. PICK l \in Loops : loop[l] = "none" /\ loop' = [loop EXCEPT ![l] = "run"]
                           /\ task' = [task EXCEPT ![l] = "connect"]
    BY <1>1 DEF StartSeller
  <2>2. UNCHANGED <<fallback, left>>
    BY <1>1 DEF StartSeller
  <2>3. TasksOfLoops'
    BY <2>1, <2>2 DEF TasksOfLoops, Steps
  <2>4. loop'[l] = "run"
    BY <2>1 DEF TasksOfLoops
  <2> QED BY <2>3, <2>4 DEF EndedShowsDisconnected
<1>2. CASE \E s \in Starts : HandleStart(s) \/ Registered(s) \/ RegisterFails(s) \/ StopsOther(s)
  BY <1>2 DEF HandleStart, Registered, RegisterFails, StopsOther, loopVars, uiVars,
     TasksOfLoops, EndedShowsDisconnected
<1>3. CASE \E s \in Starts : StartReturns(s)
  BY <1>3 DEF StartReturns, loopVars, TasksOfLoops, EndedShowsDisconnected
<1>4. CASE StopSeller \/ StopReturns
  BY <1>4 DEF StopSeller, StopReturns, loopVars, uiVars, TasksOfLoops, EndedShowsDisconnected
<1> QED BY <1>1, <1>2, <1>3, <1>4

\* The loop itself: what it emits when it ends is that it is disconnected.
LEMMA LoopStep ==
    ASSUME SellerInv, NEW l \in Loops,
           Cancels(l) \/ Joined(l) \/ JoinTimesOut(l) \/ MultiplexUnsupported(l) \/ FallbackEnds(l)
    PROVE  SellerInv'
<1> USE DEF SellerInv
<1>1. CASE Cancels(l)
  <2>1. TasksOfLoops' /\ loop'[l] = "join"
    BY <1>1 DEF Cancels, TasksOfLoops
  <2> QED BY <2>1 DEF EndedShowsDisconnected
<1>2. CASE Joined(l)
  BY <1>2 DEF Joined, Emit, TasksOfLoops, EndedShowsDisconnected
<1>3. CASE JoinTimesOut(l)
  <2>1. TasksOfLoops'
    BY <1>3 DEF JoinTimesOut, PathAtWork, TasksOfLoops, Steps
  <2> QED BY <2>1, <1>3 DEF JoinTimesOut, Emit, EndedShowsDisconnected
<1>4. CASE MultiplexUnsupported(l)
  BY <1>4 DEF MultiplexUnsupported, Same, Emit, TasksOfLoops, EndedShowsDisconnected, Steps
<1>5. CASE FallbackEnds(l)
  <2>1. TasksOfLoops' /\ UNCHANGED <<loop, left, sellerConnected>>
    BY <1>5 DEF FallbackEnds, Move, Same, uiVars, TasksOfLoops, Steps
  <2> QED BY <2>1 DEF EndedShowsDisconnected
<1> QED BY <1>1, <1>2, <1>3, <1>4, <1>5

\* A task or a path that is at work belongs to a loop that has not ended, or is
\* a path left behind; neither is there when all is quiet.
LEMMA WorkingIsNotQuiet ==
    ASSUME TasksOfLoops, NEW x \in Tasks, NEW at \in Steps \ {"none"},
           at # "wait", Where(x) \notin {"none", "wait", "ended"}, Move(x, at),
           UNCHANGED <<loop, left>>
    PROVE  TasksOfLoops' /\ ~Quiet'
<1>1. x[1] \in Loops
  BY DEF Tasks
<1>2. CASE x[2] = "task"
  <2>1. task[x[1]] \notin {"none", "wait", "ended"}
    BY <1>2 DEF Where
  <2>2. task' = [task EXCEPT ![x[1]] = at] /\ UNCHANGED fallback
    BY <1>2 DEF Move
  <2>3. loop[x[1]] \notin {"none", "ended"}
    BY <1>1, <2>1 DEF TasksOfLoops
  <2>4. fallback[x[1]] = "none"
    BY <1>1, <2>1 DEF TasksOfLoops
  <2>5. TasksOfLoops'
    <3>1. task' \in [Loops -> Steps] /\ task'[x[1]] = at
          /\ \A l \in Loops \ {x[1]} : task'[l] = task[l]
      BY <1>1, <2>2 DEF TasksOfLoops
    <3> QED BY <1>1, <2>2, <2>3, <2>4, <3>1 DEF TasksOfLoops
  <2> QED BY <1>1, <2>3, <2>5 DEF Quiet
<1>3. CASE x[2] # "task"
  <2>1. fallback' = [fallback EXCEPT ![x[1]] = at] /\ UNCHANGED task
    BY <1>3 DEF Move
  <2>2. fallback[x[1]] \notin {"none", "ended"}
    BY <1>3 DEF Where
  <2>3. loop[x[1]] \notin {"none", "ended"} \/ x[1] \in left
    BY <1>1, <2>2 DEF TasksOfLoops
  <2>4. TasksOfLoops'
    BY <1>1, <2>1, <2>2 DEF TasksOfLoops
  <2> QED BY <1>1, <2>3, <2>4 DEF Quiet
<1> QED BY <1>2, <1>3

LEMMA SellerTaskStep ==
    ASSUME SellerInv, NEW x \in Tasks,
           \/ Connects(x) \/ Fails(x) \/ Disconnects(x) \/ StopsUp(x) \/ AuthExpired(x)
           \/ Reauthenticates(x) \/ ReauthFails(x) \/ BackoffEnds(x) \/ PauseEnds(x)
    PROVE  SellerInv'
<1>1. Where(x) \notin {"none", "wait", "ended"} /\ UNCHANGED <<loop, left>>
  BY DEF Connects, Fails, Disconnects, StopsUp, AuthExpired, Reauthenticates, ReauthFails,
     BackoffEnds, PauseEnds, Turns, Same
<1>2. PICK at \in Steps \ {"none"} : Move(x, at) /\ at # "wait"
  BY DEF Connects, Fails, Disconnects, StopsUp, AuthExpired, Reauthenticates, ReauthFails,
     BackoffEnds, PauseEnds, Turns, Steps
<1>3. TasksOfLoops' /\ ~Quiet'
  BY <1>1, <1>2, WorkingIsNotQuiet DEF SellerInv
<1> QED BY <1>3 DEF SellerInv, Quiet, EndedShowsDisconnected

-----------------------------------------------------------------------------
\* Once every loop has ended, those that fell back to single paths included,
\* Layout does not show the seller as connected: no event of a task comes after
\* the last one of its loop, unless the loop gave up waiting for a path.
THEOREM EndedIsDisconnected == SellerSpec => []EndedShowsDisconnected
<1>1. SellerInit => SellerInv
  BY SellerInitInv
<1>2. SellerInv /\ [SellerNext]_sellerVars => SellerInv'
  <2> SUFFICES ASSUME SellerInv, [SellerNext]_sellerVars PROVE SellerInv'
    OBVIOUS
  <2>1. CASE SellerNext
    BY <2>1, SellerCommandStep, LoopStep, SellerTaskStep DEF SellerNext
  <2>2. CASE UNCHANGED sellerVars
    BY <2>2 DEF sellerVars, SellerInv, TasksOfLoops, EndedShowsDisconnected
  <2> QED BY <2>1, <2>2
<1>3. SellerInv => EndedShowsDisconnected
  BY DEF SellerInv
<1> QED BY <1>1, <1>2, <1>3, PTL DEF SellerSpec

-----------------------------------------------------------------------------
(* Types of the seller's loops and flags.                                  *)

LEMMA SellerFlagsTyped ==
    ASSUME {stopping, sellerRunning, sellerConnected} \subseteq BOOLEAN, SellerNext
    PROVE  {stopping, sellerRunning, sellerConnected}' \subseteq BOOLEAN
<1> USE DEF Emit, uiVars
<1>1. ASSUME NEW s \in Starts,
             \/ HandleStart(s) \/ Registered(s) \/ RegisterFails(s)
             \/ StopsOther(s) \/ StartSeller(s) \/ StartReturns(s)
      PROVE  {stopping, sellerRunning, sellerConnected}' \subseteq BOOLEAN
  BY <1>1, Zenon DEF HandleStart, Registered, RegisterFails, StopsOther, StartSeller, StartReturns
<1>2. CASE StopSeller \/ StopReturns
  BY <1>2, Zenon DEF StopSeller, StopReturns
<1>3. ASSUME NEW l \in Loops,
             Cancels(l) \/ Joined(l) \/ JoinTimesOut(l) \/ MultiplexUnsupported(l)
             \/ FallbackEnds(l)
      PROVE  {stopping, sellerRunning, sellerConnected}' \subseteq BOOLEAN
  BY <1>3, Zenon DEF Cancels, Joined, JoinTimesOut, MultiplexUnsupported, FallbackEnds, Same
<1>4. ASSUME NEW x \in Tasks,
             \/ Connects(x) \/ Fails(x) \/ Disconnects(x) \/ StopsUp(x) \/ AuthExpired(x)
             \/ Reauthenticates(x) \/ ReauthFails(x) \/ BackoffEnds(x) \/ PauseEnds(x)
      PROVE  {stopping, sellerRunning, sellerConnected}' \subseteq BOOLEAN
  BY <1>4, Zenon DEF Connects, Fails, Disconnects, StopsUp, AuthExpired, Reauthenticates,
     ReauthFails, BackoffEnds, PauseEnds, Turns, Same
<1> QED BY <1>1, <1>2, <1>3, <1>4, Zenon DEF SellerNext

LoopsTyped ==
    /\ slot \in Loops \cup {NoLoop}
    /\ loop \in [Loops -> {"none", "run", "join", "ended"}]
    /\ kind \in [Loops -> {"single", "multiplexed"}]
    /\ cancelled \in [Loops -> BOOLEAN]
    /\ task \in [Loops -> Steps] /\ fallback \in [Loops -> Steps \ {"wait"}]
    /\ start \in [Starts -> {"idle", "register", "stop", "spawn", "return"}]
    /\ left \in SUBSET Loops

\* A task may be moved to any step, the task of a path to any but one.
LEMMA MoveTyped ==
    ASSUME LoopsTyped, NEW x \in Tasks, NEW at \in Steps \ {"wait"}, Move(x, at), Same
    PROVE  LoopsTyped'
<1>1. x[1] \in Loops
  BY DEF Tasks
<1> QED BY <1>1 DEF LoopsTyped, Move, Same

LEMMA LoopsTypedStep == LoopsTyped /\ SellerNext => LoopsTyped'
<1> SUFFICES ASSUME LoopsTyped, SellerNext PROVE LoopsTyped'
  OBVIOUS
<1>1. ASSUME NEW s \in Starts,
             HandleStart(s) \/ Registered(s) \/ RegisterFails(s) \/ StopsOther(s)
             \/ StartReturns(s)
      PROVE  LoopsTyped'
  BY <1>1 DEF HandleStart, Registered, RegisterFails, StopsOther, StartReturns, loopVars,
     LoopsTyped
<1>2. ASSUME NEW s \in Starts, StartSeller(s)
      PROVE  LoopsTyped'
  BY <1>2 DEF StartSeller, LoopsTyped, Steps
<1>3. CASE StopSeller \/ StopReturns
  BY <1>3 DEF StopSeller, StopReturns, loopVars, LoopsTyped
<1>4. ASSUME NEW l \in Loops, Cancels(l) \/ Joined(l) \/ JoinTimesOut(l)
      PROVE  LoopsTyped'
  BY <1>4 DEF Cancels, Joined, JoinTimesOut, LoopsTyped, Steps
<1>5. ASSUME NEW l \in Loops, MultiplexUnsupported(l)
      PROVE  LoopsTyped'
  BY <1>5 DEF MultiplexUnsupported, Same, LoopsTyped, Steps
<1>6. ASSUME NEW l \in Loops, FallbackEnds(l)
      PROVE  LoopsTyped'
  <2>1. <<l, "task">> \in Tasks /\ "ended" \in Steps \ {"wait"}
    BY DEF Tasks, Steps
  <2> QED BY <1>6, <2>1, MoveTyped DEF FallbackEnds
<1>7. ASSUME NEW x \in Tasks,
             \/ Connects(x) \/ Fails(x) \/ Disconnects(x) \/ StopsUp(x) \/ AuthExpired(x)
             \/ Reauthenticates(x) \/ ReauthFails(x) \/ BackoffEnds(x) \/ PauseEnds(x)
      PROVE  LoopsTyped'
  <2>1. PICK at \in Steps \ {"wait"} : Move(x, at) /\ Same
    BY <1>7 DEF Connects, Fails, Disconnects, StopsUp, AuthExpired, Reauthenticates,
       ReauthFails, BackoffEnds, PauseEnds, Turns, Steps
  <2> QED BY <2>1, MoveTyped
<1> QED BY <1>1, <1>2, <1>3, <1>4, <1>5, <1>6, <1>7 DEF SellerNext

LEMMA SellerTypes == SellerSpec => []SellerTypeOK
<1> DEFINE Flags == {stopping, sellerRunning, sellerConnected} \subseteq BOOLEAN
<1>1. SellerInit => Flags /\ LoopsTyped
  <2>1. SellerInit => Flags
    BY Zenon DEF SellerInit
  <2> QED BY <2>1 DEF SellerInit, LoopsTyped, Steps
<1>2. Flags /\ LoopsTyped /\ SellerNext => Flags' /\ LoopsTyped'
  BY SellerFlagsTyped, LoopsTypedStep
<1>3. Flags /\ LoopsTyped /\ UNCHANGED sellerVars => Flags' /\ LoopsTyped'
  BY DEF sellerVars, LoopsTyped
<1>4. Flags /\ LoopsTyped => SellerTypeOK
  BY DEF SellerTypeOK, LoopsTyped
<1> HIDE DEF Flags
<1> QED BY <1>1, <1>2, <1>3, <1>4, PTL DEF SellerSpec

-----------------------------------------------------------------------------
(* The event stream: a page that is not shown has no stream, no setup, no  *)
(* timer and no listener.                                                  *)

SseSpec == SseInit /\ [][SseNext]_sseVars

SseInv == SseTypeOK /\ (heard => streaming)

LEMMA SseFlags ==
    ASSUME SseInv, SseNext
    PROVE  {streaming, tokenFile, heard, missed, es, updates}' \subseteq BOOLEAN
<1>1. {streaming, tokenFile, heard, missed, es, updates} \subseteq BOOLEAN
  BY DEF SseInv, SseTypeOK
<1>2. CASE HasToken \/ Reconnects \/ OnResumed \/ TokenUpdated \/ TokenDeleted
  BY <1>1, <1>2, Zenon DEF HasToken, Reconnects, OnResumed, TokenUpdated, TokenDeleted, SetupSse
<1>3. CASE MountStream \/ UnmountStream \/ Listen \/ OnOpen \/ OnError
  BY <1>1, <1>3, Zenon DEF MountStream, UnmountStream, Listen, OnOpen, OnError, SetupSse
<1>4. CASE Reauthenticated
  BY <1>1, <1>4, Zenon DEF Reauthenticated
<1> QED BY <1>2, <1>3, <1>4 DEF SseNext

LEMMA SseStep == SseInv /\ SseNext => SseInv'
<1> SUFFICES ASSUME SseInv, SseNext PROVE SseInv'
  OBVIOUS
<1>1. MaxSetups \in Nat /\ MaxBackoff \in Nat
  BY SetupsAssumption
<1>2. /\ lost' \in 0..MaxSetups /\ setups' \in 0..MaxSetups /\ timers' \in 0..MaxSetups
      /\ backoff' \in 0..MaxBackoff
      /\ ~streaming' => ~es' /\ setups' = 0 /\ timers' = 0 /\ ~updates'
      /\ heard' => streaming'
  <2> USE <1>1 DEF SseInv, SseTypeOK, SetupSse
  <2>1. CASE HasToken
    BY <2>1 DEF HasToken
  <2>2. CASE MountStream \/ UnmountStream \/ Listen \/ OnOpen
    BY <2>2 DEF MountStream, UnmountStream, Listen, OnOpen
  <2>3. CASE OnError
    BY <2>3 DEF OnError
  <2>4. CASE Reconnects \/ OnResumed \/ TokenUpdated
    BY <2>4 DEF Reconnects, OnResumed, TokenUpdated
  <2>5. CASE Reauthenticated \/ TokenDeleted
    BY <2>5 DEF Reauthenticated, TokenDeleted
  <2> QED BY <2>1, <2>2, <2>3, <2>4, <2>5 DEF SseNext
<1> QED BY <1>2, SseFlags DEF SseInv, SseTypeOK

LEMMA SseTypes == SseSpec => []SseTypeOK
<1>1. SseInit => SseInv
  <2>1. SseInit => {streaming, tokenFile, heard, missed, es, updates} \subseteq BOOLEAN
    BY Zenon DEF SseInit
  <2> QED BY <2>1, SetupsAssumption DEF SseInit, SseInv, SseTypeOK
<1>2. SseInv /\ UNCHANGED sseVars => SseInv'
  BY DEF sseVars, SseInv, SseTypeOK
<1>3. SseInv => SseTypeOK
  BY DEF SseInv
<1> QED BY <1>1, <1>2, <1>3, SseStep, PTL DEF SseSpec

-----------------------------------------------------------------------------
(* Signing in: only a check of the window asks for the wallet or signs in  *)
(* by itself, a page's call does neither.                                  *)

AuthSpec == AuthInit /\ [][AuthNext]_authVars

CallSteps == {"idle", "info", "call", "reauth", "retry", "login"}

\* Where a step may take a check or a call.
LEMMA GoesTyped ==
    ASSUME AuthTypeOK, NEW c \in Checks \cup ApiCalls, NEW at \in CallSteps,
           at \in {"info", "login"} => c \in Checks, Goes(c, at)
    PROVE  /\ call' \in [Checks \cup ApiCalls -> CallSteps]
           /\ \A d \in ApiCalls : call'[d] \notin {"info", "login"}
BY AuthAssumption DEF AuthTypeOK, CallSteps, Goes

LEMMA CallsTyped ==
    ASSUME AuthTypeOK, AuthNext
    PROVE  /\ call' \in [Checks \cup ApiCalls -> CallSteps]
           /\ \A d \in ApiCalls : call'[d] \notin {"info", "login"}
<1>1. ASSUME NEW c \in Checks \cup ApiCalls,
             \/ CheckAuth(c) \/ CallApi(c) \/ WalletInfo(c) \/ Succeeds(c) \/ FailsOnce(c)
             \/ Reauth(c) \/ FailsAgain(c) \/ AutoLogin(c) \/ NoSession(c)
      PROVE  \E at \in CallSteps : Goes(c, at) /\ (at \in {"info", "login"} => c \in Checks)
  BY <1>1 DEF CheckAuth, CallApi, WalletInfo, Succeeds, FailsOnce, Reauth, FailsAgain,
     AutoLogin, NoSession, CallSteps, AuthTypeOK
<1>2. CASE UNCHANGED call
  BY <1>2 DEF AuthTypeOK, CallSteps
<1> QED
  BY <1>1, <1>2, GoesTyped DEF AuthNext, HandleLogin, LoggedIn, LoginFails, HandleLogout,
     Logout, LogoutReturns, Expires, GoesOffline, ComesOnline

LEMMA FlagsTyped ==
    ASSUME AuthTypeOK, AuthNext
    PROVE  {cachedPassword, isAuth, walletLoaded, online}' \subseteq BOOLEAN
<1>1. {cachedPassword, isAuth, walletLoaded, online} \subseteq BOOLEAN
  BY DEF AuthTypeOK
<1>2. ASSUME NEW c \in Checks \cup ApiCalls,
             \/ CheckAuth(c) \/ CallApi(c) \/ WalletInfo(c) \/ Succeeds(c) \/ FailsOnce(c)
             \/ Reauth(c) \/ FailsAgain(c) \/ AutoLogin(c) \/ NoSession(c)
      PROVE  {cachedPassword, isAuth, walletLoaded, online}' \subseteq BOOLEAN
  BY <1>1, <1>2, Zenon DEF CheckAuth, CallApi, WalletInfo, Succeeds, FailsOnce, Reauth,
     FailsAgain, AutoLogin, NoSession, secretVars
<1>3. CASE HandleLogin \/ LoggedIn \/ LoginFails
  BY <1>1, <1>3, Zenon DEF HandleLogin, LoggedIn, LoginFails, secretVars
<1>4. CASE HandleLogout \/ Logout \/ LogoutReturns
  BY <1>1, <1>4, Zenon DEF HandleLogout, Logout, LogoutReturns, secretVars
<1>5. CASE Expires \/ GoesOffline \/ ComesOnline
  BY <1>1, <1>5, Zenon DEF Expires, GoesOffline, ComesOnline, secretVars
<1> QED BY <1>2, <1>3, <1>4, <1>5, Zenon DEF AuthNext

LEMMA SecretsTyped ==
    ASSUME AuthTypeOK, AuthNext
    PROVE  /\ wallet' \in {"plain", "locked"} /\ token' \in {"none", "valid", "expired"}
           /\ login' \in {"idle", "asked"} /\ logout' \in {"idle", "closing", "done"}
           /\ turns' \in 0..MaxTurns
<1> USE AuthAssumption DEF AuthTypeOK, secretVars, Turn
<1>1. ASSUME NEW c \in Checks \cup ApiCalls,
             \/ CheckAuth(c) \/ CallApi(c) \/ WalletInfo(c) \/ Succeeds(c) \/ FailsOnce(c)
             \/ Reauth(c) \/ FailsAgain(c) \/ AutoLogin(c) \/ NoSession(c)
      PROVE  UNCHANGED <<wallet, login, logout, turns>> /\ token' \in {token, "valid"}
  BY <1>1 DEF CheckAuth, CallApi, WalletInfo, Succeeds, FailsOnce, Reauth, FailsAgain,
     AutoLogin, NoSession
<1>2. CASE \E c \in Checks \cup ApiCalls :
             \/ CheckAuth(c) \/ CallApi(c) \/ WalletInfo(c) \/ Succeeds(c) \/ FailsOnce(c)
             \/ Reauth(c) \/ FailsAgain(c) \/ AutoLogin(c) \/ NoSession(c)
  BY <1>1, <1>2
<1>3. CASE HandleLogin \/ LoggedIn \/ LoginFails
  BY <1>3 DEF HandleLogin, LoggedIn, LoginFails
<1>4. CASE HandleLogout \/ Logout \/ LogoutReturns
  BY <1>4 DEF HandleLogout, Logout, LogoutReturns
<1>5. CASE Expires \/ GoesOffline \/ ComesOnline
  BY <1>5 DEF Expires, GoesOffline, ComesOnline
<1> QED BY <1>2, <1>3, <1>4, <1>5 DEF AuthNext

LEMMA AuthTypes == AuthSpec => []AuthTypeOK
<1>1. AuthInit => AuthTypeOK
  <2>1. AuthInit => {cachedPassword, isAuth, walletLoaded, online} \subseteq BOOLEAN
    BY Zenon DEF AuthInit
  <2> QED BY <2>1, AuthAssumption DEF AuthInit, AuthTypeOK
<1>2. AuthTypeOK /\ AuthNext => AuthTypeOK'
  BY CallsTyped, FlagsTyped, SecretsTyped DEF AuthTypeOK, CallSteps
<1>3. AuthTypeOK /\ UNCHANGED authVars => AuthTypeOK'
  BY DEF authVars, AuthTypeOK
<1> QED BY <1>1, <1>2, <1>3, PTL DEF AuthSpec
=============================================================================
