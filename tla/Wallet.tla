-------------------------------- MODULE Wallet --------------------------------
(***************************************************************************)
(* The wallet on disk and the two pages that make one: WelcomePage.tsx,    *)
(* shown first, and WalletPage.tsx.  wallet_create, wallet_import and      *)
(* wallet_info of src-tauri/src/commands.rs run on the main thread, one    *)
(* after another; a wallet made replaces the one before.                   *)
(***************************************************************************)
EXTENDS Naturals, Sequences

CONSTANTS MaxWallets,    \* bound: wallets made, one found included
          MaxCommands    \* bound: commands waiting for the main thread

ASSUME WalletAssumption == MaxWallets \in Nat \ {0} /\ MaxCommands \in Nat \ {0}

VARIABLES
    keyfile, made,          \* the wallet on disk (0: none), and wallets made
    commands,
    view,                   \* the welcome page's step, or "wallet", or "away"
    walletLoading, words,   \* of the page shown; words: the wallet whose they are
    signingIn               \* a login of the welcome page is in progress

walletVars == <<keyfile, made, commands, view, walletLoading, words, signingIn>>

WelcomeSteps == {"checking", "no-wallet", "create", "create-done", "import", "logging-in"}

WalletInit ==
    /\ keyfile \in {0, 1} /\ made = keyfile
    /\ commands = <<[what |-> "info", seen |-> TRUE]>>
    /\ view = "checking" /\ walletLoading = FALSE /\ words = 0 /\ signingIn = FALSE

Invoke(what) ==
    /\ Len(commands) < MaxCommands
    /\ commands' = Append(commands, [what |-> what, seen |-> TRUE])

-----------------------------------------------------------------------------
(* The buttons of the welcome page.                                        *)

ChooseStep ==
    /\ view = "no-wallet" /\ view' \in {"create", "import"}
    /\ UNCHANGED <<keyfile, made, commands, walletLoading, words, signingIn>>

\* Mutant: the button is not held back any more.
Back_ResetsLoading ==
    /\ view \in {"create", "import"} /\ view' = "no-wallet"
    /\ walletLoading' = FALSE
    /\ UNCHANGED <<keyfile, made, commands, words, signingIn>>

Back ==
    /\ view \in {"create", "import"} /\ view' = "no-wallet"
    /\ UNCHANGED <<keyfile, made, commands, walletLoading, words, signingIn>>

HandleCreate ==
    /\ view \in {"create", "wallet"} /\ ~walletLoading
    /\ walletLoading' = TRUE
    /\ Invoke("create")
    /\ UNCHANGED <<keyfile, made, view, words, signingIn>>

HandleImport ==
    /\ view \in {"import", "wallet"} /\ ~walletLoading
    /\ walletLoading' = TRUE
    /\ Invoke("import")
    /\ UNCHANGED <<keyfile, made, view, words, signingIn>>

ContinueAfterCreate ==
    /\ view = "create-done" /\ ~walletLoading
    /\ walletLoading' = TRUE /\ signingIn' = TRUE
    /\ UNCHANGED <<keyfile, made, commands, view, words>>

\* WalletPage asks for the info when it is shown and on its tab, loading or not.
HandleInfo ==
    /\ view = "wallet" /\ walletLoading' = TRUE
    /\ Invoke("info")
    /\ UNCHANGED <<keyfile, made, view, words, signingIn>>

\* Commands of a page that was left are run, and their answers not seen.
Leaves == commands' = [i \in DOMAIN commands |-> [commands[i] EXCEPT !.seen = FALSE]]

LeaveWallet ==
    /\ view = "wallet" /\ view' = "away"
    /\ Leaves
    /\ words' = 0 /\ walletLoading' = FALSE
    /\ UNCHANGED <<keyfile, made, signingIn>>

OpenWallet ==
    /\ view = "away" /\ view' = "wallet"
    /\ Invoke("info")
    /\ walletLoading' = TRUE
    /\ UNCHANGED <<keyfile, made, words, signingIn>>

-----------------------------------------------------------------------------
(* Commands and their answers.                                             *)

Make == made < MaxWallets /\ made' = made + 1 /\ keyfile' = made'

Runs(what, seen) ==
    /\ commands # <<>> /\ commands' = Tail(commands)
    /\ Head(commands) = [what |-> what, seen |-> seen]
Done(what) == Runs(what, TRUE)

Created ==
    /\ Done("create") /\ Make
    /\ words' = made' /\ walletLoading' = FALSE
    /\ view' = IF view \in WelcomeSteps THEN "create-done" ELSE view
    /\ UNCHANGED signingIn

\* The welcome page goes on to sign in.
Imported ==
    /\ Done("import") /\ Make
    /\ IF view \in WelcomeSteps
       THEN signingIn' = TRUE /\ UNCHANGED <<walletLoading, words>>
       ELSE walletLoading' = FALSE /\ words' = 0 /\ UNCHANGED signingIn
    /\ UNCHANGED view

CommandFails ==
    /\ Done("create") \/ Done("import")
    /\ walletLoading' = FALSE
    /\ UNCHANGED <<keyfile, made, view, words, signingIn>>

\* Of a wallet found the welcome page offers neither creation nor import.
Informed ==
    /\ Done("info")
    /\ IF view = "checking"
       THEN /\ view' = IF keyfile = 0 THEN "no-wallet" ELSE "logging-in"
            /\ signingIn' = (keyfile # 0)
            /\ UNCHANGED <<walletLoading, words>>
       ELSE walletLoading' = FALSE /\ words' = 0 /\ UNCHANGED <<view, signingIn>>
    /\ UNCHANGED <<keyfile, made>>

InfoFails ==
    /\ Done("info")
    /\ IF view = "checking" THEN view' = "no-wallet" /\ UNCHANGED walletLoading
       ELSE walletLoading' = FALSE /\ UNCHANGED view
    /\ UNCHANGED <<keyfile, made, words, signingIn>>

Unseen ==
    /\ \/ Runs("create", FALSE) /\ Make
       \/ Runs("import", FALSE) /\ Make
       \/ (\E what \in {"info", "create", "import"} : Runs(what, FALSE))
          /\ UNCHANGED <<keyfile, made>>
    /\ UNCHANGED <<view, walletLoading, words, signingIn>>

\* A login that works, or one of the start that fails, leaves the welcome page.
SignedIn ==
    /\ signingIn /\ signingIn' = FALSE
    /\ view' = "away" /\ walletLoading' = FALSE /\ words' = 0
    /\ Leaves
    /\ UNCHANGED <<keyfile, made>>

SignInFails ==
    /\ signingIn /\ view # "logging-in"
    /\ signingIn' = FALSE /\ walletLoading' = FALSE
    /\ UNCHANGED <<keyfile, made, commands, view, words>>

WalletNext ==
    \/ ChooseStep \/ Back \/ HandleCreate \/ HandleImport \/ ContinueAfterCreate
    \/ HandleInfo \/ LeaveWallet \/ OpenWallet
    \/ Created \/ Imported \/ CommandFails \/ Informed \/ InfoFails
    \/ Unseen \/ SignedIn \/ SignInFails

WalletTypeOK ==
    /\ {keyfile, made, words} \subseteq 0..MaxWallets
    /\ Len(commands) <= MaxCommands
    /\ \A i \in DOMAIN commands :
         commands[i] \in [what : {"info", "create", "import"}, seen : BOOLEAN]
    /\ view \in WelcomeSteps \cup {"wallet", "away"}
    /\ walletLoading \in BOOLEAN /\ signingIn \in BOOLEAN

\* The words the user is told to write down are those of the wallet on disk.
WordsAreOfWallet == words # 0 => words = keyfile
=============================================================================
