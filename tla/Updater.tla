------------------------------- MODULE Updater -------------------------------
(***************************************************************************)
(* Updates of the application, which two parts of the window look for on   *)
(* their own: the banner (hooks/useUpdater.ts, UpdateBanner.tsx) every six *)
(* hours, and the account page (AccountPage.tsx) when asked.               *)
(***************************************************************************)
EXTENDS Naturals, FiniteSets

CONSTANTS Lengths,      \* lengths a download may announce; 0 if it does not
          MaxBytes,     \* bound: bytes of a download
          MaxReleases,  \* bound: releases made and withdrawn
          MaxChecks, MaxOrphans   \* bounds: checks of the banner, left installs

ASSUME UpdaterAssumption ==
    /\ Lengths \subseteq Nat /\ MaxBytes \in Nat /\ MaxReleases \in Nat
    /\ MaxChecks \in Nat /\ MaxOrphans \in Nat

VARIABLES
    release, releases,   \* what the server offers (0: nothing), and changes so far
    update, checking, downloading, progress, updateError, readyToRestart,
    checks,              \* answers the banner awaits
    install,             \* its download: where it is and its bytes
    updatePhase, updateRef,   \* the account page
    pageCheck,           \* the page awaits an answer
    orphans              \* installs started by a page that was left

updaterVars == <<release, releases, update, checking, downloading, progress, updateError,
                 readyToRestart, checks, install, updatePhase, updateRef, pageCheck,
                 orphans>>
serverVars == <<release, releases>>
bannerVars == <<update, checking, downloading, progress, updateError, readyToRestart,
                checks, install>>
pageVars == <<updatePhase, updateRef, pageCheck, orphans>>

Nothing == 0
\* progress is null.
NoProgress == [length |-> 0, percent |-> 100]
NoInstall == [at |-> "idle", bytes |-> 0]

UpdaterInit ==
    /\ release = Nothing /\ releases = 0
    /\ update = Nothing /\ checking = FALSE /\ downloading = FALSE
    /\ progress = NoProgress /\ updateError = FALSE /\ readyToRestart = FALSE
    /\ checks = {} /\ install = NoInstall
    /\ updatePhase = "idle" /\ updateRef = Nothing /\ pageCheck = FALSE /\ orphans = 0

Release ==
    /\ releases < MaxReleases /\ releases' = releases + 1
    /\ release' \in {Nothing, releases'}
    /\ UNCHANGED <<bannerVars, pageVars>>

\* The new process has what was installed.
Relaunch(newest) ==
    /\ update' = Nothing /\ checking' = FALSE /\ downloading' = FALSE
    /\ progress' = NoProgress /\ updateError' = FALSE /\ readyToRestart' = FALSE
    /\ checks' = {} /\ install' = NoInstall
    /\ updatePhase' = "idle" /\ updateRef' = Nothing /\ pageCheck' = FALSE /\ orphans' = 0
    /\ release' = IF newest THEN Nothing ELSE release
    /\ UNCHANGED releases

-----------------------------------------------------------------------------
(* The banner.                                                             *)

\* The interval keeps the first render's closure, in which nothing is being
\* checked or downloaded: its guard never holds a check back.
CheckForUpdates ==
    /\ Cardinality(checks) < MaxChecks
    /\ checking' = TRUE /\ updateError' = FALSE
    /\ checks' = checks \cup {release}
    /\ UNCHANGED <<serverVars, update, downloading, progress, readyToRestart, install, pageVars>>

Checked(found) ==
    /\ found \in checks /\ checks' = checks \ {found}
    /\ checking' = FALSE
    /\ UNCHANGED <<serverVars, downloading, progress, updateError, readyToRestart, install,
                   pageVars>>

\* Mutant: an update that is no longer offered stays.
UpdateFound_Keeps == \E found \in checks :
    Checked(found) /\ update' = IF found = Nothing THEN update ELSE found

UpdateFound == \E found \in checks : Checked(found) /\ update' = found

CheckFails == \E found \in checks : Checked(found) /\ UNCHANGED update

UpdateShown == update # Nothing \/ readyToRestart

Install(at, bytes) == install' = [at |-> at, bytes |-> bytes]

DownloadAndInstall ==
    /\ UpdateShown /\ ~readyToRestart /\ ~downloading
    /\ downloading' = TRUE /\ updateError' = FALSE
    /\ Install("check", 0)
    /\ UNCHANGED <<serverVars, update, checking, progress, readyToRestart, checks, pageVars>>

\* When there is nothing left to install the flag stays, and the button with it.
InstallChecked ==
    /\ install.at = "check"
    /\ Install(IF release = Nothing THEN "idle" ELSE "found", 0)
    /\ UNCHANGED <<serverVars, update, checking, downloading, progress, updateError,
                   readyToRestart, checks, pageVars>>

Started ==
    /\ install.at = "found" /\ Install("download", 0)
    /\ \E l \in Lengths : progress' = [length |-> l, percent |-> 0]
    /\ UNCHANGED <<serverVars, update, checking, downloading, updateError, readyToRestart,
                   checks, pageVars>>

\* Mutant: without the limit, which an unknown length counted as 1 would pass.
Percent_Unlimited(bytes, length) == (200 * bytes + length) \div (2 * length)

\* Rounded, and 99 at most.
Percent(bytes, length) ==
    LET rounded == (200 * bytes + length) \div (2 * length)
    IN  IF rounded < 99 THEN rounded ELSE 99

\* Mutant: as the account page has it, of the last chunk.
Progress_OfChunk ==
    /\ install.at = "download"
    /\ \E chunk \in 1..2 :
         LET bytes == install.bytes + chunk
             length == IF progress.length = 0 THEN 1 ELSE progress.length
         IN  /\ bytes <= MaxBytes
             /\ Install("download", bytes)
             /\ progress' = [length |-> length, percent |-> Percent(chunk, length)]
    /\ UNCHANGED <<serverVars, update, checking, downloading, updateError, readyToRestart,
                   checks, pageVars>>

\* An unknown length counts as 1.
Progress ==
    /\ install.at = "download"
    /\ \E chunk \in 1..2 :
         LET bytes == install.bytes + chunk
             length == IF progress.length = 0 THEN 1 ELSE progress.length
         IN  /\ bytes <= MaxBytes
             /\ Install("download", bytes)
             /\ progress' = [length |-> length, percent |-> Percent(bytes, length)]
    /\ UNCHANGED <<serverVars, update, checking, downloading, updateError, readyToRestart,
                   checks, pageVars>>

\* All is downloaded; it is installed after this.
Finished ==
    /\ install.at = "download" /\ Install("install", 0)
    /\ downloading' = FALSE /\ progress' = NoProgress /\ readyToRestart' = TRUE
    /\ UNCHANGED <<serverVars, update, checking, updateError, checks, pageVars>>

Installed ==
    /\ install.at = "install" /\ Install("done", 0)
    /\ UNCHANGED <<serverVars, update, checking, downloading, progress, updateError,
                   readyToRestart, checks, pageVars>>

InstallFails ==
    /\ install.at \in {"check", "found", "download", "install"} /\ Install("idle", 0)
    /\ downloading' = FALSE /\ updateError' = TRUE
    /\ UNCHANGED <<serverVars, update, checking, progress, readyToRestart, checks, pageVars>>

RestartApp ==
    /\ readyToRestart
    /\ \/ Relaunch(install.at = "done")
       \/ updateError' = TRUE
          /\ UNCHANGED <<serverVars, update, checking, downloading, progress, readyToRestart,
                         checks, install, pageVars>>

-----------------------------------------------------------------------------
(* The account page.                                                       *)

HandleCheckUpdate ==
    /\ updatePhase \in {"idle", "uptodate", "error"}
    /\ updatePhase' = "checking" /\ pageCheck' = TRUE
    /\ UNCHANGED <<serverVars, bannerVars, updateRef, orphans>>

PageChecked ==
    /\ pageCheck /\ pageCheck' = FALSE
    /\ \/ release = Nothing /\ updatePhase' = "uptodate" /\ UNCHANGED updateRef
       \/ release # Nothing /\ updatePhase' = "available" /\ updateRef' = release
       \/ updatePhase' = "error" /\ UNCHANGED updateRef
    /\ UNCHANGED <<serverVars, bannerVars, orphans>>

CancelUpdate ==
    /\ updatePhase = "available" /\ updatePhase' = "idle"
    /\ UNCHANGED <<serverVars, bannerVars, updateRef, pageCheck, orphans>>

HandleInstallUpdate ==
    /\ updatePhase = "available" /\ updatePhase' = "downloading"
    /\ UNCHANGED <<serverVars, bannerVars, updateRef, pageCheck, orphans>>

\* An install that ends starts the application anew, whatever page is shown.
PageInstallEnds ==
    /\ updatePhase = "downloading"
    /\ \/ Relaunch(TRUE)
       \/ updatePhase' = "error"
          /\ UNCHANGED <<serverVars, bannerVars, updateRef, pageCheck, orphans>>

OrphanEnds ==
    /\ orphans > 0
    /\ \/ Relaunch(TRUE)
       \/ orphans' = orphans - 1
          /\ UNCHANGED <<serverVars, bannerVars, updatePhase, updateRef, pageCheck>>

LeaveAccount ==
    /\ updatePhase' = "idle" /\ updateRef' = Nothing /\ pageCheck' = FALSE
    /\ orphans' = IF updatePhase = "downloading" THEN orphans + 1 ELSE orphans
    /\ orphans' <= MaxOrphans
    /\ UNCHANGED <<serverVars, bannerVars>>

-----------------------------------------------------------------------------
UpdaterNext ==
    \/ Release
    \/ CheckForUpdates \/ UpdateFound \/ CheckFails
    \/ DownloadAndInstall \/ InstallChecked \/ Started \/ Progress \/ Finished
    \/ Installed \/ InstallFails \/ RestartApp
    \/ HandleCheckUpdate \/ PageChecked \/ CancelUpdate \/ HandleInstallUpdate
    \/ PageInstallEnds \/ OrphanEnds \/ LeaveAccount

UpdaterTypeOK ==
    /\ release \in 0..MaxReleases /\ releases \in 0..MaxReleases
    /\ update \in 0..MaxReleases /\ updateRef \in 0..MaxReleases
    /\ {checking, downloading, updateError, readyToRestart, pageCheck} \subseteq BOOLEAN
    /\ progress \in [length : Lengths \cup {0, 1}, percent : 0..100]
    /\ checks \subseteq 0..MaxReleases
    /\ install \in [at : {"idle", "check", "found", "download", "install", "done"},
                    bytes : 0..MaxBytes]
    /\ updatePhase \in {"idle", "checking", "uptodate", "available", "downloading", "error"}
    /\ orphans \in 0..MaxOrphans

\* The banner never says that a download lost ground, but for a new download.
ProgressForward ==
    [][progress # NoProgress /\ progress' # NoProgress
         => progress'.percent = 0 \/ progress'.percent >= progress.percent]_updaterVars
=============================================================================
