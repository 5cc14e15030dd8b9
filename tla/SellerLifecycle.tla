---------------------------- MODULE SellerLifecycle ----------------------------
(***************************************************************************)
(* Starting and stopping the seller: the commands and loops of             *)
(* src-tauri/src/seller.rs, and the flags components/Layout.tsx keeps from *)
(* their events.  A loop runs a task, of a single path or of several over  *)
(* one socket; when the backend refuses the latter the task runs one task  *)
(* per path instead, of which one is modelled.  An event reaches the       *)
(* window as it is emitted: events keep their order, and what the window   *)
(* does by itself may come before or after any of them.                    *)
(***************************************************************************)
CONSTANTS Loops,      \* loops started
          Starts,     \* starts in progress at once
          NoLoop

ASSUME SellerAssumption == NoLoop \notin Loops

VARIABLES
    slot,       \* shutdown_tx: the loop it can stop
    loop,       \* each loop: "none", "run", "join", "ended"
    kind,       \* "single" or "multiplexed"
    cancelled,  \* its cancellation token
    task, fallback,   \* where its task and the task of a path stand
    start,      \* starts in progress
    stopping,   \* a stop is in progress
    left,       \* history: loops that ended with a path of theirs still at work
    sellerRunning, sellerConnected   \* the flags of Layout

sellerVars == <<slot, loop, kind, cancelled, task, fallback, start, stopping, left,
                sellerRunning, sellerConnected>>
loopVars == <<loop, kind, cancelled, task, fallback, left>>
uiVars == <<sellerRunning, sellerConnected>>

SellerInit ==
    /\ slot = NoLoop
    /\ loop = [l \in Loops |-> "none"]
    /\ kind = [l \in Loops |-> "single"]
    /\ cancelled = [l \in Loops |-> FALSE]
    /\ task = [l \in Loops |-> "none"] /\ fallback = [l \in Loops |-> "none"]
    /\ start = [s \in Starts |-> "idle"]
    /\ stopping = FALSE
    /\ left = {}
    /\ sellerRunning = FALSE /\ sellerConnected = FALSE

\* The listeners of seller:connected, disconnected, error and reconnecting.
Emit(e) ==
    /\ sellerConnected' = (e = "connected")
    /\ sellerRunning' = (sellerRunning \/ e = "connected")

-----------------------------------------------------------------------------
(* Commands.                                                               *)

\* handleStartSeller, by a click or as the seller ran when the application ended.
HandleStart(s) ==
    /\ ~sellerRunning /\ start[s] = "idle"
    /\ start' = [start EXCEPT ![s] = "register"]
    /\ UNCHANGED <<slot, loopVars, stopping, uiVars>>

Registered(s) ==
    /\ start[s] = "register"
    /\ start' = [start EXCEPT ![s] = "stop"]
    /\ UNCHANGED <<slot, loopVars, stopping, uiVars>>

RegisterFails(s) ==
    /\ start[s] = "register"
    /\ start' = [start EXCEPT ![s] = "idle"]
    /\ UNCHANGED <<slot, loopVars, stopping, uiVars>>

\* start_seller stops what runs, and then stores its own sender; the lock is
\* free in between.
StopsOther(s) ==
    /\ start[s] = "stop"
    /\ slot' = NoLoop
    /\ start' = [start EXCEPT ![s] = "spawn"]
    /\ UNCHANGED <<loopVars, stopping, uiVars>>

StartSeller(s) ==
    /\ start[s] = "spawn"
    /\ \E l \in Loops :
         /\ loop[l] = "none"
         /\ slot' = l
         /\ loop' = [loop EXCEPT ![l] = "run"]
         /\ kind' \in {[kind EXCEPT ![l] = k] : k \in {"single", "multiplexed"}}
         /\ task' = [task EXCEPT ![l] = "connect"]
    /\ Emit("connected")
    /\ start' = [start EXCEPT ![s] = "return"]
    /\ UNCHANGED <<cancelled, fallback, stopping, left>>

StartReturns(s) ==
    /\ start[s] = "return"
    /\ start' = [start EXCEPT ![s] = "idle"]
    /\ sellerRunning' = TRUE
    /\ UNCHANGED <<slot, loopVars, stopping, sellerConnected>>

\* stop_seller; a logout calls it too.
StopSeller ==
    /\ sellerRunning /\ ~stopping
    /\ slot' = NoLoop
    /\ stopping' = TRUE
    /\ UNCHANGED <<loopVars, start, uiVars>>

\* The rest of handleStopSeller.
StopReturns ==
    /\ stopping /\ stopping' = FALSE
    /\ sellerRunning' = FALSE /\ sellerConnected' = FALSE
    /\ UNCHANGED <<slot, loopVars, start>>

-----------------------------------------------------------------------------
(* run_seller_ws_loop.                                                     *)

\* The sender has been used, or replaced and so dropped.
Cancels(l) ==
    /\ loop[l] = "run" /\ slot # l
    /\ loop' = [loop EXCEPT ![l] = "join"]
    /\ cancelled' = [cancelled EXCEPT ![l] = TRUE]
    /\ UNCHANGED <<slot, kind, task, fallback, start, stopping, left, uiVars>>

Joined(l) ==
    /\ loop[l] = "join" /\ task[l] = "ended"
    /\ loop' = [loop EXCEPT ![l] = "ended"]
    /\ Emit("disconnected")
    /\ UNCHANGED <<slot, kind, cancelled, task, fallback, start, stopping, left>>

PathAtWork(l) == fallback[l] \notin {"none", "ended"}

\* Mutant: the task is not aborted.
JoinTimesOut_NoAbort(l) ==
    /\ loop[l] = "join" /\ task[l] # "ended"
    /\ loop' = [loop EXCEPT ![l] = "ended"]
    /\ left' = IF PathAtWork(l) THEN left \cup {l} ELSE left
    /\ Emit("disconnected")
    /\ UNCHANGED <<slot, kind, cancelled, task, fallback, start, stopping>>

\* After five seconds.  The tasks it had spawned go on by themselves.
JoinTimesOut(l) ==
    /\ loop[l] = "join" /\ task[l] # "ended"
    /\ task' = [task EXCEPT ![l] = "ended"]
    /\ loop' = [loop EXCEPT ![l] = "ended"]
    /\ left' = IF PathAtWork(l) THEN left \cup {l} ELSE left
    /\ Emit("disconnected")
    /\ UNCHANGED <<slot, kind, cancelled, fallback, start, stopping>>

-----------------------------------------------------------------------------
(* run_single_path_loop and run_multiplexed_tunnel_loop: of task l or of   *)
(* the fallback path of l.                                                 *)

Tasks == Loops \X {"task", "path"}
Where(x) == IF x[2] = "task" THEN task[x[1]] ELSE fallback[x[1]]
Move(x, at) ==
    IF x[2] = "task" THEN task' = [task EXCEPT ![x[1]] = at] /\ UNCHANGED fallback
    ELSE fallback' = [fallback EXCEPT ![x[1]] = at] /\ UNCHANGED task
Same == UNCHANGED <<slot, loop, kind, cancelled, start, stopping, left>>

Turns(x, at, e) == Move(x, at) /\ Emit(e) /\ Same

Connects(x) == Where(x) = "connect" /\ Turns(x, "up", "connected")

\* A failed or slow handshake, a missing token, a silent connection.
Fails(x) == Where(x) \in {"connect", "up"} /\ Turns(x, "backoff", "error")

Disconnects(x) == Where(x) = "up" /\ Turns(x, "pause", "disconnected")

StopsUp(x) == Where(x) = "up" /\ cancelled[x[1]] /\ Turns(x, "pause", "disconnected")

AuthExpired(x) == Where(x) \in {"connect", "up"} /\ Turns(x, "reauth", "reconnecting")

Reauthenticates(x) == Where(x) = "reauth" /\ Turns(x, "pause", "connected")

ReauthFails(x) == Where(x) = "reauth" /\ Turns(x, "backoff", "error")

BackoffEnds(x) ==
    /\ Where(x) = "backoff"
    /\ Move(x, IF cancelled[x[1]] THEN "ended" ELSE "pause")
    /\ Same /\ UNCHANGED uiVars

\* Mutant: the wait between two connections is a plain sleep.
PauseEnds_Sleeps(x) ==
    /\ Where(x) = "pause"
    /\ Move(x, "connect")
    /\ Same /\ UNCHANGED uiVars

PauseEnds(x) ==
    /\ Where(x) = "pause"
    /\ Move(x, IF cancelled[x[1]] THEN "ended" ELSE "connect")
    /\ Same /\ UNCHANGED uiVars

MultiplexUnsupported(l) ==
    /\ kind[l] = "multiplexed" /\ task[l] = "connect"
    /\ task' = [task EXCEPT ![l] = "wait"]
    /\ fallback' = [fallback EXCEPT ![l] = "connect"]
    /\ Emit("reconnecting")
    /\ Same

FallbackEnds(l) ==
    /\ task[l] = "wait" /\ fallback[l] = "ended"
    /\ Move(<<l, "task">>, "ended")
    /\ Same /\ UNCHANGED uiVars

SellerNext ==
    \/ \E s \in Starts :
         \/ HandleStart(s) \/ Registered(s) \/ RegisterFails(s)
         \/ StopsOther(s) \/ StartSeller(s) \/ StartReturns(s)
    \/ StopSeller \/ StopReturns
    \/ \E l \in Loops :
         Cancels(l) \/ Joined(l) \/ JoinTimesOut(l) \/ MultiplexUnsupported(l) \/ FallbackEnds(l)
    \/ \E x \in Tasks :
         \/ Connects(x) \/ Fails(x) \/ Disconnects(x) \/ StopsUp(x) \/ AuthExpired(x)
         \/ Reauthenticates(x) \/ ReauthFails(x) \/ BackoffEnds(x) \/ PauseEnds(x)

Steps == {"none", "connect", "up", "backoff", "pause", "reauth", "wait", "ended"}

SellerTypeOK ==
    /\ slot \in Loops \cup {NoLoop}
    /\ loop \in [Loops -> {"none", "run", "join", "ended"}]
    /\ kind \in [Loops -> {"single", "multiplexed"}]
    /\ cancelled \in [Loops -> BOOLEAN]
    /\ task \in [Loops -> Steps] /\ fallback \in [Loops -> Steps \ {"wait"}]
    /\ start \in [Starts -> {"idle", "register", "stop", "spawn", "return"}]
    /\ left \in SUBSET Loops
    /\ stopping \in BOOLEAN /\ sellerRunning \in BOOLEAN /\ sellerConnected \in BOOLEAN

Over(l) == task[l] \in {"none", "ended"} /\ fallback[l] \in {"none", "ended"}

\* Layout never shows as connected a seller whose loops have all ended, those
\* included whose paths ran one by one and were joined (seller.rs:741-744): the
\* last event of all is the loop's own.  Excepted is a loop that gave up its
\* join with such a path at work: the path emits on, after the loop's last event.
EndedShowsDisconnected ==
    (\A l \in Loops : loop[l] \in {"none", "ended"} /\ l \notin left) => ~sellerConnected

\* A loop that is stopped or replaced comes to an end with all its tasks.
Lingers(l) == loop[l] # "none" /\ slot # l
Gone(l) == loop[l] = "ended" /\ Over(l)
=============================================================================
