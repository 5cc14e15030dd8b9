---------------------------- MODULE TunnelClient ----------------------------
(***************************************************************************)
(* The GUI's IPC client (src-tauri/src/tunnel_client.rs): callers share    *)
(* one connection to the tunnel daemon, identified by a generation number; *)
(* a reader task per connection delivers answers and, when the connection  *)
(* ends, clears the shared state if its generation is still the current    *)
(* one.  Callers reconnect, retry once, time out, and, where allowed, ask  *)
(* for privileges to install the daemon.                                   *)
(*                                                                         *)
(* What the answers and events make the user interface show                *)
(* (ClientState.state, emit_state) is left out: no step here depends on it *)
(* except the text of the report read_loop makes last.                     *)
(*                                                                         *)
(* An action is the code between two awaits.  A caller is a Tauri command  *)
(* or the background loop of init, each of which has one request at a time.*)
(***************************************************************************)
EXTENDS Naturals

CONSTANTS Callers,    \* concurrent users of the client
          Elevated,   \* those whose calls pass allow_elevation = true (start)
          NoCaller,
          MaxGen      \* bound: connections opened in a behaviour

ASSUME CallerAssumption == Elevated \subseteq Callers /\ NoCaller \notin Callers
ASSUME MaxGenAssumption == MaxGen \in Nat

VARIABLES
    writer,      \* generation of the connection in ClientState.writer, 0 for None
    generation,  \* ClientState.generation
    up,          \* generations whose connection the daemon still holds open
    reader,      \* where each connection's read_loop stands
    connecting,  \* holder of ClientState.connecting
    elevating,   \* ClientState.elevating
    phase,       \* where each caller stands
    attempt,     \* send_request_with's attempt
    mine,        \* generation a caller is installing
    pend,        \* the caller's oneshot in ClientState.pending
    via,         \* generation the caller's request was written to
    overlapped   \* history: two callers have been inside install at once

connVars == <<writer, generation, up, reader>>
callVars == <<phase, attempt, mine, pend, via, overlapped>>
vars == <<connVars, connecting, elevating, callVars>>

Gens == 1..MaxGen
ReaderPhases == {"none", "run", "check", "clear", "drop", "done"}
ConnectPhases == {"open", "install"}
PollPhases == {"poll", "pinstall", "pping", "ppong"}
CallPhases == {"idle", "check", "lock", "ping", "pong", "elevate", "prompt", "send", "wait"}
              \cup ConnectPhases \cup PollPhases

Init ==
    /\ writer = 0
    /\ generation = 0
    /\ up = {}
    /\ reader = [g \in Gens |-> "none"]
    /\ connecting = NoCaller
    /\ elevating = FALSE
    /\ phase = [k \in Callers |-> "idle"]
    /\ attempt = [k \in Callers |-> 0]
    /\ mine = [k \in Callers |-> 0]
    /\ pend = [k \in Callers |-> "none"]
    /\ via = [k \in Callers |-> 0]
    /\ overlapped = FALSE

-----------------------------------------------------------------------------
Goto(k, p) == phase' = [phase EXCEPT ![k] = p]

\* Leaving ensure_connected drops the connecting guard, if it was taken.
Unlock(k) == connecting' = IF connecting = k THEN NoCaller ELSE connecting

\* reset: the writer is dropped, whatever connection it belongs to.
Reset == writer' = 0 /\ UNCHANGED <<generation, up, reader>>

\* Mutant: an error return leaks the connecting guard.
Fail_KeepsGuard(k) ==
    /\ Goto(k, "idle")
    /\ UNCHANGED connecting

\* ensure_connected or the request failed for good: the call returns an error.
Fail(k) ==
    /\ Goto(k, "idle")
    /\ Unlock(k)

\* The writer accepts a frame: it is set and its connection still open.
Writable == writer # 0 /\ writer \in up

\* A request is registered in pending and written to the current connection.
Write(k, p) ==
    /\ Writable
    /\ pend' = [pend EXCEPT ![k] = "sent"]
    /\ via' = [via EXCEPT ![k] = writer]
    /\ Goto(k, p)

\* The wait for an answer ends: with the answer, because the oneshot was
\* dropped, or by timeout.
Answered(k) == pend[k] = "answered"
Unanswered(k) == pend[k] \in {"sent", "dropped"}
Settle(k) ==
    /\ pend' = [pend EXCEPT ![k] = "none"]
    /\ via' = [via EXCEPT ![k] = 0]

-----------------------------------------------------------------------------
(* send_request_with and ensure_connected.                                 *)

Call(k) ==
    /\ phase[k] = "idle"
    /\ Goto(k, "check")
    /\ attempt' = [attempt EXCEPT ![k] = 0]
    /\ UNCHANGED <<connVars, connecting, elevating, mine, pend, via, overlapped>>

\* A warm connection is used as it is, or verified first where a stale daemon
\* could be replaced.  The ping of a warm connection is not under the lock.
Warm(k) == Goto(k, IF k \in Elevated THEN "ping" ELSE "send")

Check(k) ==
    /\ phase[k] = "check"
    /\ IF writer # 0 THEN Warm(k) ELSE Goto(k, "lock")
    /\ UNCHANGED <<connVars, connecting, elevating, attempt, mine, pend, via, overlapped>>

\* Mutant: the connection is opened without taking the mutex.
Lock_NotTaken(k) ==
    /\ phase[k] = "lock"
    /\ IF writer # 0 THEN Warm(k) ELSE Goto(k, "open")
    /\ UNCHANGED <<connVars, connecting, elevating, attempt, mine, pend, via, overlapped>>

Lock(k) ==
    /\ phase[k] = "lock"
    /\ connecting = NoCaller
    /\ IF writer # 0 THEN Warm(k) ELSE Goto(k, "open")
    /\ connecting' = IF writer # 0 /\ k \notin Elevated THEN NoCaller ELSE k
    /\ UNCHANGED <<connVars, elevating, attempt, mine, pend, via, overlapped>>

\* install, first half: the stream is open and takes the next generation.
Opened(k, p) ==
    /\ generation < MaxGen
    /\ generation' = generation + 1
    /\ up' = up \cup {generation'}
    /\ mine' = [mine EXCEPT ![k] = generation']
    /\ overlapped' = (overlapped \/ \E l \in Callers \ {k} : mine[l] # 0)
    /\ Goto(k, p)
    /\ UNCHANGED <<writer, reader>>

\* install, second half: once it has the writer's mutex it replaces the writer
\* and spawns the reader.
Installed(k, p) ==
    /\ writer' = mine[k]
    /\ reader' = [reader EXCEPT ![mine[k]] = "run"]
    /\ mine' = [mine EXCEPT ![k] = 0]
    /\ Goto(k, p)
    /\ UNCHANGED <<generation, up>>

Open(k) ==
    /\ phase[k] = "open"
    /\ \/ Opened(k, "install") /\ UNCHANGED connecting
       \/ /\ IF k \in Elevated
             THEN Goto(k, "elevate") /\ UNCHANGED connecting ELSE Fail(k)
          /\ UNCHANGED <<connVars, mine, overlapped>>
       \/ Fail(k) /\ UNCHANGED <<connVars, mine, overlapped>>
    /\ UNCHANGED <<elevating, attempt, pend, via>>

Install(k) ==
    /\ phase[k] = "install"
    /\ Installed(k, "ping")
    /\ UNCHANGED <<connecting, elevating, attempt, pend, via, overlapped>>

\* Mutant: a failed ping elevates whether or not the call allows it.
PingBad_AlwaysElevates(k) ==
    /\ Reset
    /\ Goto(k, "elevate")
    /\ UNCHANGED connecting

\* handle_ping_result for a ping that failed or found a daemon to replace.
PingBad(k) ==
    /\ Reset
    /\ IF k \in Elevated
       THEN Goto(k, "elevate") /\ UNCHANGED connecting ELSE Fail(k)

Ping(k) ==
    /\ phase[k] = "ping"
    /\ \/ Write(k, "pong") /\ UNCHANGED <<connVars, connecting>>
       \/ ~Writable /\ PingBad(k) /\ UNCHANGED <<pend, via>>
    /\ UNCHANGED <<elevating, attempt, mine, overlapped>>

\* A pong counts unless it comes from a daemon that may be replaced and is of
\* another version or binary; any other answer, or none, is a failed ping.
Pong(k) ==
    /\ phase[k] = "pong"
    /\ Settle(k)
    /\ \/ Answered(k) /\ Goto(k, "send") /\ Unlock(k) /\ UNCHANGED connVars
       \/ PingBad(k)
    /\ UNCHANGED <<elevating, attempt, mine, overlapped>>

Send(k) ==
    /\ phase[k] = "send"
    /\ Write(k, "wait")
    /\ UNCHANGED <<connVars, connecting, elevating, attempt, mine, overlapped>>

\* Mutant: every failure is retried.
Retry_Forever(k) ==
    /\ \/ /\ phase[k] = "send" /\ ~Writable
          /\ UNCHANGED <<pend, via>>
       \/ /\ phase[k] = "wait" /\ Unanswered(k)
          /\ Settle(k)
    /\ Reset
    /\ Goto(k, "check")
    /\ attempt' = [attempt EXCEPT ![k] = @ + 1]
    /\ UNCHANGED <<connecting, elevating, mine, overlapped>>

\* The first failure is retried on a new connection, the second returned.
Retry(k) ==
    /\ \/ /\ phase[k] = "send" /\ ~Writable
          /\ UNCHANGED <<pend, via>>
       \/ /\ phase[k] = "wait" /\ Unanswered(k)
          /\ Settle(k)
    /\ Reset
    /\ Goto(k, IF attempt[k] = 0 THEN "check" ELSE "idle")
    /\ attempt' = [attempt EXCEPT ![k] = 1]
    /\ UNCHANGED <<connecting, elevating, mine, overlapped>>

\* init's loop calls ensure_connected alone before it asks for the state.
Kept(k) ==
    /\ phase[k] = "send" /\ k \notin Elevated /\ attempt[k] = 0
    /\ Goto(k, "idle")
    /\ UNCHANGED <<connVars, connecting, elevating, attempt, mine, pend, via, overlapped>>

Return(k) ==
    /\ phase[k] = "wait" /\ Answered(k)
    /\ Settle(k)
    /\ Goto(k, "idle")
    /\ UNCHANGED <<connVars, connecting, elevating, attempt, mine, overlapped>>

-----------------------------------------------------------------------------
(* elevate_and_poll.                                                       *)

\* Mutant: the flag is set without being looked at.
Elevate_IgnoresFlag(k) ==
    /\ phase[k] = "elevate"
    /\ elevating' = TRUE
    /\ Goto(k, "prompt")
    /\ UNCHANGED <<connVars, connecting, attempt, mine, pend, via, overlapped>>

Elevate(k) ==
    /\ phase[k] = "elevate"
    /\ \/ elevating /\ Fail(k) /\ UNCHANGED <<elevating>>
       \/ /\ ~elevating
          /\ elevating' = TRUE
          /\ Goto(k, "prompt")
          /\ UNCHANGED connecting
    /\ UNCHANGED <<connVars, attempt, mine, pend, via, overlapped>>

\* An accepted prompt installs and restarts the daemon: open connections end.
Prompt(k) ==
    /\ phase[k] = "prompt"
    /\ elevating' = FALSE
    /\ \/ /\ Goto(k, "poll")
          /\ up' = {}
          /\ UNCHANGED <<connecting>>
       \/ Fail(k) /\ UNCHANGED up
    /\ UNCHANGED <<writer, generation, reader, attempt, mine, pend, via, overlapped>>

Poll(k) ==
    /\ phase[k] = "poll"
    /\ \/ Opened(k, "pinstall") /\ UNCHANGED <<connecting>>
       \/ Fail(k) /\ UNCHANGED <<connVars, mine, overlapped>>
    /\ UNCHANGED <<elevating, attempt, pend, via>>

PollInstall(k) ==
    /\ phase[k] = "pinstall"
    /\ Installed(k, "pping")
    /\ UNCHANGED <<connecting, elevating, attempt, pend, via, overlapped>>

PollPing(k) ==
    /\ phase[k] = "pping"
    /\ \/ Write(k, "ppong") /\ UNCHANGED connVars
       \/ ~Writable /\ Reset /\ Goto(k, "poll") /\ UNCHANGED <<pend, via>>
    /\ UNCHANGED <<connecting, elevating, attempt, mine, overlapped>>

PollPong(k) ==
    /\ phase[k] = "ppong"
    /\ Settle(k)
    /\ \/ Answered(k) /\ Goto(k, "send") /\ Unlock(k) /\ UNCHANGED connVars
       \/ Reset /\ Goto(k, "poll") /\ UNCHANGED connecting
    /\ UNCHANGED <<elevating, attempt, mine, overlapped>>

-----------------------------------------------------------------------------
(* read_loop, one per connection.                                          *)

\* A response frame: the caller whose id it carries gets it, if still waiting.
ReadResponse(g) ==
    /\ reader[g] = "run"
    /\ \E k \in Callers :
         /\ via[k] = g /\ pend[k] = "sent"
         /\ pend' = [pend EXCEPT ![k] = "answered"]
    /\ UNCHANGED <<connVars, connecting, elevating, phase, attempt, mine, via, overlapped>>

\* The connection ends, or a frame makes no sense.
ReadEnd(g) ==
    /\ reader[g] = "run"
    /\ reader' = [reader EXCEPT ![g] = "check"]
    /\ UNCHANGED <<writer, generation, up, connecting, elevating, callVars>>

\* Mutant: the comparison is the wrong way round.
ReadCheck_Inverted(g) ==
    /\ reader[g] = "check"
    /\ reader' = [reader EXCEPT ![g] = IF generation = g THEN "done" ELSE "clear"]
    /\ UNCHANGED <<writer, generation, up, connecting, elevating, callVars>>

\* The generation is compared before the writer's mutex is awaited.
ReadCheck(g) ==
    /\ reader[g] = "check"
    /\ reader' = [reader EXCEPT ![g] = IF generation = g THEN "clear" ELSE "done"]
    /\ UNCHANGED <<writer, generation, up, connecting, elevating, callVars>>

ReadClear(g) ==
    /\ reader[g] = "clear"
    /\ writer' = 0
    /\ reader' = [reader EXCEPT ![g] = "drop"]
    /\ UNCHANGED <<generation, up, connecting, elevating, callVars>>

\* pending.clear drops every waiting oneshot.
ReadDrop(g) ==
    /\ reader[g] = "drop"
    /\ pend' = [k \in Callers |-> IF pend[k] = "sent" THEN "dropped" ELSE pend[k]]
    /\ reader' = [reader EXCEPT ![g] = "done"]
    /\ UNCHANGED <<writer, generation, up, connecting, elevating, phase, attempt, mine, via, overlapped>>

\* The daemon ends connection g: it exits, rejects the peer, or closes after
\* its client dropped the writer.
LinkLost(g) ==
    /\ g \in up
    /\ up' = up \ {g}
    /\ UNCHANGED <<writer, generation, reader, connecting, elevating, callVars>>

-----------------------------------------------------------------------------
\* What a caller does once called.  Its waits for answers and its polls are
\* bounded by timeouts; only the privilege prompt lasts as long as the user likes.
CallStep(k) ==
    \/ Check(k) \/ Lock(k) \/ Open(k) \/ Install(k) \/ Ping(k) \/ Pong(k)
    \/ Send(k) \/ Retry(k) \/ Kept(k) \/ Return(k)
    \/ Elevate(k) \/ Prompt(k) \/ Poll(k) \/ PollInstall(k) \/ PollPing(k) \/ PollPong(k)

ReadStep(g) ==
    ReadResponse(g) \/ ReadEnd(g) \/ ReadCheck(g) \/ ReadClear(g) \/ ReadDrop(g)

Next ==
    \/ \E k \in Callers : Call(k) \/ CallStep(k)
    \/ \E g \in Gens : ReadStep(g) \/ LinkLost(g)

Spec == Init /\ [][Next]_vars

\* A called task keeps being polled, and tokio's mutex serves its waiters in
\* order, so a waiter gets it although others take it again and again.  The
\* fairness of Prompt, in CallStep, assumes a user who answers the prompt.
FairSpec == Spec /\ \A k \in Callers : WF_vars(CallStep(k)) /\ SF_vars(Lock(k))

-----------------------------------------------------------------------------
(* Properties.                                                             *)

TypeOK ==
    /\ writer \in 0..MaxGen /\ generation \in 0..MaxGen
    /\ up \subseteq Gens
    /\ reader \in [Gens -> ReaderPhases]
    /\ connecting \in Callers \cup {NoCaller}
    /\ elevating \in BOOLEAN
    /\ phase \in [Callers -> CallPhases]
    /\ attempt \in [Callers -> 0..1]
    /\ mine \in [Callers -> 0..MaxGen]
    /\ pend \in [Callers -> {"none", "sent", "answered", "dropped"}]
    /\ via \in [Callers -> 0..MaxGen]
    /\ overlapped \in BOOLEAN

\* At most one privilege prompt is open at a time, and only on behalf of a
\* call that allows elevation: stop and status never prompt.
OnePrompt ==
    \A k \in Callers : phase[k] = "prompt" =>
        k \in Elevated /\ \A l \in Callers \ {k} : phase[l] # "prompt"

\* The mutex connecting serialises the callers that open a connection because
\* there is none.
OneConnector ==
    \A k, l \in Callers :
        phase[k] \in ConnectPhases /\ phase[l] \in ConnectPhases => k = l

\* As long as no two callers were ever inside install at once (which the
\* warm-path elevation, not under connecting, allows), the writer belongs to
\* the newest connection whenever nobody is replacing it, and to one whose
\* reader will still notice its end: no dead connection stays in use, and the
\* background loop, which reconnects only when there is no writer, can act.
WriterIsCurrent ==
    writer # 0 /\ ~overlapped =>
        /\ writer = generation \/ \E k \in Callers : mine[k] = generation
        /\ reader[writer] = "done" => \E k \in Callers : mine[k] # 0

\* Every call returns, if the user answers the prompts: no lost answer, dropped
\* connection or contended lock leaves a caller waiting for ever.
CallsReturn == \A k \in Callers : phase[k] # "idle" ~> phase[k] = "idle"

\* The comment above read_loop's last block: a reader whose connection has
\* been replaced does not clear the writer of the new connection.
StaleReaderSparesWriter ==
    [][\A g \in Gens : reader[g] = "clear" /\ reader'[g] = "drop" => writer \in {0, g}]_vars
=============================================================================
