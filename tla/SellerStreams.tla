---------------------------- MODULE SellerStreams ----------------------------
(***************************************************************************)
(* The streams of one seller WebSocket (src-tauri/src/seller.rs): the      *)
(* connection's loop handles the backend's messages one after another and  *)
(* keeps a table from stream ids to the channels of relay tasks; a relay   *)
(* connects to its target, copies data both ways, and takes its id out of  *)
(* the table when it ends.  try_single_path_connection and                 *)
(* try_multiplexed_tunnel_connection share this code but for the limit.    *)
(*                                                                         *)
(* The backend, not in this repository, is taken to open a stream id only  *)
(* when it has no open stream of that id; it may use an id again once it   *)
(* has closed it.  A reconnection starts over with a table of its own.     *)
(***************************************************************************)
EXTENDS Naturals, FiniteSets

CONSTANTS Streams,    \* streams the backend opens, each served by its relay
          Sids,       \* their session_ids
          NoStream, NoSid,
          MaxStreams  \* MAX_STREAMS: 100 on a single path, 2000 multiplexed

ASSUME StreamAssumption == NoStream \notin Streams /\ NoSid \notin Sids
ASSUME SidAssumption == IsFiniteSet(Sids)
ASSUME LimitAssumption == MaxStreams \in Nat

VARIABLES
    conn,     \* the connection's loop: "up", or "down" once it has returned
    current,  \* the open stream of each id, as the backend sees it
    active,   \* the table: whose channel each id's entry sends on
    relay,    \* where each stream's relay task stands
    sid,      \* the id each stream was opened with
    got,      \* history: the streams whose data each relay has been sent
    aborted,  \* relay tasks on which abort has been called
    earlier   \* history: the relays of its id not yet done when a stream was opened

vars == <<conn, current, active, relay, sid, got, aborted, earlier>>

Live == {"connect", "run", "leave"}

Init ==
    /\ conn = "up"
    /\ current = [i \in Sids |-> NoStream]
    /\ active = [i \in Sids |-> NoStream]
    /\ relay = [x \in Streams |-> "new"]
    /\ sid = [x \in Streams |-> NoSid]
    /\ got = [x \in Streams |-> {}]
    /\ aborted = {}
    /\ earlier = [x \in Streams |-> {}]

Entries == {i \in Sids : active[i] # NoStream}

-----------------------------------------------------------------------------
(* The backend's messages.                                                 *)

Opens(x, i) ==
    /\ conn = "up"
    /\ relay[x] = "new" /\ current[i] = NoStream
    /\ current' = [current EXCEPT ![i] = x]
    /\ sid' = [sid EXCEPT ![x] = i]
    /\ earlier' = [earlier EXCEPT ![x] = {y \in Streams : sid[y] = i /\ relay[y] \in Live}]
    /\ UNCHANGED <<conn, got, aborted>>

\* Mutant: the limit is exceeded by one.
Full_OffByOne == Cardinality(Entries) > MaxStreams

Full == Cardinality(Entries) >= MaxStreams

\* Mutant: at the limit the entry of another stream makes room.
Refuse_Evicts(x, i) ==
    /\ Opens(x, i)
    /\ Full
    /\ \E j \in Entries : active' = [active EXCEPT ![j] = NoStream, ![i] = x]
    /\ relay' = [relay EXCEPT ![x] = "connect"]

\* At the limit an open is dropped; the backend is not told.
Refuse(x, i) ==
    /\ Opens(x, i)
    /\ Full
    /\ relay' = [relay EXCEPT ![x] = "refused"]
    /\ UNCHANGED active

\* The table is locked once to compare and once to insert.  A relay that leaves
\* in between only makes room, as if it had left before.
Accept(x, i) ==
    /\ Opens(x, i)
    /\ ~Full
    /\ active' = [active EXCEPT ![i] = x]
    /\ relay' = [relay EXCEPT ![x] = "connect"]

StreamClose(i) ==
    /\ conn = "up"
    /\ current[i] # NoStream
    /\ current' = [current EXCEPT ![i] = NoStream]
    /\ active' = [active EXCEPT ![i] = NoStream]
    /\ UNCHANGED <<conn, relay, sid, got, aborted, earlier>>

\* Mutant: data of an unknown id go to some stream.
Receivers_Any(i) ==
    {x \in Streams :
        relay[x] \in {"connect", "run"} /\ active[i] \in {x, NoStream}}

\* The stream i's data go to; a relay that is done reading has no receiver.
Receivers(i) == {x \in Streams : x = active[i] /\ relay[x] \in {"connect", "run"}}

RelayData(i) ==
    /\ conn = "up"
    /\ current[i] # NoStream
    /\ got' = [x \in Streams |-> IF x \in Receivers(i) THEN got[x] \cup {current[i]} ELSE got[x]]
    /\ UNCHANGED <<conn, current, active, relay, sid, aborted, earlier>>

\* Mutant: an exit path returns without abort_path_tasks.
End_NoAbort ==
    /\ conn = "up"
    /\ conn' = "down"
    /\ UNCHANGED <<current, active, relay, sid, got, aborted, earlier>>

\* The loop returns: a stop, 90 s of silence, an expired token, a close or an
\* error.  Every relay task spawned so far is aborted.
End ==
    /\ conn = "up"
    /\ conn' = "down"
    /\ aborted' = {x \in Streams : relay[x] \in Live}
    /\ UNCHANGED <<current, active, relay, sid, got, earlier>>

-----------------------------------------------------------------------------
(* The task of a relay.  abort takes effect at its next await, so it may    *)
(* complete a step it is in.                                               *)

Step(x, from, to) ==
    /\ relay[x] = from
    /\ relay' = [relay EXCEPT ![x] = to]
    /\ UNCHANGED <<conn, current, sid, got, aborted, earlier>>

Connected(x) == Step(x, "connect", "run") /\ UNCHANGED active

\* Refused, failed, or no answer in 10 s.
ConnectFails(x) == Step(x, "connect", "leave") /\ UNCHANGED active

\* Either direction ends or nothing has passed for 60 s.
RunEnds(x) == Step(x, "run", "leave") /\ UNCHANGED active

\* The relay takes out its id, whosever entry that is by now.
Leave(x) ==
    /\ Step(x, "leave", "done")
    /\ active' = [active EXCEPT ![sid[x]] = NoStream]

Abort(x) ==
    /\ x \in aborted
    /\ relay[x] \in Live
    /\ relay' = [relay EXCEPT ![x] = "done"]
    /\ UNCHANGED <<conn, current, active, sid, got, aborted, earlier>>

-----------------------------------------------------------------------------
Backend ==
    \/ \E x \in Streams, i \in Sids : Refuse(x, i) \/ Accept(x, i)
    \/ \E i \in Sids : StreamClose(i) \/ RelayData(i)

Relay(x) == Connected(x) \/ ConnectFails(x) \/ RunEnds(x) \/ Leave(x) \/ Abort(x)

Next == Backend \/ End \/ \E x \in Streams : Relay(x)

Spec == Init /\ [][Next]_vars

\* The channel of a running relay is closed once its entry is gone: its copy
\* loop then ends, as it does when the relay is aborted.  A connect is bounded
\* by 10 s.  A relay that is still served may run for as long as it has traffic.
Served(x) == conn = "up" /\ active[sid[x]] = x

Forced(x) ==
    \/ Connected(x) \/ ConnectFails(x) \/ Leave(x) \/ Abort(x)
    \/ relay[x] = "run" /\ conn = "up" /\ ~Served(x) /\ RunEnds(x)

FairSpec == Spec /\ \A x \in Streams : WF_vars(Forced(x))

-----------------------------------------------------------------------------
(* Properties.                                                             *)

TypeOK ==
    /\ conn \in {"up", "down"}
    /\ current \in [Sids -> Streams \cup {NoStream}]
    /\ active \in [Sids -> Streams \cup {NoStream}]
    /\ relay \in [Streams -> {"new", "refused", "done"} \cup Live]
    /\ sid \in [Streams -> Sids \cup {NoSid}]
    /\ got \in [Streams -> SUBSET Streams]
    /\ aborted \in SUBSET Streams
    /\ earlier \in [Streams -> SUBSET Streams]

\* The table never holds more streams than MAX_STREAMS, however opens, closes
\* and relays that end on their own follow each other.
StreamLimit == Cardinality(Entries) <= MaxStreams

\* The comment in relay_data: no relay is ever sent the data of another
\* stream, be it refused, closed, ended on this side or opened again with the
\* same id.
DataReachesItsStream == \A x \in Streams : got[x] \subseteq {x}

\* A stream the backend has open and whose relay is at work is reachable until a
\* relay of an earlier stream of its id, still alive when it was opened, ends and
\* takes out the entry; nothing else, neither other ids nor the limit nor relays
\* that had ended before, cuts it off.
OpenStaysServed ==
    \A i \in Sids :
        LET x == current[i] IN
        conn = "up" /\ x # NoStream /\ relay[x] \in {"connect", "run"} =>
            (active[i] = x <=> \A y \in earlier[x] : relay[y] # "done")

\* The comment above abort_path_tasks, and its counterpart for one stream: a
\* relay whose connection has ended, or whose stream was closed or cut off,
\* does not stay.
NothingStays ==
    \A x \in Streams : relay[x] \in Live /\ ~Served(x) ~> relay[x] = "done"
=============================================================================
