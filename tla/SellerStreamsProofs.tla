------------------------- MODULE SellerStreamsProofs -------------------------
(***************************************************************************)
(* Proofs about SellerStreams, for any streams, ids and limit.             *)
(***************************************************************************)
EXTENDS SellerStreams, FiniteSetTheorems, TLAPS

\* An entry always is that of the stream the backend has open.
EntryCurrent == \A i \in Sids : active[i] \in {NoStream, current[i]}

\* A stream the backend has open was opened with that id, and was not new.
CurrentOpened ==
    \A i \in Sids : current[i] # NoStream => sid[current[i]] = i /\ relay[current[i]] # "new"

\* An earlier stream of an open one's id that is still at work was so when the
\* open one was opened: only these can take out its entry later.
EarlierOnes ==
    \A i \in Sids, y \in Streams :
        /\ current[i] # NoStream /\ y # current[i]
        /\ sid[y] = i /\ relay[y] \in Live
        => y \in earlier[current[i]]

EarlierSameId ==
    \A i \in Sids, y \in Streams :
        current[i] # NoStream /\ y \in earlier[current[i]] =>
            sid[y] = i /\ y # current[i] /\ relay[y] \in Live \cup {"done"}

\* Relays are aborted by the connection's end only.
NoneAborted == conn = "up" => aborted = {}

IInv ==
    /\ TypeOK
    /\ EntryCurrent
    /\ CurrentOpened
    /\ EarlierOnes
    /\ EarlierSameId
    /\ NoneAborted
    /\ DataReachesItsStream
    /\ OpenStaysServed

-----------------------------------------------------------------------------
LEMMA InitInv == Init => IInv
BY StreamAssumption
   DEF Init, IInv, TypeOK, EntryCurrent, CurrentOpened, EarlierOnes, EarlierSameId, NoneAborted,
       DataReachesItsStream, OpenStaysServed, Live

LEMMA OpensInv ==
    ASSUME IInv, NEW x \in Streams, NEW i \in Sids, Refuse(x, i) \/ Accept(x, i)
    PROVE  IInv'
<1> USE StreamAssumption DEF IInv
<1>1. relay' \in [Streams -> {"new", "refused", "done"} \cup Live]
  BY DEF Refuse, Accept, TypeOK, Live
<1>2. /\ relay[x] = "new" /\ relay'[x] \in {"refused", "connect"}
      /\ \A y \in Streams \ {x} : relay'[y] = relay[y]
  BY DEF Refuse, Accept, Opens, TypeOK
<1>3. TypeOK'
  BY <1>1 DEF Refuse, Accept, Opens, TypeOK
<1>4. EntryCurrent'
  BY DEF Refuse, Accept, Opens, TypeOK, EntryCurrent
<1>5. CurrentOpened'
  BY <1>2 DEF Refuse, Accept, Opens, TypeOK, CurrentOpened
<1>6. DataReachesItsStream'
  BY DEF Refuse, Accept, Opens, DataReachesItsStream
<1>7. /\ current[i] = NoStream /\ current'[i] = x /\ sid'[x] = i
      /\ \A j \in Sids \ {i} : current'[j] = current[j]
      /\ \A y \in Streams \ {x} : sid'[y] = sid[y] /\ earlier'[y] = earlier[y]
      /\ earlier'[x] = {y \in Streams : sid[y] = i /\ relay[y] \in Live}
      /\ conn' = conn /\ aborted' = aborted
  BY DEF Refuse, Accept, Opens, TypeOK
<1>8. \A j \in Sids : current[j] # x
  BY <1>2 DEF CurrentOpened, TypeOK
<1>9. EarlierOnes'
  BY <1>1, <1>2, <1>7, <1>8 DEF EarlierOnes, EarlierSameId, CurrentOpened, TypeOK, Live
<1>10. EarlierSameId'
  <2> SUFFICES ASSUME NEW j \in Sids, NEW y \in Streams,
                      current'[j] # NoStream, y \in earlier'[current'[j]]
               PROVE  sid'[y] = j /\ y # current'[j] /\ relay'[y] \in Live \cup {"done"}
    BY DEF EarlierSameId
  <2>1. CASE j = i
    <3>1. sid[y] = i /\ relay[y] \in Live
      BY <1>7, <2>1
    <3>2. y # x
      BY <3>1, <1>2 DEF Live
    <3> QED BY <3>1, <3>2, <1>2, <1>7, <2>1
  <2>2. CASE j # i
    <3>1. current'[j] = current[j] /\ current[j] # x /\ current[j] \in Streams
      BY <1>7, <1>8, <2>2 DEF TypeOK
    <3>2. y \in earlier[current[j]]
      BY <3>1, <1>7
    <3>3. sid[y] = j /\ y # current[j] /\ relay[y] \in Live \cup {"done"}
      BY <3>1, <3>2 DEF EarlierSameId
    <3>4. y # x
      BY <3>3, <1>2 DEF Live
    <3> QED BY <3>1, <3>3, <3>4, <1>2, <1>7
  <2> QED BY <2>1, <2>2
<1>11. NoneAborted'
  BY <1>7 DEF NoneAborted
<1>12. OpenStaysServed'
  <2> SUFFICES ASSUME NEW j \in Sids, conn' = "up", current'[j] # NoStream,
                      relay'[current'[j]] \in {"connect", "run"}
               PROVE  active'[j] = current'[j] <=>
                          \A y \in earlier'[current'[j]] : relay'[y] # "done"
    BY DEF OpenStaysServed
  <2>1. CASE j = i
    <3>1. Accept(x, i)
      BY <1>7, <2>1, Zenon DEF Refuse, TypeOK
    <3>2. active'[i] = x
      BY <3>1 DEF Accept, TypeOK
    <3>3. ASSUME NEW y \in earlier'[x] PROVE relay'[y] # "done"
      <4>1. y \in Streams /\ relay[y] \in Live
        BY <1>7, <3>3
      <4> QED BY <4>1, <1>2 DEF Live
    <3> QED BY <1>7, <2>1, <3>2, <3>3
  <2>2. CASE j # i
    <3>1. current'[j] = current[j] /\ current[j] # x /\ current[j] \in Streams
      BY <1>7, <1>8, <2>2 DEF TypeOK
    <3>2. active'[j] = active[j]
      BY <2>2 DEF Refuse, Accept, TypeOK
    <3>3. relay'[current[j]] = relay[current[j]] /\ earlier'[current[j]] = earlier[current[j]]
      BY <3>1, <1>2, <1>7
    <3>4. active[j] = current[j] <=> \A y \in earlier[current[j]] : relay[y] # "done"
      BY <3>1, <3>3, <1>7 DEF OpenStaysServed
    <3>5. \A y \in earlier[current[j]] : y \in Streams /\ y # x
      <4>1. earlier[current[j]] \subseteq Streams
        BY <3>1 DEF TypeOK
      <4> QED BY <4>1, <3>1, <1>2 DEF EarlierSameId, Live
    <3> QED BY <3>1, <3>2, <3>3, <3>4, <3>5, <1>2
  <2> QED BY <2>1, <2>2
<1> QED BY <1>3, <1>4, <1>5, <1>6, <1>9, <1>10, <1>11, <1>12

LEMMA CloseInv ==
    ASSUME IInv, NEW i \in Sids, StreamClose(i)
    PROVE  IInv'
<1> USE StreamAssumption DEF IInv, StreamClose
<1>1. TypeOK' /\ EntryCurrent' /\ CurrentOpened' /\ NoneAborted' /\ DataReachesItsStream'
  BY DEF TypeOK, EntryCurrent, CurrentOpened, NoneAborted, DataReachesItsStream
<1>2. EarlierOnes' /\ EarlierSameId'
  BY DEF TypeOK, EarlierOnes, EarlierSameId
<1>3. OpenStaysServed'
  BY DEF TypeOK, OpenStaysServed
<1> QED BY <1>1, <1>2, <1>3

LEMMA DataInv ==
    ASSUME IInv, NEW i \in Sids, RelayData(i)
    PROVE  IInv'
<1> USE StreamAssumption DEF IInv, RelayData
<1>1. got' \in [Streams -> SUBSET Streams]
  BY DEF TypeOK
<1>2. DataReachesItsStream'
  BY DEF TypeOK, EntryCurrent, Receivers, DataReachesItsStream
<1> QED
  BY <1>1, <1>2
     DEF TypeOK, EntryCurrent, CurrentOpened, EarlierOnes, EarlierSameId, NoneAborted, OpenStaysServed

(* A relay that moves on or is aborted, without a change to the table.     *)
LEMMA MovesInv ==
    ASSUME IInv, NEW x \in Streams, NEW to \in {"run", "leave", "done"},
           relay[x] \in Live, to = "run" => relay[x] \in {"connect", "run"},
           to = "done" => conn = "down",
           relay' = [relay EXCEPT ![x] = to],
           UNCHANGED <<conn, current, active, sid, got, aborted, earlier>>
    PROVE  IInv'
<1> USE DEF IInv
<1>1. TypeOK'
  BY DEF TypeOK, Live
<1>2. CurrentOpened'
  BY DEF TypeOK, CurrentOpened
<1>3. EarlierOnes'
  BY DEF TypeOK, Live, EarlierOnes
<1>4. EarlierSameId'
  BY DEF TypeOK, Live, EarlierSameId
<1>5. OpenStaysServed'
  <2> SUFFICES ASSUME NEW j \in Sids, conn = "up", current[j] # NoStream,
                      relay'[current[j]] \in {"connect", "run"}
               PROVE  active[j] = current[j] <=>
                          \A y \in earlier[current[j]] : relay'[y] # "done"
    BY DEF OpenStaysServed
  <2>1. current[j] \in Streams /\ earlier[current[j]] \subseteq Streams
    BY DEF TypeOK
  <2>2. relay[current[j]] \in {"connect", "run"}
    BY <2>1 DEF TypeOK
  <2>3. \A y \in Streams : relay'[y] # "done" <=> relay[y] # "done"
    BY DEF TypeOK, Live
  <2> QED BY <2>1, <2>2, <2>3 DEF OpenStaysServed
<1> QED BY <1>1, <1>2, <1>3, <1>4, <1>5 DEF EntryCurrent, NoneAborted, DataReachesItsStream

LEMMA LeaveInv ==
    ASSUME IInv, NEW x \in Streams, Leave(x)
    PROVE  IInv'
<1> USE StreamAssumption DEF IInv, Leave, Step
<1>1. TypeOK'
  BY DEF TypeOK, Live
<1>2. EntryCurrent' /\ CurrentOpened' /\ DataReachesItsStream' /\ NoneAborted'
  BY DEF TypeOK, EntryCurrent, CurrentOpened, DataReachesItsStream, NoneAborted
<1>3. EarlierOnes' /\ EarlierSameId'
  BY DEF TypeOK, Live, EarlierOnes, EarlierSameId
<1>4. OpenStaysServed'
  <2> SUFFICES ASSUME NEW i \in Sids, conn = "up", current[i] # NoStream,
                      relay'[current[i]] \in {"connect", "run"}
               PROVE  active'[i] = current[i] <=>
                          \A y \in earlier[current[i]] : relay'[y] # "done"
    BY DEF OpenStaysServed
  <2>1. /\ current[i] \in Streams /\ current[i] # x
        /\ relay[current[i]] \in {"connect", "run"}
    BY DEF TypeOK
  <2>2. \A y \in earlier[current[i]] : y \in Streams
    BY <2>1 DEF TypeOK
  <2>3. CASE sid[x] = i
    <3>1. x \in earlier[current[i]] /\ relay'[x] = "done"
      BY <2>1, <2>3 DEF TypeOK, Live, EarlierOnes
    <3>2. active'[i] = NoStream
      BY <2>3 DEF TypeOK
    <3> QED BY <3>1, <3>2, <2>1
  <2>4. CASE sid[x] # i
    <3>1. active'[i] = active[i]
      BY <2>4 DEF TypeOK
    <3>2. \A y \in earlier[current[i]] : y # x /\ relay'[y] = relay[y]
      BY <2>2, <2>4 DEF EarlierSameId, TypeOK
    <3> QED BY <2>1, <3>1, <3>2 DEF OpenStaysServed
  <2> QED BY <2>3, <2>4
<1> QED BY <1>1, <1>2, <1>3, <1>4

LEMMA NextInv == IInv /\ [Next]_vars => IInv'
<1> SUFFICES ASSUME IInv, [Next]_vars PROVE IInv'
  OBVIOUS
<1> USE DEF EarlierOnes, EarlierSameId, NoneAborted
<1>1. CASE Backend
  BY <1>1, OpensInv, CloseInv, DataInv DEF Backend
<1>2. CASE End
  BY <1>2 DEF End, IInv, TypeOK, EntryCurrent, CurrentOpened, DataReachesItsStream, OpenStaysServed
<1>3. ASSUME NEW x \in Streams, Relay(x) PROVE IInv'
  <2>1. CASE Connected(x)
    BY <2>1, MovesInv DEF Connected, Step, Live
  <2>2. CASE ConnectFails(x)
    BY <2>2, MovesInv DEF ConnectFails, Step, Live
  <2>3. CASE RunEnds(x)
    BY <2>3, MovesInv DEF RunEnds, Step, Live
  <2>4. CASE Leave(x)
    BY <2>4, LeaveInv
  <2>5. CASE Abort(x)
    <3>1. conn = "down"
      BY <2>5 DEF Abort, IInv, TypeOK
    <3> QED BY <2>5, <3>1, MovesInv DEF Abort
  <2> QED BY <1>3, <2>1, <2>2, <2>3, <2>4, <2>5 DEF Relay
<1>4. CASE UNCHANGED vars
  BY <1>4 DEF vars, IInv, TypeOK, EntryCurrent, CurrentOpened, DataReachesItsStream,
              OpenStaysServed
<1> QED BY <1>1, <1>2, <1>3, <1>4 DEF Next

LEMMA Invariance == Spec => []IInv
BY InitInv, NextInv, PTL DEF Spec

(* Every variable keeps its type.                                          *)
THEOREM TypeCorrect == Spec => []TypeOK
BY Invariance, PTL DEF IInv

(* Data never reach another stream's relay, whatever ids are used again    *)
(* and whichever opens are refused.                                        *)
THEOREM DataSeparation == Spec => []DataReachesItsStream
BY Invariance, PTL DEF IInv

(* An open stream whose relay is at work stays reachable until one of the  *)
(* relays of its id that were alive when it was opened ends, and is cut    *)
(* off from then on: ids used again included.                              *)
THEOREM StaysServed == Spec => []OpenStaysServed
BY Invariance, PTL DEF IInv

-----------------------------------------------------------------------------
(* The limit.                                                              *)

LEMMA EntriesFinite == IsFiniteSet(Entries) /\ Cardinality(Entries) \in Nat
<1>1. Entries \subseteq Sids
  BY DEF Entries
<1> QED BY <1>1, SidAssumption, FS_Subset, FS_CardinalityType

(* A step that adds no entry keeps the limit.                              *)
LEMMA FewerEntries ==
    ASSUME StreamLimit, Entries' \subseteq Entries
    PROVE  StreamLimit'
<1>1. Cardinality(Entries') <= Cardinality(Entries)
  BY EntriesFinite, FS_Subset
<1>2. Cardinality(Entries') \in Nat
  BY EntriesFinite, FS_Subset, FS_CardinalityType
<1> QED BY <1>1, <1>2, EntriesFinite, LimitAssumption DEF StreamLimit

LEMMA AcceptLimit ==
    ASSUME TypeOK, NEW x \in Streams, NEW i \in Sids, Accept(x, i)
    PROVE  StreamLimit'
<1>1. Entries' = Entries \cup {i}
  BY StreamAssumption DEF Accept, Entries, TypeOK
<1>2. Cardinality(Entries') <= Cardinality(Entries) + 1
  <2>1. Cardinality(Entries \cup {i}) \in {Cardinality(Entries), Cardinality(Entries) + 1}
    BY EntriesFinite, FS_AddElement, ZenonT(30)
  <2> QED BY <1>1, <2>1, EntriesFinite
<1>3. Cardinality(Entries) < MaxStreams
  BY EntriesFinite, LimitAssumption DEF Accept, Full
<1>4. Cardinality(Entries') \in Nat
  BY <1>1, EntriesFinite, FS_AddElement, FS_CardinalityType
<1> QED BY <1>2, <1>3, <1>4, EntriesFinite, LimitAssumption DEF StreamLimit

(* The table never holds more than MAX_STREAMS entries.                    *)
THEOREM LimitKept == Spec => []StreamLimit
<1>1. Init => StreamLimit
  <2> SUFFICES ASSUME Init PROVE StreamLimit
    OBVIOUS
  <2>1. Entries = {}
    BY DEF Init, Entries
  <2> QED BY <2>1, FS_EmptySet, LimitAssumption DEF StreamLimit
<1>2. TypeOK /\ StreamLimit /\ [Next]_vars => StreamLimit'
  <2> SUFFICES ASSUME TypeOK, StreamLimit, [Next]_vars PROVE StreamLimit'
    OBVIOUS
  <2>1. CASE \E x \in Streams, i \in Sids : Accept(x, i)
    BY <2>1, AcceptLimit
  <2>2. CASE active' = active
    BY <2>2, FewerEntries DEF Entries
  <2>3. ASSUME NEW i \in Sids, active' = [active EXCEPT ![i] = NoStream] PROVE StreamLimit'
    BY <2>3, FewerEntries DEF Entries, TypeOK
  <2>4. ASSUME NEW x \in Streams, Leave(x) PROVE StreamLimit'
    <3>1. Entries' \subseteq Entries
      BY <2>4 DEF Leave, Entries, TypeOK
    <3> QED BY <3>1, FewerEntries
  <2>5. CASE Backend
    BY <2>1, <2>2, <2>3, <2>5 DEF Backend, Refuse, StreamClose, RelayData
  <2> QED
    BY <2>2, <2>4, <2>5 DEF Next, End, Relay, Connected, ConnectFails, RunEnds, Abort, vars
<1> QED BY <1>1, <1>2, TypeCorrect, PTL DEF Spec
=============================================================================
