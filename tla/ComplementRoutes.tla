---------------------------- MODULE ComplementRoutes ----------------------------
(***************************************************************************)
(* The routes of the Android VPN: complementRoutes of                      *)
(* ProxyBaseVpnService.kt, which a service uses to have everything but the *)
(* excluded networks routed into the tunnel, for addresses of any width.   *)
(***************************************************************************)
EXTENDS Naturals, FiniteSets, Sequences

CONSTANTS Bits,         \* of an address: 32 and 128 in the code
          MaxExcluded   \* bound: excluded networks

ASSUME BitsAssumption == Bits \in Nat \ {0} /\ MaxExcluded \in Nat

VARIABLES excluded, routes

routesVars == <<excluded, routes>>

Total == 2 ^ Bits
Size(prefix) == 2 ^ (Bits - prefix)
Block(start, prefix) == [start |-> start, prefix |-> prefix]
Addresses(b) == b.start .. (b.start + Size(b.prefix) - 1)

\* Networks, each with its host bits zero.
Networks ==
    UNION {{Block(n * Size(prefix), prefix) : n \in 0..(2 ^ prefix - 1)} : prefix \in 0..Bits}

\* addRange: the largest aligned block that fits, again and again; a default
\* route is split into its halves.
AddRange(start, end) ==
    LET from[at \in start..(end + 1)] ==
          IF at > end THEN {}
          ELSE LET fits == {e \in 0..Bits : at % (2 ^ e) = 0 /\ 2 ^ e <= end - at + 1}
                   sizeExp == CHOOSE e \in fits : \A f \in fits : f <= e
                   route == IF sizeExp = Bits THEN {Block(0, 1), Block(Total \div 2, 1)}
                            ELSE {Block(at, Bits - sizeExp)}
               IN route \cup from[at + 2 ^ sizeExp]
    IN  from[start]

\* Mutant: a network within the one before moves the cursor back.
Skip_Back(at, range) ==
    [routes |-> at.routes \cup (IF range.start > at.cursor THEN AddRange(at.cursor, range.start - 1)
                                ELSE {}),
     cursor |-> range.start + Size(range.prefix)]

\* One step of the loop over the excluded ranges.
Skip(at, range) ==
    LET next == range.start + Size(range.prefix) IN
    [routes |-> at.routes \cup (IF range.start > at.cursor THEN AddRange(at.cursor, range.start - 1)
                                ELSE {}),
     cursor |-> IF next > at.cursor THEN next ELSE at.cursor]

\* Ranges of one start may be sorted either way.
Sorted(ranges) ==
    {s \in [1..Cardinality(ranges) -> ranges] :
        /\ ranges = {s[i] : i \in DOMAIN s}
        /\ \A i, j \in DOMAIN s : i < j => s[i].start <= s[j].start}

ComplementOf(ranges) ==
    LET after[i \in 0..Len(ranges)] ==
          IF i = 0 THEN [routes |-> {}, cursor |-> 0] ELSE Skip(after[i - 1], ranges[i])
        at == after[Len(ranges)]
    IN  at.routes \cup (IF at.cursor < Total THEN AddRange(at.cursor, Total - 1) ELSE {})

RoutesInit == excluded = {} /\ routes = ComplementOf(<<>>)

\* Lists of networks, one network after another; the code has two fixed ones.
Exclude ==
    /\ Cardinality(excluded) < MaxExcluded
    /\ \E n \in Networks \ excluded : excluded' = excluded \cup {n}
    /\ \E ranges \in Sorted(excluded') : routes' = ComplementOf(ranges)

RoutesNext == Exclude

Wanted == (0..(Total - 1)) \ UNION {Addresses(n) : n \in excluded}
Parent(b) == Block(b.start - (b.start % Size(b.prefix - 1)), b.prefix - 1)

\* What the tunnel gets is everything but the excluded networks, by the blocks
\* that are not part of a larger one (the comment's minimal list), and never by
\* a default route.
RoutesAreComplement ==
    LET wanted == Wanted IN
    routes = {b \in Networks : /\ b.prefix > 0 /\ Addresses(b) \subseteq wanted
                               /\ b.prefix = 1 \/ ~(Addresses(Parent(b)) \subseteq wanted)}
=============================================================================
