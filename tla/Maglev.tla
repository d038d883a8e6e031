------------------------------- MODULE Maglev -------------------------------
(***************************************************************************)
(* The Maglev load balancer of Toasty (toasty.c: load_services, configure, *)
(* process_packet_maglev): at start-up the table of slots is populated     *)
(* from one sequence of preferences per backend; then every packet of an   *)
(* unknown source is given a backend by the slot its session hashes to.    *)
(*                                                                         *)
(* A packet is known by its source and protocol alone: the program puts    *)
(* the service's address in place of the packet's destination.  A backend  *)
(* that answers a client is therefore a source like any other.             *)
(*                                                                         *)
(*   pc                  "configure", "holes" (the last loop of it) and    *)
(*                       "serve"                                           *)
(*   hashval             murmurhash of each backend's index                *)
(*   overflow_wraps      what the build makes of int overflow, which C     *)
(*                       leaves undefined: 32-bit or wider arithmetic      *)
(*   bkd_mapping, next, filled, turn                                       *)
(*                       as in configure; turn is its loop variable i      *)
(*   active_sessions     the chained hash map of sessions                  *)
(***************************************************************************)
EXTENDS Integers, FiniteSets, HashMap

CONSTANTS
    NumBackends,      \* nbackends
    LookupSize,       \* MAGLEV_LOOKUP_SIZE, a prime
    IntRange,         \* 2^32, the number of values of an int
    MaxSessions,      \* MAX_SESSIONS, the buckets of active_sessions
    Sources,          \* of packets: records [addr, port]
    Protocols,
    UDP,
    SessionHash(_)    \* murmurhash of a session

ASSUME MaglevAssumption ==
    /\ NumBackends \in Nat \ {0}
    /\ LookupSize \in Nat \ {0, 1}
    /\ MaxSessions \in Nat \ {0}
    /\ \E h \in 1 .. IntRange : IntRange = 2 * h
    /\ UDP \in Protocols
    /\ \A source \in Sources : source.addr \in Nat /\ source.port \in Nat

VARIABLES pc, hashval, overflow_wraps, bkd_mapping, next, filled, turn,
          active_sessions

table == <<bkd_mapping, next, filled, turn>>
vars == <<pc, hashval, overflow_wraps, table, active_sessions>>

\* The backends of the one service, as load_services numbers and stores them.
Backends == 0 .. NumBackends - 1
Lookups == 0 .. LookupSize - 1
Ints == -(IntRange \div 2) .. (IntRange \div 2) - 1

Free == -1

-----------------------------------------------------------------------------
\* C's remainder takes the sign of the dividend.
Rem(a, b) == IF a >= 0 THEN a % b ELSE -((-a) % b)

\* The int that an exact result is stored as.
AsInt(n) == ((n + IntRange \div 2) % IntRange) - (IntRange \div 2)

Offset(b) == Rem(hashval[b], LookupSize)
Skip(b) == Rem(hashval[b], LookupSize - 1) + 1

Permutation(b, j) ==
    LET exact == Offset(b) + j * Skip(b)
        sum == IF overflow_wraps THEN AsInt(exact) ELSE exact
    IN  Rem(Rem(sum, LookupSize) + LookupSize, LookupSize)

\* Each backend's preferences name every slot.
FullPermutations ==
    \A b \in Backends : {Permutation(b, j) : j \in Lookups} = Lookups

-----------------------------------------------------------------------------
TypeOK ==
    /\ pc \in {"configure", "holes", "serve"}
    /\ hashval \in [Backends -> Ints]
    /\ overflow_wraps \in BOOLEAN
    /\ bkd_mapping \in [Lookups -> Backends \cup {Free}]
    /\ next \in [Backends -> 0 .. LookupSize + 1]
    /\ filled \in 0 .. LookupSize
    /\ turn \in 0 .. NumBackends
    /\ DOMAIN active_sessions = 0 .. MaxSessions - 1

Init ==
    /\ pc = "configure"
    /\ hashval \in [Backends -> Ints]
    /\ overflow_wraps \in BOOLEAN
    /\ bkd_mapping = [c \in Lookups |-> Free]
    /\ next = [b \in Backends |-> 0]
    /\ filled = 0
    /\ turn = 0
    /\ active_sessions = hashmap_init(MaxSessions)

\* The places from next on at which backend b finds a free slot.
FreePreferences(b) ==
    {j \in next[b] .. LookupSize - 1 : bkd_mapping[Permutation(b, j)] = Free}

\* A faulty variant: the backend takes its next slot, free or not.
PlaceUnchecked(b) == next[b]

\* Where the inner loop of configure stops: at the first free preference, or
\* behind the last one.
Place(b) ==
    IF FreePreferences(b) = {} THEN LookupSize
    ELSE CHOOSE j \in FreePreferences(b) : \A k \in FreePreferences(b) : j <= k

\* The slot in hand when it stops: behind the end it is still the last one.
SlotAt(b, j) == Permutation(b, IF j = LookupSize THEN j - 1 ELSE j)

\* A faulty variant: the slots are not counted.
TurnUncounted ==
    /\ pc = "configure"
    /\ turn \in Backends
    /\ turn' = turn + 1
    /\ IF next[turn] >= LookupSize
       THEN UNCHANGED <<bkd_mapping, next, filled>>
       ELSE /\ bkd_mapping' = [bkd_mapping EXCEPT ![SlotAt(turn, Place(turn))] = turn]
            /\ next' = [next EXCEPT ![turn] = Place(turn) + 1]
            /\ filled' = filled + 1
    /\ UNCHANGED <<pc, hashval, overflow_wraps, active_sessions>>

\* One turn of a backend in the loop of configure, with its return when the
\* count of filled slots is complete.
Turn ==
    /\ pc = "configure"
    /\ turn \in Backends
    /\ turn' = turn + 1
    /\ IF next[turn] >= LookupSize
       THEN UNCHANGED <<pc, bkd_mapping, next, filled>>
       ELSE /\ bkd_mapping' = [bkd_mapping EXCEPT ![SlotAt(turn, Place(turn))] = turn]
            /\ next' = [next EXCEPT ![turn] = Place(turn) + 1]
            /\ filled' = filled + 1
            /\ pc' = IF filled + 1 = LookupSize THEN "serve" ELSE pc
    /\ UNCHANGED <<hashval, overflow_wraps, active_sessions>>

\* A faulty variant: the end is not noticed.
RoundEndless ==
    /\ pc = "configure"
    /\ turn = NumBackends
    /\ turn' = 0
    /\ UNCHANGED <<pc, hashval, overflow_wraps, bkd_mapping, next, filled, active_sessions>>

\* After a round: the loop ends when no backend has a preference left.
RoundEnd ==
    /\ pc = "configure"
    /\ turn = NumBackends
    /\ turn' = 0
    /\ pc' = IF \A b \in Backends : next[b] >= LookupSize THEN "holes" ELSE pc
    /\ UNCHANGED <<hashval, overflow_wraps, bkd_mapping, next, filled, active_sessions>>

\* The last loop of configure: the free slots are dealt to the backends in turn.
FillHoles ==
    /\ pc = "holes"
    /\ bkd_mapping' = [c \in Lookups |->
           IF bkd_mapping[c] # Free THEN bkd_mapping[c]
           ELSE Cardinality({d \in 0 .. c - 1 : bkd_mapping[d] = Free}) % NumBackends]
    /\ pc' = "serve"
    /\ UNCHANGED <<hashval, overflow_wraps, next, filled, turn, active_sessions>>

-----------------------------------------------------------------------------
\* Sessions

\* The addresses of load_services, in a row.
Service == [addr |-> 0, port |-> 80]
BackendAddr(b) == [addr |-> 1 + b, port |-> 8080]

Session(from, to, proto) == [from |-> from, to |-> to, proto |-> proto]

ToBackend(b) == [dir |-> "to backend", to |-> BackendAddr(b), bkdindex |-> b]
ToClient == [dir |-> "to client", to |-> Service, bkdindex |-> Free]

Known(sid) == Has(active_sessions, SessionHash(sid) % MaxSessions, sid)

Stored(sessions, sid, rep) ==
    hashmap_insert_elem(sessions, SessionHash(sid) % MaxSessions, sid, rep)

Replacement(sid) ==
    hashmap_lookup_elem(active_sessions, SessionHash(sid) % MaxSessions, sid)

\* The session under which packets of a source are looked up and stored, wherever
\* they are going.
Sid(source, proto) == Session(source, Service, proto)

\* A faulty variant: the session back is stored under the source's own name.
ReturnSessionSwapped(source, b) == Session(source, BackendAddr(b), UDP)

\* The session from the backend back to the source.
ReturnSession(source, b) == Session(BackendAddr(b), source, UDP)

\* process_packet_maglev: packets of known sessions, of other services and of
\* slots without a backend leave no trace.  An insert that is refused leaves the
\* map as it is.
process_packet_maglev(source, proto) ==
    LET sid == Sid(source, proto)
        b == bkd_mapping[SessionHash(sid) % LookupSize]
        forward == Stored(active_sessions, sid, ToBackend(b))
    IN  /\ pc = "serve"
        /\ active_sessions' =
               IF Known(sid) \/ proto # UDP \/ b \notin Backends
               THEN active_sessions
               ELSE Stored(forward, ReturnSession(source, b), ToClient)
        /\ UNCHANGED <<pc, hashval, overflow_wraps, table>>

Next ==
    \/ Turn
    \/ RoundEnd
    \/ FillHoles
    \/ \E source \in Sources, proto \in Protocols : process_packet_maglev(source, proto)

Spec == Init /\ [][Next]_vars

\* load_services runs before the first packet, in the program's one thread.
FairSpec == Spec /\ WF_vars(Turn \/ RoundEnd \/ FillHoles)

-----------------------------------------------------------------------------
\* Properties

Share(b) == {c \in Lookups : bkd_mapping[c] = b}

\* If the preferences of all backends are permutations, as configure means them
\* to be, its early return leaves no slot without a backend and no two backends
\* differ by more than one slot.
EvenlyFilled ==
    pc = "serve" /\ FullPermutations =>
        /\ \A c \in Lookups : bkd_mapping[c] \in Backends
        /\ \A a, b \in Backends : Cardinality(Share(a)) <= Cardinality(Share(b)) + 1

\* Every slot names a backend once the table is in use: process_packet_maglev
\* finds a backend for every new session.
SlotsFilled == pc = "serve" => \A c \in Lookups : bkd_mapping[c] \in Backends

\* configure comes to an end, whatever the preferences.
ConfigureEnds == <>(pc = "serve")

\* The backend of a source's slot, to which its packets are sent, and the session
\* back.
Home(source) == bkd_mapping[SessionHash(Sid(source, UDP)) % LookupSize]

Back(source) == Session(BackendAddr(Home(source)), source, UDP)

SentToHome(source) ==
    /\ Home(source) \in Backends
    /\ Replacement(Sid(source, UDP)) = ToBackend(Home(source))

\* The entries of the map pair up, whoever sends: clients, backends, or the service's
\* own address, whose sessions share names with those of the backends.  A source
\* that process_packet_maglev knows is sent to the backend of its slot, and beside
\* it stands an entry back from that backend, towards the client.  Only packets
\* from the service's address break the rule: their entry back may already be
\* there as the backend's own session, when the second insert is refused, and it
\* is what the backend is known by if it sends later.
SessionsPaired ==
    \A source \in Sources :
        Known(Sid(source, UDP)) =>
            \/ /\ SentToHome(source)
               /\ Known(Back(source))
               /\ \/ Replacement(Back(source)) = ToClient
                  \/ source = Service /\ SentToHome(BackendAddr(Home(source)))
            \/ /\ Replacement(Sid(source, UDP)) = ToClient
               /\ Known(Sid(Service, UDP))
               /\ SentToHome(Service)
               /\ source = BackendAddr(Home(Service))

\* A known session is never forgotten nor sent elsewhere, whatever sessions share
\* its chain or its name.
SessionsStick ==
    [][\A source \in Sources :
          LET sid == Sid(source, UDP) IN
          Known(sid) => Known(sid)' /\ Replacement(sid)' = Replacement(sid)]_vars
=============================================================================
