------------------------------ MODULE Reactor -------------------------------
(***************************************************************************)
(* The reactor and the sources registered with it                          *)
(* (agentdp-network/src/reactor/mio/mod.rs and reactor/registered.rs).     *)
(* The operating system's selector is external: it reports an edge for an  *)
(* armed direction that becomes ready and for one that is ready when the   *)
(* source is added, and it may still report an edge of a source that has   *)
(* been removed since.                                                     *)
(***************************************************************************)
EXTENDS Naturals, FiniteSets, IoSlot

CONSTANTS
    Streams,          \* the items whose source is a TCP stream
    Others,           \* the items of listeners, UDP sockets and the guest source
    EventCapacity,    \* reactor_event_capacity: the size of the item tables
    MaxRegistrations  \* bound: registrations in a behaviour

\* The tables hold any number of items, the behaviour any number of registrations.
ReactorBounds == EventCapacity \in Nat /\ MaxRegistrations \in Nat

ASSUME ReactorAssumption == ReactorBounds

Items == Streams \cup Others
Directions == {"r", "w"}
NoToken == 0

VARIABLES
    token,      \* by_item: the backend token of a registered item
    nextToken,  \* next_backend_token
    suspended,  \* suspended_items
    io,         \* the slot the owner of the source keeps
    armed,      \* selector: the interest a token is armed with
    edges,      \* selector: edges not yet reported, <<token, direction>>
    ready,      \* kernel: the directions in which a source can make progress
    edgeSince   \* history: items an edge was raised for since they were registered

reactorVars == <<token, nextToken, suspended, io, armed, edges, ready, edgeSince>>

Tokens == 1 .. MaxRegistrations

ReactorTypeOK ==
    /\ token \in [Items -> Tokens \cup {NoToken}]
    /\ nextToken \in 1 .. MaxRegistrations + 1
    /\ suspended \subseteq Items
    /\ io \in [Items -> Slots]
    /\ armed \in [Tokens -> Interests]
    /\ edges \subseteq Tokens \X Directions
    /\ ready \in [Items -> SUBSET Directions]
    /\ edgeSince \subseteq Items \X Directions

ReactorInit ==
    /\ token = [i \in Items |-> NoToken]
    /\ nextToken = 1
    /\ suspended = {}
    /\ io = [i \in Items |-> Cleared]
    /\ armed = [t \in Tokens |-> "Disabled"]
    /\ edges = {}
    /\ ready = [i \in Items |-> {}]
    /\ edgeSince = {}

Watched(interest) == {d \in Directions : IF d = "r" THEN Reads(interest) ELSE Writes(interest)}

IsRegistered(i) == token[i] # NoToken

\* What adding a source with an interest raises at once.
Added(i, t, interest) == {t} \X (ready[i] \cap Watched(interest))

-----------------------------------------------------------------------------
\* remember_registration finds both tables below their capacity.
TablesHaveRoom == Cardinality({i \in Items : IsRegistered(i)}) < EventCapacity

\* register_source: a fresh token, then the selector, then the tables; when the
\* tables are full the source is removed from the selector again.
Register(i, interest) ==
    /\ ~IsRegistered(i)
    /\ interest # "Disabled"
    /\ nextToken <= MaxRegistrations
    /\ nextToken' = nextToken + 1
    /\ edges' = edges \cup Added(i, nextToken, interest)
    /\ IF TablesHaveRoom
       THEN /\ token' = [token EXCEPT ![i] = nextToken]
            /\ armed' = [armed EXCEPT ![nextToken] = interest]
            /\ io' = [io EXCEPT ![i] = Registered(interest, i \in Streams)]
            /\ edgeSince' = edgeSince \cup ({i} \X (ready[i] \cap Watched(interest)))
       ELSE UNCHANGED <<token, armed, io, edgeSince>>
    /\ UNCHANGED <<suspended, ready>>

\* reregister_source with an interest: a suspended source is added again under
\* its token, another one is modified in place, which reports nothing by itself
\* and which the selector refuses for a source it does not hold.
Rearm(i, interest) ==
    /\ interest # "Disabled"
    /\ i \in suspended \/ armed[token[i]] # "Disabled"
    /\ armed' = [armed EXCEPT ![token[i]] = interest]
    /\ suspended' = suspended \ {i}
    /\ edges' = (edges \ ({token[i]} \X (Directions \ Watched(interest))))
                \cup IF i \in suspended THEN Added(i, token[i], interest) ELSE {}
    /\ edgeSince' = edgeSince
                \cup IF i \in suspended THEN {i} \X (ready[i] \cap Watched(interest)) ELSE {}

\* reregister_source without one: the source is taken out of the selector and
\* keeps its token.
Suspend(i, interest) ==
    /\ interest = "Disabled"
    /\ armed' = [armed EXCEPT ![token[i]] = "Disabled"]
    /\ suspended' = suspended \cup {i}
    /\ UNCHANGED <<edges, edgeSince>>

Reregister(i, interest) ==
    /\ IsRegistered(i)
    /\ interest # io[i].interest
    /\ Rearm(i, interest) \/ Suspend(i, interest)
    /\ io' = [io EXCEPT ![i] = SetInterest(io[i], interest)]
    /\ UNCHANGED <<token, nextToken, ready>>

\* The selector refuses the change: the suspension of the item is already
\* forgotten, the owner's slot is not changed.
ReregisterFails(i) ==
    /\ IsRegistered(i)
    /\ suspended' = suspended \ {i}
    /\ UNCHANGED <<token, nextToken, io, armed, edges, ready, edgeSince>>

\* deregister_source: both table entries go, and the suspension with them.
Deregister(i) ==
    /\ IsRegistered(i)
    /\ token' = [token EXCEPT ![i] = NoToken]
    /\ armed' = [armed EXCEPT ![token[i]] = "Disabled"]
    /\ suspended' = suspended \ {i}
    /\ io' = [io EXCEPT ![i] = Cleared]
    /\ edgeSince' = edgeSince \ ({i} \X Directions)
    /\ UNCHANGED <<nextToken, edges, ready>>

\* ready_into, and each owner latching what it is told before it drives its
\* sources: an edge of an unknown token or of a suspended item is discarded.
Poll ==
    LET told(i) == {d \in Directions : i \notin suspended /\ <<token[i], d>> \in edges}
    IN  /\ edges # {}
        /\ io' = [i \in Items |-> MarkReady(io[i], "r" \in told(i), "w" \in told(i))]
        /\ edges' = {}
        /\ UNCHANGED <<token, nextToken, suspended, armed, ready, edgeSince>>

\* The owner tries a direction its slot allows: it makes progress and may try
\* again, or the kernel answers WouldBlock, which clears the latch.
TryIo(i, d) ==
    /\ IF d = "r" THEN CanRead(io[i]) ELSE CanWrite(io[i])
    /\ \/ /\ d \in ready[i]
          /\ ready' \in {ready, [ready EXCEPT ![i] = @ \ {d}]}
          /\ UNCHANGED io
       \/ /\ d \notin ready[i]
          /\ io' = [io EXCEPT ![i] = IF d = "r" THEN ClearReadAfterWouldBlock(@)
                                                ELSE ClearWriteAfterWouldBlock(@)]
          /\ UNCHANGED ready
    /\ UNCHANGED <<token, nextToken, suspended, armed, edges, edgeSince>>

\* Data or room arrives at a source.
Arrives(i, d) ==
    /\ d \notin ready[i]
    /\ ready' = [ready EXCEPT ![i] = @ \cup {d}]
    /\ IF IsRegistered(i) /\ d \in Watched(armed[token[i]])
       THEN /\ edges' = edges \cup {<<token[i], d>>}
            /\ edgeSince' = edgeSince \cup {<<i, d>>}
       ELSE UNCHANGED <<edges, edgeSince>>
    /\ UNCHANGED <<token, nextToken, suspended, io, armed>>

ReactorNext ==
    \/ \E i \in Items, interest \in Interests : Register(i, interest) \/ Reregister(i, interest)
    \/ \E i \in Items : ReregisterFails(i) \/ Deregister(i)
    \/ \E i \in Items, d \in Directions : TryIo(i, d) \/ Arrives(i, d)
    \/ Poll

ReactorSpec == ReactorInit /\ [][ReactorNext]_reactorVars

-----------------------------------------------------------------------------
\* A registered source that is ready in a direction its owner asked for is never
\* forgotten: the owner may try the operation now, or an edge is on its way.  The
\* selector is edge-triggered, so a latch cleared too early, or a direction
\* enabled without a probe, would leave the connection waiting for ever.
ReadinessNotLost ==
    \A i \in Items, d \in Directions :
        /\ IsRegistered(i)
        /\ d \in ready[i] \cap Watched(io[i].interest)
        => \/ IF d = "r" THEN CanRead(io[i]) ELSE CanWrite(io[i])
           \/ <<token[i], d>> \in edges

\* Readiness latched for an item was reported for its present registration: an
\* edge of the source that held the same item before it is never delivered.
LatchIsOwn ==
    \A i \in Items :
        /\ io[i].readable => <<i, "r">> \in edgeSince
        /\ io[i].writable => <<i, "w">> \in edgeSince

\* Edges reach the owner they are for, and all that matter do (poll of reactor/mio).
EdgesDelivered == ReadinessNotLost /\ LatchIsOwn
=============================================================================
