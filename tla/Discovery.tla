------------------------------- MODULE Discovery -------------------------------
(***************************************************************************)
(* Who knows whom: the HELLO and HERE broadcasts, the alive agent, the     *)
(* ageing of the peer tables, and the broadcast socket with its counter of *)
(* datagrams to drop (udp_controller.py, udp_socket.py), on several nodes. *)
(*                                                                         *)
(* Time passes in ticks.  A datagram arrives, or is lost, within a tick,   *)
(* and a round of an agent starts at most Lateness ticks after its sleep.  *)
(***************************************************************************)
EXTENDS Integers, FiniteSets

CONSTANTS
    Nodes,
    Period,       \* UDP_ADVERTISE_PERIOD in ticks
    Cleanup,      \* UDP_PEER_CLEANUP_PERIOD in ticks
    Lateness,     \* how late a round may start: bounds the scheduling delay
    DropInRow,    \* Config().broadcast_drop_in_row
    MaxStops      \* bounds the times a node stops

ASSUME DiscoveryConstants ==
    /\ Period \in Nat \ {0} /\ Lateness \in Nat /\ MaxStops \in Nat
    /\ Cleanup \in Nat /\ Cleanup >= Period + Lateness
    /\ DropInRow \in Nat \ {0}

VARIABLES
    running,    \* nodes between UdpController.start and stop
    age,        \* _known_peers of each node: peer -> ticks since last_updated
    elapsed,    \* ticks since the last round of each node's agent
    drop,       \* _drop_counter of each node's broadcast socket
    net,        \* broadcast datagrams under way
    stops,      \* stops so far
    unheard     \* history: rounds of a peer since a node last heard it

vars == <<running, age, elapsed, drop, net, stops, unheard>>

-----------------------------------------------------------------------------

MaxElapsed == Period + Lateness

NotYet == MaxElapsed + 1    \* the agent is scheduled and has not run

\* Ages are counted up to here: older than any table entry of a running agent.
MaxAge == Cleanup + MaxElapsed + 1

Unknown == MaxAge + 1    \* no entry

Known(n) == {p \in Nodes : age[n][p] # Unknown}

Tolerated == Cleanup \div MaxElapsed    \* rounds a peer may be silent

Datagram == [kind : {"hello", "here"}, from : Nodes, to : Nodes]

\* Everyone running gets a copy; the sender ignores its own by its address.
Broadcast(n, kind) ==
    {[kind |-> kind, from |-> n, to |-> p] : p \in running \ {n}}

AtMost(a, b) == IF a < b THEN a ELSE b

\* dict.pop.
Without(n, removed) ==
    [age EXCEPT ![n] = [p \in Nodes |-> IF p \in removed THEN Unknown ELSE @[p]]]

OldAtTheLimit(n) == {p \in Known(n) : age[n][p] >= Cleanup}    \* mutant

\* _delete_old_peers: total_seconds() > UDP_PEER_CLEANUP_PERIOD.
Old(n) == {p \in Known(n) : age[n][p] > Cleanup}

-----------------------------------------------------------------------------
(* A node *)

\* A new protocol object, the agent scheduled, HELLO.  The tables are those of
\* the controller, unless the process is a new one.
Start(n, launched) ==
    /\ n \notin running
    /\ running' = running \cup {n}
    /\ age' = IF launched THEN Without(n, Nodes) ELSE age
    /\ drop' = [drop EXCEPT ![n] = 0]
    /\ elapsed' = [elapsed EXCEPT ![n] = NotYet]
    /\ net' = net \cup Broadcast(n, "hello")
    /\ unheard' = [q \in Nodes |-> [unheard[q] EXCEPT ![n] = Tolerated]]
    /\ UNCHANGED stops

\* The loop and the sockets are gone, with what was on its way to them.
Stop(n) ==
    /\ n \in running
    /\ stops < MaxStops
    /\ stops' = stops + 1
    /\ running' = running \ {n}
    /\ net' = {m \in net : m.to # n}
    /\ UNCHANGED <<age, elapsed, drop, unheard>>

\* A round of the agent, whose HERE goes out or not.
Announced(n, sent) ==
    /\ n \in running
    /\ elapsed[n] >= Period
    /\ elapsed' = [elapsed EXCEPT ![n] = 0]
    /\ net' = net \cup (IF sent THEN Broadcast(n, "here") ELSE {})
    /\ unheard' = [q \in Nodes |->
                      [unheard[q] EXCEPT ![n] = AtMost(@ + 1, Tolerated)]]
    /\ UNCHANGED <<running, drop, stops>>

CleanIfSent(n, sent) ==    \* mutant: the cleanup inside the try
    /\ Announced(n, sent)
    /\ age' = IF sent THEN Without(n, Old(n)) ELSE age

\* _serve_alive_agent: a send that fails is logged, and the peers are cleaned
\* up all the same.
AgentRound(n, sent) ==
    /\ Announced(n, sent)
    /\ age' = Without(n, Old(n))

\* remove_peer, after a search or a download that failed.
GiveUp(n, p) ==
    /\ n \in running
    /\ p \in Known(n)
    /\ age' = Without(n, {p})
    /\ UNCHANGED <<running, elapsed, drop, net, stops, unheard>>

-----------------------------------------------------------------------------
(* The broadcast socket: datagram_received and the callbacks *)

FirstIsFree(c) == IF c = 0 THEN DropInRow ELSE c - 1    \* mutant

\* The counter after a drop: at zero, by chance, a new series begins.
Countdown(c) == (IF c = 0 THEN DropInRow ELSE c) - 1

Drop(n, m) ==
    /\ m \in net /\ m.to = n
    /\ drop' = [drop EXCEPT ![n] = Countdown(@)]
    /\ net' = net \ {m}
    /\ UNCHANGED <<running, age, elapsed, stops, unheard>>

\* hello_callback: a HERE to all, and the sender is not added.
HelloReceived(n, m) ==
    /\ m \in net /\ m.to = n /\ m.kind = "hello"
    /\ drop[n] = 0
    /\ \/ net' = (net \ {m}) \cup Broadcast(n, "here")
       \/ net' = net \ {m}
    /\ UNCHANGED <<running, age, elapsed, drop, stops, unheard>>

OnlyUpdated(n, p) ==    \* mutant: a peer that is not known is not added
    IF p \in Known(n) THEN [age EXCEPT ![n][p] = 0] ELSE age

Updated(n, p) == [age EXCEPT ![n][p] = 0]

\* here_callback: the sender is added, or its time updated.
HereReceived(n, m) ==
    /\ m \in net /\ m.to = n /\ m.kind = "here"
    /\ drop[n] = 0
    /\ net' = net \ {m}
    /\ age' = Updated(n, m.from)
    /\ unheard' = [unheard EXCEPT ![n][m.from] = 0]
    /\ UNCHANGED <<running, elapsed, drop, stops>>

Lose(m) ==
    /\ m \in net
    /\ net' = net \ {m}
    /\ UNCHANGED <<running, age, elapsed, drop, stops, unheard>>

-----------------------------------------------------------------------------
(* Specification *)

Tick ==
    /\ net = {}
    /\ \A n \in running : elapsed[n] < MaxElapsed
    /\ elapsed' = [n \in Nodes |-> IF n \in running THEN elapsed[n] + 1
                                                    ELSE elapsed[n]]
    /\ age' = [n \in Nodes |-> [p \in Nodes |->
                  IF p \in Known(n) THEN AtMost(age[n][p] + 1, MaxAge)
                                    ELSE Unknown]]
    /\ UNCHANGED <<running, drop, net, stops, unheard>>

Init ==
    /\ running = {}
    /\ age = [n \in Nodes |-> [p \in Nodes |-> Unknown]]
    /\ elapsed = [n \in Nodes |-> 0]
    /\ drop = [n \in Nodes |-> 0]
    /\ net = {}
    /\ stops = 0
    /\ unheard = [n \in Nodes |-> [p \in Nodes |-> Tolerated]]

Arrive(m) ==
    \/ Drop(m.to, m)
    \/ HelloReceived(m.to, m)
    \/ HereReceived(m.to, m)
    \/ Lose(m)

\* The HERE of p reaches the socket of n, and is heard or must be dropped.
Here(n, p) == [kind |-> "here", from |-> p, to |-> n]

Heard(n, p) == HereReceived(n, Here(n, p))

Counted(n, p) == drop[n] # 0 /\ Drop(n, Here(n, p))

Next ==
    \/ \E n \in Nodes :
          \/ \E launched \in BOOLEAN : Start(n, launched)
          \/ Stop(n)
          \/ \E sent \in BOOLEAN : AgentRound(n, sent)
          \/ \E p \in Nodes : GiveUp(n, p)
    \/ \E m \in net : Arrive(m)
    \/ Tick

\* Loops and clocks go on, and no datagram is under way for ever.  Losses and
\* failures are fair: of a peer's rounds without end, some are heard.
Spec ==
    /\ Init
    /\ [][Next]_vars
    /\ WF_vars(Tick)
    /\ WF_vars(\E m \in net : Arrive(m))
    /\ \A n \in Nodes : SF_vars(AgentRound(n, TRUE))
    /\ \A n \in Nodes : \A p \in Nodes \ {n} :
          SF_vars(Heard(n, p)) /\ SF_vars(Counted(n, p))

-----------------------------------------------------------------------------
(* Properties *)

\* The variables keep their shapes; in particular the drop counter never
\* passes below zero, from where it would not come back.
TypeOK ==
    /\ running \subseteq Nodes
    /\ age \in [Nodes -> [Nodes -> 0..Unknown]]
    /\ elapsed \in [Nodes -> 0..NotYet]
    /\ drop \in [Nodes -> 0..(DropInRow - 1)]
    /\ net \subseteq Datagram
    /\ stops \in 0..MaxStops
    /\ unheard \in [Nodes -> [Nodes -> 0..Tolerated]]

\* A peer that has gone leaves the table of a running node 30 s and one round
\* later, however many sends failed, and also when the node was stopped in
\* between and starts with an old table.
NoStalePeers ==
    \A n \in running : \A p \in Known(n) :
        elapsed[n] # NotYet => age[n][p] <= Cleanup + elapsed[n]

\* The docstring of _delete_old_peers counts seconds; what it relies on is
\* that a peer that runs announces itself often enough.  The agent never
\* removes a peer that has run on, unless as many of its rounds went unheard
\* as fit into the cleanup period.
LivePeersKept ==
    [][\A n \in running : AgentRound(n, FALSE) \/ AgentRound(n, TRUE) =>
          \A p \in (Known(n) \ Known(n)') \cap running :
              unheard[n][p] >= Tolerated]_vars

\* Two nodes that run on know each other again and again, whatever searches
\* and downloads give up on.
Rediscovered ==
    \A n \in Nodes : \A p \in Nodes \ {n} :
        <>[]({n, p} \subseteq running) => []<>(p \in Known(n))

=============================================================================
