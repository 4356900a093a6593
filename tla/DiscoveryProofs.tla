---------------------------- MODULE DiscoveryProofs ----------------------------
(***************************************************************************)
(* What Discovery promises for any nodes, periods and delays.              *)
(*                                                                         *)
(* An entry for a peer that runs cannot be older than the rounds of that   *)
(* peer which went unheard make it (Explained): this, with the type        *)
(* invariant and NoStalePeers, is inductive.                               *)
(***************************************************************************)
EXTENDS Discovery, TLAPS

-----------------------------------------------------------------------------

\* Ticks a running peer has been silent since its last round, if it had one.
Since(p) == IF elapsed[p] = NotYet THEN 0 ELSE elapsed[p]

Explained ==
    \A n \in Nodes, p \in running :
        p \in Known(n) /\ unheard[n][p] < Tolerated
            => age[n][p] <= Since(p) + unheard[n][p] * MaxElapsed

DInv == TypeOK /\ NoStalePeers /\ Explained

LEMMA Periods ==
  /\ MaxElapsed \in Nat /\ MaxElapsed > 0
  /\ NotYet = MaxElapsed + 1
  /\ MaxAge \in Nat /\ MaxAge = Cleanup + MaxElapsed + 1
  /\ Unknown = MaxAge + 1
  /\ Cleanup \in Nat /\ Period \in Nat /\ DropInRow \in Nat /\ DropInRow > 0
BY DiscoveryConstants DEF MaxElapsed, NotYet, MaxAge, Unknown

LEMMA ToleratedFits ==
  Tolerated \in Nat /\ Tolerated * MaxElapsed <= Cleanup
<1>1. /\ Cleanup = MaxElapsed * (Cleanup \div MaxElapsed) + (Cleanup % MaxElapsed)
      /\ Cleanup % MaxElapsed \in 0..(MaxElapsed - 1)
      /\ Cleanup \div MaxElapsed \in Nat
  BY Periods
<1> QED
  BY <1>1, Periods DEF Tolerated

LEMMA OneMore ==
  ASSUME NEW a \in Nat, NEW b \in Nat, NEW m \in Nat, a < b
  PROVE  a * m \in Nat /\ a * m + m = (a + 1) * m /\ (a + 1) * m <= b * m
<1>1. b - a - 1 \in Nat
  OBVIOUS
<1>2. (b - a - 1) * m >= 0
  BY <1>1
<1>3. b * m = (b - a - 1) * m + (a + 1) * m
  OBVIOUS
<1> QED
  BY <1>2, <1>3

\* An entry that its peer's silence explains is not old.
LEMMA ExplainedIsFresh ==
  ASSUME DInv, NEW n \in Nodes, NEW p \in running,
         p \in Known(n), unheard[n][p] < Tolerated
  PROVE  age[n][p] <= Cleanup
<1>1. /\ unheard[n][p] \in Nat /\ age[n][p] \in Nat
      /\ elapsed[p] \in 0..NotYet
  BY Periods, ToleratedFits DEF DInv, TypeOK
<1>2. Since(p) <= MaxElapsed /\ Since(p) \in Nat
  BY <1>1, Periods DEF Since
<1>3. age[n][p] <= Since(p) + unheard[n][p] * MaxElapsed
  BY DEF DInv, Explained
<1> QED
  BY <1>1, <1>2, <1>3, OneMore, ToleratedFits, Periods

-----------------------------------------------------------------------------
(* The pieces of the state *)

LEMMA WithoutTyped ==
  ASSUME DInv, NEW n \in Nodes, NEW removed
  PROVE  /\ Without(n, removed) \in [Nodes -> [Nodes -> 0..Unknown]]
         /\ \A q, p \in Nodes :
               Without(n, removed)[q][p] =
                   IF q = n /\ p \in removed THEN Unknown ELSE age[q][p]
BY Periods DEF DInv, TypeOK, Without

LEMMA UpdatedTyped ==
  ASSUME DInv, NEW n \in Nodes, NEW p \in Nodes
  PROVE  /\ Updated(n, p) \in [Nodes -> [Nodes -> 0..Unknown]]
         /\ \A q, r \in Nodes :
               Updated(n, p)[q][r] = IF q = n /\ r = p THEN 0 ELSE age[q][r]
BY Periods DEF DInv, TypeOK, Updated

\* Entries only disappear.
LEMMA Removal ==
  ASSUME DInv, NEW n \in Nodes, NEW removed, age' = Without(n, removed),
         UNCHANGED <<running, elapsed, unheard>>
  PROVE  NoStalePeers' /\ Explained'
<1>1. \A q, p \in Nodes : p \in Known(q)' => p \in Known(q) /\ age'[q][p] = age[q][p]
  BY WithoutTyped DEF Known
<1> QED
  BY <1>1 DEF DInv, TypeOK, NoStalePeers, Explained, Since, Known

\* Nothing but datagrams and counters changes.
LEMMA Untouched ==
  ASSUME DInv, UNCHANGED <<running, age, elapsed, unheard>>
  PROVE  NoStalePeers' /\ Explained'
BY DEF DInv, NoStalePeers, Explained, Known, Since

-----------------------------------------------------------------------------
(* The actions *)

LEMMA StartHolds ==
  ASSUME DInv, NEW n \in Nodes, NEW launched \in BOOLEAN, Start(n, launched)
  PROVE  DInv'
<1>1. TypeOK'
  <2>1. age' \in [Nodes -> [Nodes -> 0..Unknown]]
    BY WithoutTyped DEF Start, DInv, TypeOK
  <2>2. net' \subseteq Datagram
    BY DEF Start, DInv, TypeOK, Broadcast, Datagram
  <2> QED
    BY <2>1, <2>2, Periods, ToleratedFits DEF Start, DInv, TypeOK
<1>2. \A q, p \in Nodes : p \in Known(q)' => p \in Known(q) /\ age'[q][p] = age[q][p]
  BY WithoutTyped DEF Start, Known
<1>3. elapsed'[n] = NotYet /\ \A q \in Nodes \ {n} : elapsed'[q] = elapsed[q]
  BY DEF Start, DInv, TypeOK
<1>4. \A q, p \in Nodes :
         unheard'[q][p] = IF p = n THEN Tolerated ELSE unheard[q][p]
  BY DEF Start, DInv, TypeOK
<1>5. running' = running \cup {n} /\ running \subseteq Nodes
  BY DEF Start, DInv, TypeOK
<1>6. NoStalePeers'
  BY <1>2, <1>3, <1>5 DEF DInv, NoStalePeers, Known
<1>7. Explained'
  BY <1>2, <1>3, <1>4, <1>5, ToleratedFits DEF DInv, Explained, Since, Known
<1> QED
  BY <1>1, <1>6, <1>7 DEF DInv

LEMMA StopHolds ==
  ASSUME DInv, NEW n \in Nodes, Stop(n)
  PROVE  DInv'
<1>1. TypeOK'
  BY DiscoveryConstants DEF Stop, DInv, TypeOK
<1>2. NoStalePeers' /\ Explained'
  BY DEF Stop, DInv, NoStalePeers, Explained, Known, Since
<1> QED
  BY <1>1, <1>2 DEF DInv

LEMMA AgentRoundHolds ==
  ASSUME DInv, NEW n \in Nodes, NEW sent \in BOOLEAN, AgentRound(n, sent)
  PROVE  DInv'
<1>1. /\ n \in running /\ age' = Without(n, Old(n))
      /\ elapsed' = [elapsed EXCEPT ![n] = 0]
      /\ running' = running /\ running \subseteq Nodes
      /\ drop' = drop /\ stops' = stops
  BY DEF AgentRound, Announced, DInv, TypeOK
<1>2. net' \subseteq Datagram
  BY DEF AgentRound, Announced, DInv, TypeOK, Broadcast, Datagram
<1>3. \A q, p \in Nodes : unheard'[q][p] =
         IF p = n THEN AtMost(unheard[q][p] + 1, Tolerated) ELSE unheard[q][p]
  BY DEF AgentRound, Announced, DInv, TypeOK
<1>4. \A q, p \in Nodes : unheard[q][p] \in 0..Tolerated /\ elapsed[p] \in 0..NotYet
                          /\ age[q][p] \in 0..Unknown
  BY DEF DInv, TypeOK
<1>5. TypeOK'
  <2>1. age' \in [Nodes -> [Nodes -> 0..Unknown]]
    BY <1>1, WithoutTyped
  <2>2. \A q \in Nodes : unheard'[q] \in [Nodes -> 0..Tolerated]
    <3>1. \A q, p \in Nodes : AtMost(unheard[q][p] + 1, Tolerated) \in 0..Tolerated
      BY <1>4, ToleratedFits DEF AtMost
    <3> QED  BY <3>1 DEF AgentRound, Announced, DInv, TypeOK
  <2>3. unheard' \in [Nodes -> [Nodes -> 0..Tolerated]]
    BY <2>2 DEF AgentRound, Announced
  <2>4. elapsed' \in [Nodes -> 0..NotYet]
    BY <1>1, Periods DEF DInv, TypeOK
  <2> QED
    BY <1>1, <1>2, <2>1, <2>3, <2>4 DEF DInv, TypeOK
<1>6. \A q, p \in Nodes : p \in Known(q)' =>
         /\ p \in Known(q) /\ age'[q][p] = age[q][p]
         /\ q = n => age[q][p] <= Cleanup
  BY <1>1, <1>4, WithoutTyped, Periods DEF Known, Old
<1>7. elapsed'[n] = 0 /\ \A q \in Nodes \ {n} : elapsed'[q] = elapsed[q]
  BY <1>1 DEF DInv, TypeOK
<1>8. NoStalePeers'
  BY <1>1, <1>6, <1>7, Periods DEF DInv, NoStalePeers, Known
<1>9. Explained'
  <2> SUFFICES ASSUME NEW q \in Nodes, NEW p \in running, p \in Known(q)',
                      unheard'[q][p] < Tolerated
               PROVE  age'[q][p] <= Since(p)' + unheard'[q][p] * MaxElapsed
    BY <1>1 DEF Explained
  <2>1. p \in Nodes /\ p \in Known(q) /\ age'[q][p] = age[q][p]
    BY <1>1, <1>6
  <2>2. CASE p # n
    <3>1. unheard'[q][p] = unheard[q][p] /\ Since(p)' = Since(p)
      BY <1>3, <1>7, <2>1, <2>2 DEF Since
    <3> QED  BY <2>1, <3>1 DEF DInv, Explained
  <2>3. CASE p = n
    <3>1. unheard'[q][p] = unheard[q][p] + 1 /\ unheard[q][p] < Tolerated
      BY <1>3, <1>4, <2>1, <2>3, ToleratedFits DEF AtMost
    <3>2. Since(p)' = 0 /\ Since(p) \in 0..MaxElapsed
      BY <1>4, <1>7, <2>1, <2>3, Periods DEF Since
    <3>3. age[q][p] <= Since(p) + unheard[q][p] * MaxElapsed
      BY <2>1, <3>1 DEF DInv, Explained
    <3>4. unheard[q][p] \in Nat /\ age[q][p] \in Nat
      BY <1>4, <2>1, Periods, ToleratedFits
    <3>5. unheard[q][p] * MaxElapsed + MaxElapsed = (unheard[q][p] + 1) * MaxElapsed
      BY <3>1, <3>4, OneMore, ToleratedFits, Periods
    <3>6. unheard[q][p] * MaxElapsed \in Nat
      BY <3>1, <3>4, OneMore, ToleratedFits, Periods
    <3> DEFINE u == unheard[q][p] * MaxElapsed
    <3> HIDE DEF u
    <3>7. age[q][p] <= u + MaxElapsed
      BY <3>2, <3>3, <3>4, <3>6, Periods DEF u
    <3> QED  BY <2>1, <3>1, <3>2, <3>4, <3>5, <3>6, <3>7, Periods DEF u
  <2> QED  BY <2>2, <2>3
<1> QED
  BY <1>5, <1>8, <1>9 DEF DInv

LEMMA GiveUpHolds ==
  ASSUME DInv, NEW n \in Nodes, NEW p \in Nodes, GiveUp(n, p)
  PROVE  DInv'
<1>1. age' = Without(n, {p}) /\ UNCHANGED <<running, elapsed, drop, net, stops, unheard>>
  BY DEF GiveUp
<1>2. TypeOK'
  BY <1>1, WithoutTyped DEF DInv, TypeOK
<1> QED
  BY <1>1, <1>2, Removal DEF DInv

LEMMA HereHolds ==
  ASSUME DInv, NEW m \in net, HereReceived(m.to, m)
  PROVE  DInv'
<1>1. m.from \in Nodes /\ m.to \in Nodes
  BY DEF DInv, TypeOK, Datagram
<1>2. /\ age' = Updated(m.to, m.from)
      /\ unheard' = [unheard EXCEPT ![m.to][m.from] = 0]
      /\ net' = net \ {m} /\ UNCHANGED <<running, elapsed, drop, stops>>
  BY DEF HereReceived
<1>3. TypeOK'
  <2>1. age' \in [Nodes -> [Nodes -> 0..Unknown]]
    BY <1>1, <1>2, UpdatedTyped
  <2>2. unheard' \in [Nodes -> [Nodes -> 0..Tolerated]]
    BY <1>1, <1>2, ToleratedFits DEF DInv, TypeOK
  <2> QED  BY <1>2, <2>1, <2>2 DEF DInv, TypeOK
<1>4. \A q, p \in Nodes :
         \/ age'[q][p] = 0 /\ unheard'[q][p] = 0
         \/ age'[q][p] = age[q][p] /\ unheard'[q][p] = unheard[q][p]
  BY <1>1, <1>2, UpdatedTyped DEF DInv, TypeOK
<1>5. \A p \in Nodes : elapsed[p] \in 0..NotYet /\ Since(p) \in Nat /\ Since(p)' = Since(p)
  BY <1>2, Periods DEF DInv, TypeOK, Since
<1>6. NoStalePeers'
  BY <1>2, <1>4, <1>5, Periods DEF DInv, TypeOK, NoStalePeers, Known
<1>7. Explained'
  <2>1. 0 * MaxElapsed = 0
    BY Periods
  <2> QED
    BY <1>2, <1>4, <1>5, <2>1 DEF DInv, TypeOK, Explained, Known
<1> QED
  BY <1>3, <1>6, <1>7 DEF DInv

LEMMA ArriveHolds ==
  ASSUME DInv, NEW m \in net, Arrive(m)
  PROVE  DInv'
<1>1. m.from \in Nodes /\ m.to \in Nodes
  BY DEF DInv, TypeOK, Datagram
<1>2. CASE Drop(m.to, m)
  <2>1. Countdown(drop[m.to]) \in 0..(DropInRow - 1)
    <3>1. drop[m.to] \in 0..(DropInRow - 1)
      BY <1>1 DEF DInv, TypeOK
    <3> QED  BY <3>1, Periods DEF Countdown
  <2>2. TypeOK'
    BY <1>1, <1>2, <2>1 DEF Drop, DInv, TypeOK
  <2> QED  BY <1>2, <2>2, Untouched DEF Drop, DInv
<1>3. CASE HelloReceived(m.to, m)
  <2>1. net' \subseteq Datagram
    BY <1>1, <1>3 DEF HelloReceived, DInv, TypeOK, Broadcast, Datagram
  <2>2. TypeOK'
    BY <1>3, <2>1 DEF HelloReceived, DInv, TypeOK
  <2> QED  BY <1>3, <2>2, Untouched DEF HelloReceived, DInv
<1>4. CASE HereReceived(m.to, m)
  BY <1>4, HereHolds
<1>5. CASE Lose(m)
  <2>1. TypeOK'
    BY <1>5 DEF Lose, DInv, TypeOK
  <2> QED  BY <1>5, <2>1, Untouched DEF Lose, DInv
<1> QED
  BY <1>2, <1>3, <1>4, <1>5 DEF Arrive

LEMMA TickHolds ==
  ASSUME DInv, Tick
  PROVE  DInv'
<1>1. \A n \in Nodes : elapsed'[n] = IF n \in running THEN elapsed[n] + 1 ELSE elapsed[n]
  BY DEF Tick
<1>2. \A n \in running : elapsed[n] < MaxElapsed /\ elapsed[n] \in Nat /\ n \in Nodes
  BY Periods DEF Tick, DInv, TypeOK
<1>3. \A n, p \in Nodes :
         age'[n][p] = IF p \in Known(n) THEN AtMost(age[n][p] + 1, MaxAge) ELSE Unknown
  BY DEF Tick
<1>4. UNCHANGED <<running, drop, net, stops, unheard>>
  BY DEF Tick
<1>5. \A n, p \in Nodes : age[n][p] \in 0..Unknown /\ unheard[n][p] \in 0..Tolerated
  BY DEF DInv, TypeOK
<1>6. TypeOK'
  <2>1. \A n, p \in Nodes : age'[n][p] \in 0..Unknown
    BY <1>3, <1>5, Periods DEF AtMost
  <2>2. age' \in [Nodes -> [Nodes -> 0..Unknown]]
    BY <2>1 DEF Tick
  <2>3. \A n \in Nodes : elapsed'[n] \in 0..NotYet
    BY <1>1, <1>2, Periods DEF DInv, TypeOK
  <2>4. elapsed' \in [Nodes -> 0..NotYet]
    BY <2>3 DEF Tick
  <2> QED  BY <1>4, <2>2, <2>4 DEF DInv, TypeOK
<1>7. \A n, p \in Nodes : p \in Known(n)' =>
         p \in Known(n) /\ age'[n][p] <= age[n][p] + 1 /\ age'[n][p] \in Nat
  BY <1>3, <1>5, Periods DEF AtMost, Known
<1>8. NoStalePeers'
  <2> SUFFICES ASSUME NEW n \in running, NEW p \in Known(n)'
               PROVE  age'[n][p] <= Cleanup + elapsed'[n]
    BY <1>4 DEF NoStalePeers
  <2>1. p \in Nodes /\ p \in Known(n) /\ age'[n][p] <= age[n][p] + 1 /\ age'[n][p] \in Nat
    BY <1>2, <1>7 DEF Known
  <2>2. age[n][p] <= Cleanup + elapsed[n]
    BY <1>2, <2>1, Periods DEF DInv, NoStalePeers
  <2> QED  BY <1>1, <1>2, <1>5, <2>1, <2>2, Periods
<1>9. Explained'
  <2> SUFFICES ASSUME NEW n \in Nodes, NEW p \in running, p \in Known(n)',
                      unheard[n][p] < Tolerated
               PROVE  age'[n][p] <= Since(p)' + unheard[n][p] * MaxElapsed
    BY <1>4 DEF Explained
  <2>1. p \in Nodes /\ p \in Known(n) /\ age'[n][p] <= age[n][p] + 1 /\ age'[n][p] \in Nat
    BY <1>2, <1>7
  <2>2. Since(p) = elapsed[p] /\ Since(p)' = elapsed[p] + 1 /\ elapsed[p] \in Nat
    BY <1>1, <1>2, <2>1, Periods DEF Since
  <2>3. unheard[n][p] \in Nat /\ age[n][p] \in Nat
    BY <1>5, <2>1, Periods, ToleratedFits
  <2>4. unheard[n][p] * MaxElapsed \in Nat
    BY <2>3, OneMore, ToleratedFits, Periods
  <2>5. age[n][p] <= Since(p) + unheard[n][p] * MaxElapsed
    BY <2>1 DEF DInv, Explained
  <2> DEFINE u == unheard[n][p] * MaxElapsed
  <2> HIDE DEF u
  <2>6. u \in Nat /\ age[n][p] <= elapsed[p] + u
    BY <2>2, <2>4, <2>5 DEF u
  <2>7. age'[n][p] <= elapsed[p] + 1 + u
    BY <2>1, <2>2, <2>3, <2>6
  <2> QED  BY <2>2, <2>7 DEF u
<1> QED
  BY <1>6, <1>8, <1>9 DEF DInv

-----------------------------------------------------------------------------
(* The theorems *)

LEMMA InitHolds ==
  Init => DInv
<1> SUFFICES ASSUME Init PROVE DInv
  OBVIOUS
<1>1. TypeOK
  BY Periods, ToleratedFits, DiscoveryConstants DEF Init, TypeOK
<1>2. NoStalePeers /\ Explained
  BY DEF Init, NoStalePeers, Explained
<1> QED
  BY <1>1, <1>2 DEF DInv

LEMMA NextHolds ==
  ASSUME DInv, [Next]_vars
  PROVE  DInv'
<1>1. CASE UNCHANGED vars
  BY <1>1, Untouched DEF vars, DInv, TypeOK
<1>2. ASSUME NEW n \in Nodes, NEW launched \in BOOLEAN, Start(n, launched)
      PROVE  DInv'
  BY <1>2, StartHolds
<1>3. ASSUME NEW n \in Nodes, Stop(n)
      PROVE  DInv'
  BY <1>3, StopHolds
<1>4. ASSUME NEW n \in Nodes, NEW sent \in BOOLEAN, AgentRound(n, sent)
      PROVE  DInv'
  BY <1>4, AgentRoundHolds
<1>5. ASSUME NEW n \in Nodes, NEW p \in Nodes, GiveUp(n, p)
      PROVE  DInv'
  BY <1>5, GiveUpHolds
<1>6. ASSUME NEW m \in net, Arrive(m)
      PROVE  DInv'
  BY <1>6, ArriveHolds
<1>7. CASE Tick
  BY <1>7, TickHolds
<1> QED
  BY <1>1, <1>2, <1>3, <1>4, <1>5, <1>6, <1>7 DEF Next

LEMMA Invariance == Spec => []DInv
BY InitHolds, NextHolds, PTL DEF Spec

\* The variables of Discovery keep their shapes: in particular the drop
\* counter of datagram_received stays between 0 and broadcast_drop_in_row.
THEOREM DiscoveryTypeCorrect == Spec => []TypeOK
BY Invariance, PTL DEF DInv

\* The alive agent keeps its table free of peers not heard for the cleanup
\* period and one round, whatever fails.
THEOREM TablesAreFresh == Spec => []NoStalePeers
BY Invariance, PTL DEF DInv

\* The alive agent removes no peer that has run on, unless as many rounds of
\* it went unheard as fit into the cleanup period.
THEOREM LivePeersStay == Spec => LivePeersKept
<1>1. ASSUME DInv, NEW n \in running, NEW sent \in BOOLEAN, AgentRound(n, sent),
             NEW p \in (Known(n) \ Known(n)') \cap running
      PROVE  unheard[n][p] >= Tolerated
  <2>1. n \in Nodes /\ p \in Nodes /\ p \in Known(n)
    BY <1>1 DEF DInv, TypeOK
  <2>2. age'[n][p] = Unknown /\ age[n][p] # Unknown
    BY <1>1, <2>1 DEF Known
  <2>3. p \in Old(n)
    BY <1>1, <2>1, <2>2, WithoutTyped DEF AgentRound
  <2>4. age[n][p] > Cleanup /\ age[n][p] \in Nat /\ unheard[n][p] \in Nat
    BY <1>1, <2>1, <2>3, Periods, ToleratedFits DEF Old, DInv, TypeOK
  <2>5. ~(unheard[n][p] < Tolerated)
    BY <1>1, <2>1, <2>4, ExplainedIsFresh, Periods
  <2> QED
    BY <2>4, <2>5, ToleratedFits
<1>2. DInv /\ [Next]_vars =>
         [\A n \in running : AgentRound(n, FALSE) \/ AgentRound(n, TRUE) =>
             \A p \in (Known(n) \ Known(n)') \cap running :
                 unheard[n][p] >= Tolerated]_vars
  BY <1>1
<1> QED
  BY <1>2, Invariance, PTL DEF Spec, LivePeersKept

=============================================================================
