------------------------------- MODULE MCRooms ------------------------------
(***************************************************************************)
(* Three instances of RoomControl over the same variables, and the data    *)
(* plane of a member's device (Engine); a behaviour is one of a single     *)
(* part, chosen at the start.  The instances are the accounts (the         *)
(* constants of the EXTENDS: one account with two devices whose grants     *)
(* end, and a guest), the waits (a longer time, for what must eventually   *)
(* happen), and two rooms of one seat with two owners, one of whom may be  *)
(* disabled.  The first two use the room r1 only: rooms differ by their    *)
(* names alone.                                                            *)
(***************************************************************************)
EXTENDS RoomControl, TLC

CONSTANTS
  alice, bob, a1, a2, b1, r1, r2,                            \* the rooms
  Peer, EngineRoom, Life, MaxIssued, MaxChanges, EngineClock \* the engine

ASSUME EngineAssumption == Life \in Nat /\ EngineClock \in Nat

MCUserOf == [d \in Device |-> IF d = b1 THEN bob ELSE alice]
MCFirstGrant == [d \in Device |-> CASE d = a1 -> 2 [] d = a2 -> 1 [] OTHER -> Never]

PairOfDevices == {a1, b1}
PairUsers == [d \in PairOfDevices |-> MCUserOf[d]]
PairGrants == [d \in PairOfDevices |-> MCFirstGrant[d]]
GuestDevices == {b1}
Nothing == {}
Guests == {bob}

ASSUME PairAssumption ==
  {alice, bob} \subseteq User /\ PairOfDevices \subseteq Device /\ Leasing \subseteq PairOfDevices

VARIABLES
  part,
  now, member, issued, cut, game, nodes, lease, snapshot, control, raw, applied, generation,
    lan, tunnels

engineVars == <<now, member, issued, cut, game, nodes, lease, snapshot, control, raw, applied,
                generation, lan, tunnels>>

Waits == INSTANCE RoomControl WITH
  Device <- PairOfDevices, UserOf <- PairUsers, FirstGrant <- PairGrants,
  Enforced <- GuestDevices, PoolSize <- 1, LeaseDuration <- 0, Quarantine <- 1, MaxWait <- 1, MaxClock <- 3

Two == INSTANCE RoomControl WITH
  Device <- PairOfDevices, UserOf <- PairUsers, FirstGrant <- PairGrants,
  Capacity <- 1, Enforced <- Nothing, Suspended <- Guests, MaxClock <- 0

Data == INSTANCE Engine WITH
  clock <- now, revoked <- cut, Room <- EngineRoom, MaxClock <- EngineClock

OneRoom(A) == A /\ rooms'[r2] = NoRoom

PartsInit ==
  /\ Data!Init
  /\ \/ part \in {"accounts", "engine"} /\ Init
     \/ part = "waits" /\ Waits!Init
     \/ part = "two" /\ Two!Init
PartsNext ==
  \/ part = "accounts" /\ OneRoom(Next) /\ UNCHANGED <<part, engineVars>>
  \/ part = "waits" /\ OneRoom(Waits!Next) /\ UNCHANGED <<part, engineVars>>
  \/ part = "two" /\ Two!Next /\ UNCHANGED <<part, engineVars>>
  \/ part = "engine" /\ Data!Next /\ UNCHANGED <<part, vars>>

\* The fairness that RoomControl states, for the part that waits.
waiting == IF part = "waits" THEN vars ELSE << >>
PartsSpec ==
  /\ PartsInit /\ [][PartsNext]_<<part, vars, engineVars>>
  /\ WF_waiting(part = "waits" /\ part' = part /\ \E t \in Waits!Pool!TxTime : Waits!Sweep(t))
  /\ WF_waiting(part = "waits" /\ part' = part /\ Waits!Tick)

\* Nebula, the LAN device and the snapshot last applied agree, and no tunnel to a peer
\* whose certificate it revokes survives its application: Engine.Apply.
EngineInv == Data!Inv
\* Packet readers never see the rules of the firewall or of the LAN section change under
\* them: another room or game restarts Nebula: Engine.Apply.
RulesByRestart == Data!RulesByRestart

\* No room holds more members than its capacity, with the seats of two rooms contended by
\* creation, invitation, transfer and the owner's own way in: addMember.
SeatsKept == part = "two" => Two!RoomWithinCapacity

\* An expired room closes though nobody asks for it: Store.Sweep.
RoomsClose == part = "waits" => Waits!ExpiredRoomsClose
\* A member whose version became insufficient leaves without a request of its own:
\* enforceUpdates.
MembersLeave == part = "waits" => Waits!OutdatedLeave
\* A quarantined address returns to the pool in the end: Store.Sweep.
AddressesFree == part = "waits" => Waits!AddressesReturn
=============================================================================
