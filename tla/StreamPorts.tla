---------------------------- MODULE StreamPorts ----------------------------
(***************************************************************************)
(* How build_and_start_all_hubs_from_cfg gives every stream the loopback   *)
(* UDP port its hub sends to and its RTSP media reads from. A port is tried*)
(* by binding a socket and closing it at once, so nothing keeps it; all    *)
(* ports are chosen before the first hub is built. The searches of two     *)
(* neighbours overlap: they start UDP_STEP apart and try UDP_MAX_TRIES     *)
(* ports, which is more. socket() is taken to succeed.                     *)
(***************************************************************************)
EXTENDS Integers, Sequences, FiniteSets

CONSTANTS
  Bases,         \* UDP_BASE and UDP_BASE_H264, where the ports of a family start
  Sizes,         \* how many streams each family has: 10 and 8 in the code
  UDP_STEP,      \* 10 in the code
  UDP_MAX_TRIES, \* 32 in the code
  MaxTaken       \* bound on the ports other programs use at one time

ASSUME PortsAssumption ==
  /\ Bases \in Seq(Nat \ {0}) /\ Bases # <<>> /\ Sizes \in [DOMAIN Bases -> Nat \ {0}]
  /\ UDP_STEP \in Nat \ {0} /\ UDP_MAX_TRIES \in Nat \ {0} /\ MaxTaken \in Nat
  /\ \A f \in 1 .. Len(Bases) - 1 :
       Bases[f] + (Sizes[f] - 1) * UDP_STEP + UDP_MAX_TRIES <= Bases[f + 1]

VARIABLES
  taken,     \* ports that other programs have bound
  turn,      \* the stream the loop is at
  k,         \* the tries of its search so far
  udp_ports, \* HubManager::udp_ports and udp_ports_h264, 0: none
  started,   \* the hubs that were created and started
  ok_all,    \* what the function returns
  passed     \* history: the ports each search found in use

portVars == <<taken, turn, k, udp_ports, started, ok_all, passed>>

\* The streams in the order of the loops, H.265 before H.264.
AllPaths == UNION {{<<f, sid>> : sid \in 0 .. Sizes[f] - 1} : f \in DOMAIN Bases}
Before(s, t) == s[1] < t[1] \/ (s[1] = t[1] /\ s[2] < t[2])
FirstOf(S) == CHOOSE s \in S : \A t \in S \ {s} : Before(s, t)
After(s) == {t \in AllPaths : Before(s, t)}

\* Mutant: the searches start one port apart.
StartPort_Crowded(s) == Bases[s[1]] + s[2]

\* Where the search of stream s starts.
StartPort(s) == Bases[s[1]] + s[2] * UDP_STEP

UdpPorts == UNION {StartPort(s) .. StartPort(s) + UDP_MAX_TRIES - 1 : s \in AllPaths}

\* The loops: pick, for all streams; then build, for all streams; then done.
PortsInit ==
  /\ taken = {}
  /\ turn = [loop |-> "pick", path |-> FirstOf(AllPaths)] /\ k = 0
  /\ udp_ports = [s \in AllPaths |-> 0]
  /\ started = {} /\ ok_all = TRUE
  /\ passed = [s \in AllPaths |-> {}]

NextTurn ==
  LET rest == After(turn.path)
      next == IF turn.loop = "pick" THEN "build" ELSE "done"
  IN  turn' = IF rest # {} THEN [turn EXCEPT !.path = FirstOf(rest)]
              ELSE [loop |-> next, path |-> FirstOf(AllPaths)]

----------------------------------------------------------------------------
\* Other programs come and go at any time.
OthersBind ==
  /\ \/ \E p \in UdpPorts \ taken : taken' = taken \cup {p} /\ Cardinality(taken) < MaxTaken
     \/ \E p \in taken : taken' = taken \ {p}
  /\ turn.loop # "done"
  /\ UNCHANGED <<turn, k, udp_ports, started, ok_all, passed>>

\* One try of pick_udp_port_for_sid; after the last the stream goes without.
Pick ==
  LET s == turn.path
      p == StartPort(s) + k IN
  /\ turn.loop = "pick"
  /\ \/ /\ p \notin taken
        /\ udp_ports' = [udp_ports EXCEPT ![s] = p]
        /\ k' = 0 /\ NextTurn
        /\ UNCHANGED <<ok_all, passed>>
     \/ /\ p \in taken
        /\ passed' = [passed EXCEPT ![s] = @ \cup {p}]
        /\ IF k + 1 < UDP_MAX_TRIES THEN k' = k + 1 /\ UNCHANGED <<turn, ok_all>>
           ELSE k' = 0 /\ ok_all' = FALSE /\ NextTurn
        /\ UNCHANGED udp_ports
  /\ UNCHANGED <<taken, started>>

\* Mutant: a hub that does not start is not reported.
Build_Unreported ==
  LET s == turn.path IN
  /\ turn.loop = "build"
  /\ \/ udp_ports[s] # 0 /\ started' = started \cup {s} /\ UNCHANGED ok_all
     \/ udp_ports[s] # 0 /\ UNCHANGED <<started, ok_all>>
     \/ udp_ports[s] = 0 /\ ok_all' = FALSE /\ UNCHANGED started
  /\ NextTurn
  /\ UNCHANGED <<taken, k, udp_ports, passed>>

\* create and start may fail; a stream without a port is skipped.
Build ==
  LET s == turn.path IN
  /\ turn.loop = "build"
  /\ \/ udp_ports[s] # 0 /\ started' = started \cup {s} /\ UNCHANGED ok_all
     \/ ok_all' = FALSE /\ UNCHANGED started
  /\ NextTurn
  /\ UNCHANGED <<taken, k, udp_ports, passed>>

PortsNext == OthersBind \/ Pick \/ Build

----------------------------------------------------------------------------
PortsTypeOK ==
  /\ taken \subseteq UdpPorts
  /\ turn \in [loop : {"pick", "build", "done"}, path : AllPaths]
  /\ k \in 0 .. UDP_MAX_TRIES - 1
  /\ udp_ports \in [AllPaths -> UdpPorts \cup {0}]
  /\ started \subseteq AllPaths

\* Two streams send to one port, and their viewers see each other's pictures,
\* only when a search went past UDP_STEP ports in use, and then only streams
\* of one family.
SharedOnlyInACrowd ==
  \A s, t \in AllPaths :
    Before(s, t) /\ udp_ports[s] = udp_ports[t] /\ udp_ports[s] # 0 =>
      s[1] = t[1] /\ Cardinality(passed[s]) >= UDP_STEP

\* The function returns true only if every stream has a hub that was started,
\* and a hub that was started has a port.
TrueMeansAll ==
  /\ turn.loop = "done" /\ ok_all => started = AllPaths
  /\ \A s \in started : udp_ports[s] # 0

\* The types, who may share a port, and what the result says.
PortsInv == PortsTypeOK /\ SharedOnlyInACrowd /\ TrueMeansAll
=============================================================================
