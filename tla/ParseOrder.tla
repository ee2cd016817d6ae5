----------------------------- MODULE ParseOrder -----------------------------
(***************************************************************************)
(* The state of a ParserList of version 1.0 with its connections, their    *)
(* threads and the server (epParserList.h, epBaseServerWorker.h), and what *)
(* it promises in terms of that state alone: the packets of a connection   *)
(* are parsed in their order, and the list outlives its users.  ParserList *)
(* has the steps.                                                          *)
(***************************************************************************)
EXTENDS Naturals, SequencesExt, FiniteSetsExt

CONSTANTS
  Workers,      (* connections: BaseServerWorker objects                   *)
  App, Server,  (* an application thread, and the thread of the server     *)
  Nobody,
  MaxPackets,   (* bound: packets of one connection                        *)
  Options       (* settings that are checked: [shared, limit]              *)

ASSUME ParserListAssumption ==
  /\ IsFiniteSet(Workers)
  /\ {App, Server, Nobody} \cap Workers = {} /\ App # Server
  /\ MaxPackets \in Nat
  /\ Options \subseteq [shared : BOOLEAN, limit : Nat]

VARIABLES
  options,    (* SYNC_POLICY_SYNCHRONOUS shares one list, BY_CLIENT has    *)
              (* one for each connection: here for the one that is used    *)
  workers,    (* the connections of this list                              *)
  list,       (* the list: none, alive or freed                            *)
  refs,       (* its reference count                                       *)
  queue,      (* m_objectList: packets of connections                      *)
  room,       (* m_sizeEvent                                               *)
  stop,       (* m_threadStopEvent                                         *)
  ppc,        (* the parsing thread, "none" when it does not exist         *)
  current,    (* the packet it parses                                      *)
  pc,         (* receiving threads; App and Server in their calls          *)
  target,     (* whom App and Server kill                                  *)
  sock,       (* the descriptor of a connection is open                    *)
  listed,     (* the server's list refers to a connection                  *)
  received,   (* packets received from each connection                     *)
  parsed,     (* history: the packets of each connection in ParsePacket    *)
  dropped,    (* history: the packets that Clear let go                    *)
  missed      (* history: somebody saw the status of the thread between    *)
              (* its Unlock and its Suspend                                *)

ParserPackets == Workers \X (1..MaxPackets)

ListTypeOK ==
  /\ options \in Options /\ workers \subseteq Workers
  /\ list \in {"none", "alive", "freed"}
  /\ refs \in 0..(Cardinality(Workers) + 1)
  /\ queue \in Seq(ParserPackets)
  /\ {room, stop, missed} \subseteq BOOLEAN
  /\ ppc \in {"none", "loop", "suspend", "suspended", "parse"}
  /\ current \in ParserPackets \cup {Nobody}
  /\ pc \in [Workers \cup {App, Server} ->
               {"begin", "receive", "look", "limit", "count", "wait", "stop", "wake", "join",
                "clear", "release", "leave", "none", "idle", "kill", "killing", "done"}]
  /\ target \in [{App, Server} -> Workers \cup {Nobody}]
  /\ sock \in [Workers -> BOOLEAN] /\ listed \in [Workers -> BOOLEAN]
  /\ received \in [Workers -> 0..MaxPackets]
  /\ parsed \in [Workers -> Seq(1..MaxPackets)]
  /\ dropped \subseteq ParserPackets

-----------------------------------------------------------------------------
(* The packet in the hands of the parsing thread, and those in the list. *)
OnTheWay == (IF ppc = "parse" THEN <<current>> ELSE <<>>) \o queue

(* What was parsed, p, and after it what is on its way: of each connection *)
(* in the order of its numbers.                                            *)
InOrder(p, way) ==
  \A w \in Workers :
    /\ \A i, j \in DOMAIN p[w] : i < j => p[w][i] < p[w][j]
    /\ \A i, j \in DOMAIN way :
         i < j /\ way[i][1] = w /\ way[j][1] = w => way[i][2] < way[j][2]
    /\ \A i \in DOMAIN p[w], j \in DOMAIN way : way[j][1] = w => p[w][i] < way[j][2]

(* Every packet is parsed, or is on its way, once and in the order of its  *)
(* connection; and nothing is dropped before the thread has ended          *)
(* (ParserList::execute 124-144, Push 179-184, Clear).                     *)
ParsedInOrder ==
  /\ ListTypeOK
  /\ InOrder(parsed, OnTheWay)
  /\ \A w \in Workers :
       ToSet(parsed[w]) \cup {p[2] : p \in {q \in ToSet(OnTheWay) : q[1] = w}}
         = {i \in 1..received[w] : <<w, i>> \notin dropped}
  /\ dropped # {} => ppc = "none"

Using == {"begin", "receive", "look", "limit", "count", "wait"}
Releasing == {"stop", "wake", "join", "clear", "release"}

(* Those who have a reference to the list, or destroy it.                  *)
Holders ==
  {w \in workers : list # "none" /\ pc[w] \in Using}
    \cup {a \in workers \cup {Server} : pc[a] \in Releasing}
    \cup {a \in {Server} : options.shared /\ pc[a] = "idle"}

(* The list is counted right and freed by the last that uses it, after the *)
(* thread that works on it; and what is no longer a connection of the      *)
(* server is not parsed any more if it had a list of its own               *)
(* (killConnection 329-361).                                               *)
ListOutlivesUsers ==
  /\ refs = Cardinality(Holders) \/ (refs = 0 /\ Cardinality(Holders) = 1)
  /\ list = "freed" => ppc = "none" /\ queue = <<>> /\ Holders = {}
  /\ \A w \in workers : ~listed[w] /\ ~options.shared => list = "freed"
=============================================================================
