------------------------------ MODULE IocpPool ------------------------------
(***************************************************************************)
(* The workers of an IocpTcpServer (IocpUdpServer has the same code) and   *)
(* the jobs of its connections.  A Send, Receive or KillConnection makes a *)
(* job, which pushJob hands to a worker of the idle list, or to the worker *)
(* with the fewest jobs; the worker tries it with a select that does not   *)
(* wait and queues it again if it timed out.  If the select found the      *)
(* descriptor ready, the recv or send that follows waits for the peer, as  *)
(* long as the rest of the packet takes, under m_baseSocketLock.           *)
(*                                                                         *)
(* The accept loop and the lock of StartServer and StopServer are in       *)
(* TcpServer, the bytes of a Send in TcpFraming.  The worker thread is     *)
(* EpLibrary's: it takes jobs off its queue in an order that is not known  *)
(* here, calls CallBackFunc when it finds none, and then sleeps until one  *)
(* comes; its queue retains a job and releases it when it is deleted.      *)
(***************************************************************************)
EXTENDS Naturals, SequencesExt, FiniteSetsExt

CONSTANTS
  WorkerCount,    (* m_workerList holds 1..WorkerCount                     *)
  Conns,          (* the connections that are accepted                     *)
  NoConn,
  MaxJobs,        (* bound: jobs that are made, in all                     *)
  MaxStarts,      (* bound: calls of StartServer                           *)
  Options         (* the ways to use the server that are checked           *)

ASSUME IocpPoolAssumption ==
  /\ WorkerCount \in Nat \ {0} /\ MaxJobs \in Nat /\ MaxStarts \in Nat
  /\ NoConn \notin Conns
  /\ Options \subseteq [forever : BOOLEAN, stops : BOOLEAN, chains : BOOLEAN,
                        eager : BOOLEAN, conns : SUBSET Conns,
                        kinds : SUBSET {"send", "receive", "disconnect"}]

Workers == 1..WorkerCount
Jobs == 1..MaxJobs
NoJob == 0
NoWorker == 0
Free == 0
Server == WorkerCount + 1     (* the thread in StartServer or StopServer   *)

VARIABLES
  options,     (* forever: m_waitTime is infinite; stops: StopServer is    *)
               (* called; chains: callbacks make jobs; eager: a new worker *)
               (* calls CallBackFunc before its first job; the connections *)
               (* that are made and the kinds of jobs                      *)
  workers,     (* m_workerList                                             *)
  idle,        (* m_emptyWorkerList                                        *)
  workerLock,
  pool,        (* the queue of each worker                                 *)
  wpc, wjob,   (* where each worker is, with which job                     *)
  told,        (* workers that TerminateWorker has told to end             *)
  spc,         (* the thread in StartServer or StopServer                  *)
  toKill, joining,  (* connections it has to kill, the worker it waits for *)
  starts,
  job, pushed, (* the jobs made so far                                     *)
  sockLock,    (* m_baseSocketLock                                         *)
  alive,       (* m_isConnected                                            *)
  listed, retired,  (* m_socketList and the queue of its remover           *)
  refCount, life,
  answered,    (* history: how often a job's event was set                 *)
  dropped,     (* history: jobs that were released without an answer       *)
  ended        (* history: how often OnDisconnect was called               *)

poolVars == <<workers, idle, pool>>
workVars == <<wpc, wjob>>
serverVars == <<spc, toKill, joining, starts, told>>
jobVars == <<job, pushed>>
connVars == <<alive, listed, retired>>
objectVars == <<refCount, life>>
vars == <<options, poolVars, workerLock, workVars, serverVars, jobVars, sockLock,
          connVars, objectVars, answered, dropped, ended>>

TypeOK ==
  /\ options \in Options
  /\ workers \subseteq Workers
  /\ idle \in Seq(Workers)
  /\ workerLock \in {Free, Server}
  /\ pool \in [Workers -> SUBSET Jobs]
  /\ wpc \in [Workers -> {"none", "look", "report", "asleep", "try", "transfer",
                          "check", "mark", "remove", "notify", "callback", "end"}]
  /\ wjob \in [Workers -> Jobs \cup {NoJob}]
  /\ told \subseteq Workers
  /\ spc \in {"idle", "kill", "clear", "stop", "start", "tell", "crashed"}
  /\ toKill \subseteq Conns
  /\ joining \in 0..WorkerCount
  /\ starts \in 0..MaxStarts
  /\ job \in [Jobs -> [conn : Conns \cup {NoConn},
                       kind : {"none", "send", "receive", "disconnect"}]]
  /\ pushed \in 0..MaxJobs
  /\ sockLock \in [Conns -> Workers \cup {Free}]
  /\ alive \in [Conns -> BOOLEAN]
  /\ listed \subseteq Conns /\ retired \subseteq Conns \ listed
  /\ refCount \in [Conns -> 0..(MaxJobs + 1)]
  /\ life \in [Conns -> {"unborn", "live", "dead"}]
  /\ answered \in [Jobs -> Nat] /\ dropped \subseteq Jobs
  /\ ended \in [Conns -> Nat]

Init ==
  /\ options \in Options
  /\ workers = {} /\ idle = <<>> /\ workerLock = Free
  /\ pool = [w \in Workers |-> {}]
  /\ wpc = [w \in Workers |-> "none"] /\ wjob = [w \in Workers |-> NoJob]
  /\ told = {}
  /\ spc = "idle" /\ toKill = {} /\ joining = NoWorker /\ starts = 0
  /\ job = [j \in Jobs |-> [conn |-> NoConn, kind |-> "none"]] /\ pushed = 0
  /\ sockLock = [c \in Conns |-> Free]
  /\ alive = [c \in Conns |-> FALSE]
  /\ listed = {} /\ retired = {}
  /\ refCount = [c \in Conns |-> 0] /\ life = [c \in Conns |-> "unborn"]
  /\ answered = [j \in Jobs |-> 0] /\ dropped = {}
  /\ ended = [c \in Conns |-> 0]

JobConn(w) == job[wjob[w]].conn
JobKind(w) == job[wjob[w]].kind
Go(w, where) == wpc' = [wpc EXCEPT ![w] = where]

-----------------------------------------------------------------------------
(* Connections.                                                            *)

(* The accept loop pushed and started a socket and released it. *)
Accept(c) ==
  /\ c \in options.conns
  /\ workers # {} /\ spc = "idle"
  /\ life[c] = "unborn"
  /\ life' = [life EXCEPT ![c] = "live"]
  /\ refCount' = [refCount EXCEPT ![c] = 1]
  /\ alive' = [alive EXCEPT ![c] = TRUE]
  /\ listed' = listed \cup {c}
  /\ UNCHANGED <<options, poolVars, workerLock, workVars, serverVars, jobVars, sockLock,
                 retired, answered, dropped, ended>>

(* Mutant: the destructor does not look whether the connection is alive. *)
ReleaseQuiet(cs) ==
  /\ refCount' = [c \in Conns |-> refCount[c] - cs[c]]
  /\ life' = [c \in Conns |->
                IF cs[c] > 0 /\ refCount'[c] = 0 THEN "dead" ELSE life[c]]
  /\ UNCHANGED <<alive, ended>>

(* ReleaseObj, cs[c] times.  The last reference runs the destructor, and   *)
(* that killConnection.                                                    *)
Release(cs) ==
  LET dying == {c \in Conns : cs[c] > 0 /\ refCount[c] = cs[c]}
  IN  /\ refCount' = [c \in Conns |-> refCount[c] - cs[c]]
      /\ life' = [c \in Conns |-> IF c \in dying THEN "dead" ELSE life[c]]
      /\ alive' = [c \in Conns |-> alive[c] /\ c \notin dying]
      /\ ended' = [c \in Conns |->
                     IF c \in dying /\ alive[c] THEN ended[c] + 1 ELSE ended[c]]

ReleaseOne(c) == Release([d \in Conns |-> IF d = c THEN 1 ELSE 0])

RemoverRelease(c) ==
  /\ c \in retired
  /\ retired' = retired \ {c}
  /\ ReleaseOne(c)
  /\ UNCHANGED <<options, poolVars, workerLock, workVars, serverVars, jobVars, sockLock,
                 listed, answered, dropped>>

-----------------------------------------------------------------------------
(* Jobs.                                                                   *)

(* The first of the workers with the fewest jobs. *)
LeastLoaded ==
  CHOOSE w \in workers :
    \A v \in workers : \/ Cardinality(pool[w]) < Cardinality(pool[v])
                       \/ Cardinality(pool[w]) = Cardinality(pool[v]) /\ w <= v

(* Mutant: the idle worker is taken off the list and the job goes to the   *)
(* one with the fewest jobs.                                               *)
PlaceBeside(j) ==
  /\ idle' = IF idle = <<>> THEN idle ELSE Tail(idle)
  /\ pool' = [pool EXCEPT ![LeastLoaded] = @ \cup {j}]

(* pushJob with workers. *)
Place(j) ==
  /\ idle' = IF idle = <<>> THEN idle ELSE Tail(idle)
  /\ pool' = [pool EXCEPT ![IF idle = <<>> THEN LeastLoaded ELSE Head(idle)] = @ \cup {j}]

(* Mutant: the job does not retain its socket. *)
MakeNoRetain(c, kind) ==
  /\ workerLock = Free
  /\ pushed < MaxJobs
  /\ pushed' = pushed + 1
  /\ job' = [job EXCEPT ![pushed'] = [conn |-> c, kind |-> kind]]
  /\ \/ /\ workers # {}
        /\ Place(pushed')
        /\ UNCHANGED <<refCount, dropped>>
     \/ /\ workers = {}
        /\ dropped' = dropped \cup {pushed'}
        /\ UNCHANGED <<idle, pool, refCount>>

(* Send, Receive or KillConnection: a new job, which retains its socket    *)
(* until it is released, and pushJob.  Without workers the job is dropped. *)
Make(c, kind) ==
  /\ workerLock = Free
  /\ pushed < MaxJobs
  /\ pushed' = pushed + 1
  /\ job' = [job EXCEPT ![pushed'] = [conn |-> c, kind |-> kind]]
  /\ \/ /\ workers # {}
        /\ Place(pushed')
        /\ refCount' = [refCount EXCEPT ![c] = @ + 1]
        /\ UNCHANGED dropped
     \/ /\ workers = {}
        /\ dropped' = dropped \cup {pushed'}
        /\ UNCHANGED <<idle, pool, refCount>>

(* The application uses a connection until it is told its end. *)
Usable(c) == life[c] = "live" /\ ended[c] = 0

Submit(c, kind) ==
  /\ kind \in options.kinds
  /\ Usable(c)
  /\ Make(c, kind)
  /\ UNCHANGED <<options, workers, workerLock, workVars, serverVars, sockLock, connVars,
                 life, answered, ended>>

-----------------------------------------------------------------------------
(* A worker.                                                               *)

(* Its queue is looked at. *)
TakeJob(w) ==
  /\ wpc[w] = "look"
  /\ w \notin told
  /\ \E j \in pool[w] :
       /\ pool' = [pool EXCEPT ![w] = @ \ {j}]
       /\ wjob' = [wjob EXCEPT ![w] = j]
  /\ Go(w, IF job[wjob'[w]].kind = "disconnect" THEN "check" ELSE "try")
  /\ UNCHANGED <<workers, idle, sockLock, connVars, objectVars, answered, ended>>

NothingToDo(w) ==
  /\ wpc[w] = "look"
  /\ \/ w \in told /\ Go(w, "end")
     \/ w \notin told /\ pool[w] = {} /\ Go(w, "report")
  /\ UNCHANGED <<poolVars, wjob, sockLock, connVars, objectVars, answered, ended>>

(* Mutant: the worker is listed only if nobody is. *)
CallBackFuncOnce(w) ==
  /\ wpc[w] = "report"
  /\ workerLock = Free
  /\ idle' = IF idle = <<>> THEN <<w>> ELSE idle
  /\ Go(w, "asleep")
  /\ UNCHANGED <<workers, pool, wjob, sockLock, connVars, objectVars, answered, ended>>

CallBackFunc(w) ==
  /\ wpc[w] = "report"
  /\ workerLock = Free
  /\ idle' = Append(idle, w)
  /\ Go(w, "asleep")
  /\ UNCHANGED <<workers, pool, wjob, sockLock, connVars, objectVars, answered, ended>>

Wake(w) ==
  /\ wpc[w] = "asleep"
  /\ pool[w] # {} \/ w \in told
  /\ Go(w, "look")
  /\ UNCHANGED <<poolVars, wjob, sockLock, connVars, objectVars, answered, ended>>

(* Mutant: a job that timed out is not queued again. *)
TryAgainLost(w) ==
  /\ wpc[w] = "try"
  /\ sockLock[JobConn(w)] = Free
  /\ alive[JobConn(w)]
  /\ wjob' = [wjob EXCEPT ![w] = NoJob]
  /\ Go(w, "look")
  /\ UNCHANGED <<poolVars, sockLock, connVars, objectVars, answered, ended>>

(* Send and Receive take m_baseSocketLock and look at the descriptor with  *)
(* a select that does not wait.  It times out and the job is queued again, *)
TryAgain(w) ==
  /\ wpc[w] = "try"
  /\ sockLock[JobConn(w)] = Free
  /\ alive[JobConn(w)]
  /\ pool' = [pool EXCEPT ![w] = @ \cup {wjob[w]}]
  /\ wjob' = [wjob EXCEPT ![w] = NoJob]
  /\ Go(w, "look")
  /\ UNCHANGED <<workers, idle, sockLock, connVars, objectVars, answered, ended>>

Answer(w) ==
  /\ answered' = [answered EXCEPT ![wjob[w]] = @ + 1]
  /\ Go(w, "callback")

(* ... or the call fails at once: nothing is connected any more, or the    *)
(* select of a Send fails; ...                                             *)
TryDone(w) ==
  /\ wpc[w] = "try"
  /\ sockLock[JobConn(w)] = Free
  /\ alive[JobConn(w)] => JobKind(w) = "send"
  /\ Answer(w)
  /\ UNCHANGED <<poolVars, wjob, sockLock, connVars, objectVars, ended>>

(* ... or the descriptor is ready, and the worker is in recv or send until *)
(* the peer has sent or read the rest, or the connection is closed.        *)
TryReady(w) ==
  /\ wpc[w] = "try"
  /\ sockLock[JobConn(w)] = Free
  /\ alive[JobConn(w)]
  /\ sockLock' = [sockLock EXCEPT ![JobConn(w)] = w]
  /\ Go(w, "transfer")
  /\ UNCHANGED <<poolVars, wjob, connVars, objectVars, answered, ended>>

(* It has the packet, has sent it, or the send failed. *)
TransferDone(w) ==
  /\ wpc[w] = "transfer"
  /\ Answer(w)
  /\ sockLock' = [sockLock EXCEPT ![JobConn(w)] = Free]
  /\ UNCHANGED <<poolVars, wjob, connVars, objectVars, ended>>

(* The select or the recv of a Receive fails, or the peer has closed:      *)
(* killConnection, under the lock.                                         *)
TryFails(w) ==
  /\ \/ wpc[w] = "transfer"
     \/ wpc[w] = "try" /\ sockLock[JobConn(w)] = Free /\ alive[JobConn(w)]
  /\ JobKind(w) = "receive"
  /\ sockLock' = [sockLock EXCEPT ![JobConn(w)] = w]
  /\ Go(w, "check")
  /\ UNCHANGED <<poolVars, wjob, connVars, objectVars, answered, ended>>

(* killConnection, and killConnectionNoCallBack without the lock.          *)
KillCheck(w) ==
  /\ wpc[w] = "check"
  /\ \/ alive[JobConn(w)] /\ Go(w, "mark")
     \/ ~alive[JobConn(w)] /\ JobKind(w) = "disconnect" /\ Go(w, "notify")
  /\ UNCHANGED <<poolVars, wjob, sockLock, connVars, objectVars, answered, ended>>

(* killConnection has nothing to do if a DISCONNECT job was faster. *)
KillOver(w) ==
  /\ wpc[w] = "check"
  /\ ~alive[JobConn(w)] /\ JobKind(w) = "receive"
  /\ Answer(w)
  /\ sockLock' = [sockLock EXCEPT ![JobConn(w)] = Free]
  /\ UNCHANGED <<poolVars, wjob, connVars, objectVars, ended>>

KillMark(w) ==
  /\ wpc[w] = "mark"
  /\ alive' = [alive EXCEPT ![JobConn(w)] = FALSE]
  /\ Go(w, "remove")
  /\ UNCHANGED <<poolVars, wjob, sockLock, listed, retired, objectVars, answered, ended>>

KillRemove(w) ==
  /\ wpc[w] = "remove"
  /\ listed' = listed \ {JobConn(w)}
  /\ retired' = retired \cup (listed \cap {JobConn(w)})
  /\ Go(w, "notify")
  /\ UNCHANGED <<poolVars, wjob, sockLock, alive, objectVars, answered, ended>>

(* The callback of a DISCONNECT job is OnDisconnect, whoever ended the     *)
(* connection; that of a RECEIVE job comes after the one of killConnection. *)
KillNotify(w) ==
  /\ wpc[w] = "notify"
  /\ Answer(w)
  /\ ended' = [ended EXCEPT ![JobConn(w)] = @ + 1]
  /\ sockLock' = [sockLock EXCEPT ![JobConn(w)] =
                    IF JobKind(w) = "receive" THEN Free ELSE @]
  /\ UNCHANGED <<poolVars, wjob, connVars, objectVars>>

(* Inside of the callback the application may make the next job. *)
Chain(w, kind) ==
  /\ options.chains
  /\ wpc[w] = "callback"
  /\ kind \in options.kinds
  /\ Usable(JobConn(w))
  /\ Make(JobConn(w), kind)
  /\ UNCHANGED <<options, workers, workerLock, workVars, serverVars, sockLock, connVars,
                 life, answered, ended>>

(* The callback returns and the worker releases the job. *)
JobEnd(w) ==
  /\ wpc[w] = "callback"
  /\ ReleaseOne(JobConn(w))
  /\ wjob' = [wjob EXCEPT ![w] = NoJob]
  /\ Go(w, "look")
  /\ UNCHANGED <<poolVars, sockLock, listed, retired, answered>>

WorkerStep(w) ==
  /\ \/ TakeJob(w) \/ NothingToDo(w) \/ CallBackFunc(w) \/ Wake(w) \/ TryAgain(w)
     \/ TryDone(w) \/ TryReady(w) \/ TransferDone(w) \/ TryFails(w) \/ KillCheck(w)
     \/ KillOver(w) \/ KillMark(w) \/ KillRemove(w) \/ KillNotify(w) \/ JobEnd(w)
  /\ UNCHANGED <<options, workerLock, serverVars, jobVars, dropped>>

-----------------------------------------------------------------------------
(* StartServer and StopServer.                                             *)

StartServer ==
  /\ spc = "idle"
  /\ starts < MaxStarts
  /\ starts' = starts + 1
  /\ workerLock' = Server
  /\ spc' = "start"
  /\ idle' = <<>>
  /\ UNCHANGED <<workers, pool, wpc, wjob, told, toKill, joining, jobVars, connVars,
                 objectVars, dropped, ended>>

(* StopServer: the snapshot of shutdownAllClient, *)
StopServer ==
  /\ options.stops
  /\ spc = "idle"
  /\ workers # {}
  /\ toKill' = listed
  /\ spc' = "kill"
  /\ UNCHANGED <<poolVars, workerLock, workVars, told, joining, starts, jobVars, connVars,
                 objectVars, dropped, ended>>

(* KillConnection for each; the snapshot holds no references, and one that *)
(* was destroyed since is called all the same,                             *)
StopKill ==
  /\ spc = "kill"
  /\ \/ /\ toKill = {}
        /\ spc' = "clear"
        /\ UNCHANGED <<toKill, idle, pool, refCount, jobVars, dropped>>
     \/ \E c \in toKill :
          /\ toKill' = toKill \ {c}
          /\ life[c] = "live"
          /\ Make(c, "disconnect")
          /\ UNCHANGED spc
     \/ \E c \in toKill :
          /\ life[c] = "dead"
          /\ spc' = "crashed"
          /\ UNCHANGED <<toKill, idle, pool, refCount, jobVars, dropped>>
  /\ UNCHANGED <<workers, workerLock, workVars, told, joining, starts, connVars, life, ended>>

(* Clear. *)
StopClear ==
  /\ spc = "clear"
  /\ listed' = {} /\ retired' = retired \cup listed
  /\ spc' = "stop"
  /\ UNCHANGED <<poolVars, workerLock, workVars, told, toKill, joining, starts, jobVars,
                 alive, objectVars, dropped, ended>>

StopLock ==
  /\ spc = "stop"
  /\ workerLock = Free
  /\ workerLock' = Server
  /\ idle' = <<>>
  /\ spc' = "tell"
  /\ UNCHANGED <<workers, pool, workVars, told, toKill, joining, starts, jobVars, connVars,
                 objectVars, dropped, ended>>

(* TerminateWorker and delete, one worker after the other. *)
Tell ==
  /\ spc \in {"start", "tell"}
  /\ joining = NoWorker
  /\ workers # {}
  /\ joining' = Min(workers)
  /\ told' = told \cup {joining'}
  /\ UNCHANGED <<poolVars, workerLock, workVars, spc, toKill, starts, jobVars, connVars,
                 objectVars, dropped, ended>>

References(js) == [c \in Conns |-> Cardinality({j \in js : job[j].conn = c})]

(* With a finite wait the worker is killed wherever it is: the job it had  *)
(* is lost with its reference.  The queue releases its jobs.               *)
Join ==
  /\ joining # NoWorker
  /\ wpc[joining] = "end" \/ ~options.forever
  /\ Release(References(pool[joining]))
  /\ dropped' = dropped \cup pool[joining]
                  \cup ({wjob[joining]} \ ({NoJob} \cup {j \in Jobs : answered[j] > 0}))
  /\ pool' = [pool EXCEPT ![joining] = {}]
  /\ wpc' = [wpc EXCEPT ![joining] = "none"]
  /\ wjob' = [wjob EXCEPT ![joining] = NoJob]
  /\ workers' = workers \ {joining}
  /\ told' = told \ {joining}
  /\ joining' = NoWorker
  /\ UNCHANGED <<idle, workerLock, spc, toKill, starts, jobVars, listed, retired>>

StopUnlock ==
  /\ spc = "tell"
  /\ joining = NoWorker /\ workers = {}
  /\ workerLock' = Free
  /\ spc' = "idle"
  /\ UNCHANGED <<poolVars, workVars, told, toKill, joining, starts, jobVars, connVars,
                 objectVars, dropped, ended>>

CreateWorkers ==
  /\ spc = "start"
  /\ joining = NoWorker /\ workers = {}
  /\ workers' = Workers
  /\ idle' = [w \in Workers |-> w]
  /\ wpc' = [w \in Workers |-> IF options.eager THEN "look" ELSE "asleep"]
  /\ workerLock' = Free
  /\ spc' = "idle"
  /\ UNCHANGED <<pool, wjob, told, toKill, joining, starts, jobVars, connVars, objectVars,
                 dropped, ended>>

ServerStep ==
  /\ StopKill \/ StopClear \/ StopLock \/ Tell \/ Join \/ StopUnlock \/ CreateWorkers
  /\ UNCHANGED <<options, sockLock, answered>>

ServerCall ==
  /\ StartServer \/ StopServer
  /\ UNCHANGED <<options, sockLock, answered>>

-----------------------------------------------------------------------------
Next ==
  \/ \E c \in Conns : Accept(c) \/ RemoverRelease(c)
  \/ \E c \in Conns, kind \in {"send", "receive", "disconnect"} : Submit(c, kind)
  \/ \E w \in Workers : WorkerStep(w)
  \/ \E w \in Workers, kind \in {"send", "receive"} : Chain(w, kind)
  \/ ServerStep \/ ServerCall

Spec == Init /\ [][Next]_vars

(* Every thread runs, but a recv or send that waits for the peer need not  *)
(* come back.                                                              *)
Fairness ==
  /\ \A w \in Workers : WF_vars(wpc[w] # "transfer" /\ WorkerStep(w))
  /\ WF_vars(ServerStep)

FairSpec == Spec /\ Fairness

-----------------------------------------------------------------------------
InHand(j) == \E w \in Workers : wjob[w] = j
Queued(j) == \E w \in Workers : j \in pool[w]

(* A job is in one place: in the queue of one worker, in the hands of one, *)
(* answered or dropped; and its event is set once at most.  A job that is  *)
(* tried again is not answered yet (epIocpServerProcessor.cpp 44-59).      *)
JobsAreConserved ==
  \A j \in 1..pushed :
    /\ answered[j] <= 1
    /\ \A w, v \in Workers : j \in pool[w] \cap pool[v] => w = v
    /\ \A w, v \in Workers : wjob[w] = j /\ wjob[v] = j => w = v
    /\ Queued(j) => ~InHand(j) /\ answered[j] = 0 /\ j \notin dropped
    /\ Queued(j) \/ InHand(j) \/ answered[j] = 1 \/ j \in dropped

(* No job is worked on for a socket that was destroyed, and without a kill *)
(* the references of a socket are those of its list and its jobs.          *)
SocketOutlivesJobs ==
  \A c \in Conns :
    LET jobs == {j \in 1..pushed : job[j].conn = c /\ (Queued(j) \/ InHand(j))}
        own == IF c \in listed \cup retired THEN 1 ELSE 0
    IN  /\ jobs # {} => life[c] = "live"
        /\ options.forever => refCount[c] = own + Cardinality(jobs)

(* Both: a job is somewhere, and its socket is there for it.               *)
JobsAreSound == TypeOK /\ JobsAreConserved /\ SocketOutlivesJobs

(* OnDisconnect is called for every connection before it is destroyed,     *)
(* also for those whose DISCONNECT job was dropped when the workers ended, *)
(* and only when it is no longer connected.  (It may be called more than   *)
(* once: every DISCONNECT job calls it.)                                   *)
EndIsTold ==
  \A c \in Conns :
    /\ life[c] = "dead" => ended[c] > 0
    /\ ended[c] > 0 => ~alive[c]

(* A worker that sleeps without a job is on the list of pushJob: work is   *)
(* not queued behind other work while nobody knows of an idle worker.      *)
IdleIsListed ==
  \A w \in workers :
    wpc[w] = "asleep" /\ pool[w] = {} /\ workerLock = Free => w \in Range(idle)

(* The peers do their part: no recv or send waits for ever for the rest of *)
(* a packet, and no worker finds descriptors that are not ready for ever.  *)
PeersGoOn ==
  \A w \in Workers : []<>(wpc[w] # "transfer") /\ <>[][~TryAgain(w)]_vars

Done(j) == answered[j] = 1 \/ j \in dropped \/ spc # "idle"

(* With such peers a job is answered, unless the server stops or starts    *)
(* over.  (A worker that is killed after a finite wait may leave           *)
(* m_baseSocketLock locked, and then no job of that connection is done any *)
(* more.)                                                                  *)
JobIsDone == PeersGoOn => \A j \in Jobs : Queued(j) /\ options.forever ~> Done(j)

(* A peer that stops in the middle of a packet holds up the jobs of its    *)
(* own connection only.  It fails: the worker waits in recv or send        *)
(* (epIocpTcpSocket.cpp 161-166, epBaseTcpSocket.cpp 121, 131, 148-165),   *)
(* and with it every job in its queue, of whatever connection.             *)
StallIsLocal ==
  \A j \in Jobs :
    (\A w \in Workers : /\ <>[][~TryAgain(w)]_vars
                        /\ []<>(wpc[w] # "transfer" \/ JobConn(w) # job[j].conn))
      => (Queued(j) /\ options.forever ~> Done(j))

(* StopServer comes back.  It fails: it holds the lock that the worker it  *)
(* waits for needs for CallBackFunc (epIocpTcpServer.cpp 112, 149-155).    *)
StopReturns == (spc # "idle") ~> (spc = "idle")

(* OnDisconnect once per connection.  It fails: epIocpServerProcessor.cpp  *)
(* 87-92 calls it for every DISCONNECT job.                                *)
DisconnectAtMostOnce == \A c \in Conns : ended[c] <= 1
=============================================================================
