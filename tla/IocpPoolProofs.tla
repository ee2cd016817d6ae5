--------------------------- MODULE IocpPoolProofs ---------------------------
(***************************************************************************)
(* Proofs about IocpPool, for any connections, any number of workers, of   *)
(* jobs and of starts, and any options.                                    *)
(*                                                                         *)
(* A job is in one place, in the queue of one worker, in the hands of one, *)
(* answered or dropped, and answered once at most; and the connection of a *)
(* job that is queued or in hand is there, with a reference for each of    *)
(* them (JobsAreSound). A connection is destroyed only after its end was   *)
(* told (EndIsTold). A worker that sleeps without a job is on the list of  *)
(* pushJob (IdleIsListed).                                                 *)
(*                                                                         *)
(* The invariant IInv counts: a connection has one reference for its place *)
(* in the list or the remover, and one for each job that holds it          *)
(* (RefInv), so that its last reference goes with its last job. For that   *)
(* it must say where every job is (PlaceInv), which worker can have one in *)
(* its hands (WorkInv), and who is about to tell the end of a connection   *)
(* that is no longer alive (EndInv).                                       *)
(***************************************************************************)
EXTENDS IocpPool, FiniteSetTheorems, WellFoundedInduction, TLAPS

(* A worker in one of these places has a job in its hands. *)
Busy == {"try", "transfer", "check", "mark", "remove", "notify", "callback"}

(* The jobs that are queued or in the hands of a worker, and those of them *)
(* that are about connection c: each of these has a reference to it.       *)
Held == {j \in Jobs : Queued(j) \/ InHand(j)}
HeldOf(c) == {j \in Held : job[j].conn = c}
Own(c) == IF c \in listed \cup retired THEN 1 ELSE 0

Types ==
  /\ TypeOK
  /\ \A j \in 1..pushed : job[j].conn \in Conns
  /\ \A c \in Conns : refCount[c] <= pushed + 1

(* Where workers are.  Who is not in m_workerList has nothing, and is not  *)
(* on the idle list, from which pushJob takes the one that gets a job.     *)
WorkInv ==
  /\ \A w \in Workers : wjob[w] # NoJob <=> wpc[w] \in Busy
  /\ \A w \in Workers : w \notin workers => wpc[w] = "none" /\ pool[w] = {}
  /\ Range(idle) \subseteq workers
  /\ spc \in {"start", "tell"} => workerLock = Server /\ idle = <<>>
  /\ joining # NoWorker => joining \in workers /\ spc \in {"start", "tell"}

(* Where jobs are. *)
PlaceInv ==
  /\ \A j \in Jobs : answered[j] <= 1
  /\ \A j \in Jobs : j > pushed => answered[j] = 0 /\ j \notin dropped /\ j \notin Held
  /\ \A w, v \in Workers : \A j \in pool[w] : j \in pool[v] => w = v
  /\ \A w, v \in Workers : wjob[w] # NoJob /\ wjob[w] = wjob[v] => w = v
  /\ \A w \in Workers : \A j \in pool[w] :
       ~InHand(j) /\ answered[j] = 0 /\ j \notin dropped
  /\ \A w \in Workers : wjob[w] # NoJob =>
       /\ wjob[w] \notin dropped
       /\ answered[wjob[w]] = IF wpc[w] = "callback" THEN 1 ELSE 0
  /\ \A j \in 1..pushed : j \in Held \/ answered[j] = 1 \/ j \in dropped

(* A connection has the references of its list and its jobs; those of jobs *)
(* whose worker was killed are never released.                             *)
RefInv ==
  \A c \in Conns :
    /\ refCount[c] >= Own(c) + Cardinality(HeldOf(c))
    /\ options.forever => refCount[c] = Own(c) + Cardinality(HeldOf(c))
    /\ life[c] # "live" => refCount[c] = 0

(* A worker is about to tell the end of connection c. *)
Telling(c) ==
  \E w \in Workers : /\ wpc[w] \in {"remove", "notify"}
                     /\ wjob[w] # NoJob /\ JobConn(w) = c

(* The end of a connection was told or will be, or nobody destroys it,     *)
(* because a worker was killed before it could tell.                       *)
EndInv ==
  /\ \A c \in Conns :
       life[c] = "live" /\ ~alive[c] /\ ended[c] = 0
         => Telling(c) \/ refCount[c] > Own(c) + Cardinality(HeldOf(c))
  /\ \A w \in Workers : wpc[w] \in {"remove", "notify"} => ~alive[JobConn(w)]
  /\ \A c \in Conns : life[c] = "unborn" => ended[c] = 0
  /\ \A c \in Conns : life[c] = "dead" => ended[c] > 0
  /\ \A c \in Conns : ended[c] > 0 => ~alive[c]

IInv == Types /\ WorkInv /\ PlaceInv /\ RefInv /\ EndInv /\ IdleIsListed

-----------------------------------------------------------------------------
(* Finite sets of jobs, and the smallest member of a set.                  *)

(* Sets of jobs are finite. *)
LEMMA JobSets ==
  ASSUME NEW S, S \subseteq Jobs
  PROVE  IsFiniteSet(S) /\ Cardinality(S) \in Nat /\ (Cardinality(S) = 0 <=> S = {})
<1>1. IsFiniteSet(Jobs)
  BY IocpPoolAssumption, FS_Interval DEF Jobs
<1>2. IsFiniteSet(S)
  BY <1>1, FS_Subset
<1>3. QED
  BY <1>2, FS_CardinalityType, FS_EmptySet

(* A set of numbers has a smallest member, *)
LEMMA Smallest ==
  ASSUME NEW S, S \subseteq Nat, S # {}
  PROVE  \E m \in S : \A n \in S : m <= n
<1>1. PICK m \in S : \A n \in S : ~(<<n, m>> \in OpToRel(<, Nat))
  BY NatLessThanWellFounded, WFMin
<1>2. \A n \in S : ~(n < m)
  BY <1>1 DEF OpToRel
<1>3. QED
  BY <1>2

(* which is what Min returns. *)
LEMMA MinIsMember ==
  ASSUME NEW S, S \subseteq Nat, S # {}
  PROVE  Min(S) \in S
BY Smallest DEF Min

(* pushJob gives the job to a worker of m_workerList                       *)
(* (epIocpTcpServer.cpp).                                                  *)
LEMMA LeastLoadedWorks ==
  ASSUME pool \in [Workers -> SUBSET Jobs], workers \subseteq Workers, workers # {}
  PROVE  LeastLoaded \in workers
<1> DEFINE load == [w \in workers |-> Cardinality(pool[w])]
           K == {load[w] : w \in workers}
<1>1. \A w \in workers : load[w] \in Nat
  BY JobSets
<1>2. PICK k \in K : \A n \in K : k <= n
  <2>1. K \subseteq Nat /\ K # {}
    BY <1>1
  <2>2. QED
    BY <2>1, Smallest
<1> DEFINE L == {w \in workers : load[w] = k}
<1>3. L \subseteq Nat /\ L # {}
  BY <1>2, IocpPoolAssumption DEF Workers
<1>4. PICK w \in L : \A v \in L : w <= v
  BY <1>3, Smallest
<1>5. ASSUME NEW v \in workers
      PROVE  load[w] < load[v] \/ (load[w] = load[v] /\ w <= v)
  <2>1. load[w] = k /\ load[v] \in K
    BY <1>4
  <2> HIDE DEF load, K
  <2>2. load[w] <= load[v] /\ load[w] \in Nat /\ load[v] \in Nat
    BY <1>1, <1>2, <2>1, <1>4 DEF L
  <2>3. load[v] = load[w] => w <= v
    BY <1>4, <2>1 DEF L
  <2>4. QED
    BY <2>2, <2>3
<1>6. \E u \in workers : \A v \in workers :
        \/ Cardinality(pool[u]) < Cardinality(pool[v])
        \/ Cardinality(pool[u]) = Cardinality(pool[v]) /\ u <= v
  BY <1>4, <1>5
<1>7. QED
  BY <1>6 DEF LeastLoaded

-----------------------------------------------------------------------------
(* Types.                                                                  *)

(* Where a job that is made is put. *)
LEMMA PlaceWorks ==
  ASSUME Types, workers # {}, Range(idle) \subseteq workers, NEW j, Place(j)
  PROVE  /\ idle' \in Seq(Workers) /\ Range(idle') \subseteq workers
         /\ \E w \in workers : pool' = [pool EXCEPT ![w] = @ \cup {j}]
         /\ \A w \in Workers : (w \in Range(idle) /\ w \notin Range(idle')) => j \in pool'[w]
<1>1. idle \in Seq(Workers) /\ pool \in [Workers -> SUBSET Jobs] /\ workers \subseteq Workers
  BY DEF Types, TypeOK
<1>2. CASE idle = <<>>
  <2>1. LeastLoaded \in workers
    BY <1>1, LeastLoadedWorks
  <2>2. pool' = [pool EXCEPT ![LeastLoaded] = @ \cup {j}] /\ idle' = idle
    BY <1>2 DEF Place
  <2> HIDE DEF LeastLoaded
  <2>3. QED
    BY <1>1, <2>1, <2>2
<1>3. CASE idle # <<>>
  <2>1. Head(idle) \in Workers /\ Tail(idle) \in Seq(Workers) /\ Len(idle) >= 1
    BY <1>1, <1>3
  <2>2. pool' = [pool EXCEPT ![Head(idle)] = @ \cup {j}] /\ idle' = Tail(idle)
    BY <1>3 DEF Place
  <2>3. j \in pool'[Head(idle)]
    BY <1>1, <2>1, <2>2
  <2>4. \A w \in Workers : w \in Range(idle) => w = Head(idle) \/ w \in Range(Tail(idle))
    <3> SUFFICES ASSUME NEW i \in DOMAIN idle, i # 1
                 PROVE  idle[i] \in Range(Tail(idle))
      BY <1>1, <1>3 DEF Range
    <3>1. i - 1 \in DOMAIN Tail(idle) /\ Tail(idle)[i - 1] = idle[i]
      BY <1>1, <1>3
    <3>2. QED
      BY <3>1 DEF Range
  <2>5. Range(Tail(idle)) \subseteq workers
    <3> SUFFICES ASSUME NEW i \in DOMAIN Tail(idle) PROVE Tail(idle)[i] \in workers
      BY DEF Range
    <3>1. i + 1 \in DOMAIN idle /\ Tail(idle)[i] = idle[i + 1]
      BY <1>1, <1>3
    <3>2. QED
      BY <3>1 DEF Range
  <2>6. Head(idle) \in workers
    <3>1. 1 \in DOMAIN idle /\ Head(idle) = idle[1]
      BY <1>1, <2>1
    <3>2. QED
      BY <3>1 DEF Range
  <2>7. QED
    BY <2>1, <2>2, <2>3, <2>4, <2>5, <2>6
<1>4. QED
  BY <1>2, <1>3

(* The numbers that the steps below compare are natural. *)
LEMMA SmallNumbers ==
  /\ WorkerCount \in Nat \ {0} /\ MaxJobs \in Nat /\ MaxStarts \in Nat
  /\ Workers = 1..WorkerCount /\ Jobs = 1..MaxJobs
  /\ NoJob \notin Jobs /\ NoWorker \notin Workers /\ Free \notin Workers
BY IocpPoolAssumption DEF Workers, Jobs, NoJob, NoWorker, Free

(* The server is somebody, who can hold m_workerLock. *)
LEMMA ServerTakes == Server # Free
BY IocpPoolAssumption DEF Server, Free

(* The types that Release changes, those of a connection's references. *)
LEMMA ReleaseTypes ==
  ASSUME Types, NEW cs, Release(cs), pushed' = pushed,
         \A c \in Conns : cs[c] \in Nat /\ cs[c] <= refCount[c]
  PROVE  /\ refCount' \in [Conns -> 0..(MaxJobs + 1)]
         /\ \A c \in Conns : refCount'[c] <= pushed' + 1
         /\ life' \in [Conns -> {"unborn", "live", "dead"}]
         /\ alive' \in [Conns -> BOOLEAN]
         /\ ended' \in [Conns -> Nat]
<1>1. /\ refCount \in [Conns -> 0..(MaxJobs + 1)] /\ MaxJobs \in Nat
      /\ pushed \in Nat /\ \A c \in Conns : refCount[c] <= pushed + 1
      /\ life \in [Conns -> {"unborn", "live", "dead"}]
      /\ alive \in [Conns -> BOOLEAN]
      /\ ended \in [Conns -> Nat]
  BY SmallNumbers DEF Types, TypeOK
<1> DEFINE dying == {c \in Conns : cs[c] > 0 /\ refCount[c] = cs[c]}
<1>2. /\ refCount' = [c \in Conns |-> refCount[c] - cs[c]]
      /\ life' = [c \in Conns |-> IF c \in dying THEN "dead" ELSE life[c]]
      /\ alive' = [c \in Conns |-> alive[c] /\ c \notin dying]
      /\ ended' = [c \in Conns |->
                     IF c \in dying /\ alive[c] THEN ended[c] + 1 ELSE ended[c]]
  BY DEF Release
<1> HIDE DEF dying
<1>3. \A c \in Conns : refCount[c] - cs[c] \in 0..(MaxJobs + 1) /\ refCount[c] - cs[c] <= pushed + 1
  BY <1>1
<1>4. refCount' \in [Conns -> 0..(MaxJobs + 1)] /\ \A c \in Conns : refCount'[c] <= pushed + 1
  BY <1>2, <1>3
<1>5. life' \in [Conns -> {"unborn", "live", "dead"}]
  BY <1>1, <1>2
<1>6. alive' \in [Conns -> BOOLEAN]
  BY <1>1, <1>2
<1>7. ended' \in [Conns -> Nat]
  BY <1>1, <1>2
<1>8. QED
  BY <1>4, <1>5, <1>6, <1>7

(* A job that is made has a number of its own, and leaves the types of the *)
(* queues.                                                                 *)
LEMMA MakeTypes ==
  ASSUME Types, Range(idle) \subseteq workers,
         NEW c \in Conns, NEW kind \in {"send", "receive", "disconnect"}, Make(c, kind)
  PROVE  /\ idle' \in Seq(Workers) /\ pool' \in [Workers -> SUBSET Jobs]
         /\ job' \in [Jobs -> [conn : Conns \cup {NoConn},
                               kind : {"none", "send", "receive", "disconnect"}]]
         /\ pushed' = pushed + 1 /\ pushed' \in Jobs
         /\ \A j \in 1..pushed' : job'[j].conn \in Conns
         /\ \A j \in 1..pushed : job'[j] = job[j]
         /\ job'[pushed'].conn = c
         /\ refCount' \in [Conns -> 0..(MaxJobs + 1)]
         /\ \A d \in Conns : refCount'[d] <= pushed' + 1
         /\ dropped' \subseteq Jobs
<1>1. pushed \in Nat /\ pushed' = pushed + 1 /\ pushed' \in Jobs
  BY SmallNumbers DEF Make, Types, TypeOK
<1>2. pool \in [Workers -> SUBSET Jobs] /\ idle \in Seq(Workers) /\ dropped \subseteq Jobs
  BY DEF Types, TypeOK
<1>3. idle' \in Seq(Workers) /\ pool' \in [Workers -> SUBSET Jobs]
  <2>1. CASE workers # {} /\ Place(pushed')
    <3>1. idle' \in Seq(Workers) /\ \E w \in workers : pool' = [pool EXCEPT ![w] = @ \cup {pushed'}]
      BY <2>1, PlaceWorks
    <3>2. QED
      BY <1>1, <1>2, <3>1
  <2>2. QED
    BY <1>2, <2>1 DEF Make
<1>4. job' = [job EXCEPT ![pushed'] = [conn |-> c, kind |-> kind]]
  BY DEF Make
<1>5. job \in [Jobs -> [conn : Conns \cup {NoConn},
                        kind : {"none", "send", "receive", "disconnect"}]]
  BY DEF Types, TypeOK
<1>6. /\ job' \in [Jobs -> [conn : Conns \cup {NoConn},
                            kind : {"none", "send", "receive", "disconnect"}]]
      /\ job'[pushed'].conn = c
  BY <1>1, <1>4, <1>5
<1>7. \A j \in 1..pushed : j \in Jobs /\ job'[j] = job[j]
  BY <1>1, <1>4, <1>5, SmallNumbers
<1>8. \A j \in 1..pushed' : job'[j].conn \in Conns
  BY <1>1, <1>6, <1>7 DEF Types
<1>9. refCount \in [Conns -> 0..(MaxJobs + 1)] /\ \A d \in Conns : refCount[d] <= pushed + 1
  BY DEF Types, TypeOK
<1>10. pushed + 2 <= MaxJobs + 1 /\ MaxJobs \in Nat
  BY <1>1, SmallNumbers
<1>11. \/ refCount' = refCount
       \/ refCount' = [refCount EXCEPT ![c] = @ + 1]
  BY DEF Make
<1>12. \A d \in Conns : refCount'[d] \in Nat /\ refCount'[d] <= pushed' + 1
  BY <1>1, <1>9, <1>11
<1>13. refCount' \in [Conns -> 0..(MaxJobs + 1)]
  BY <1>1, <1>9, <1>10, <1>11, <1>12
<1>14. dropped' \subseteq Jobs
  BY <1>1, <1>2 DEF Make
<1>15. QED
  BY <1>1, <1>3, <1>6, <1>7, <1>8, <1>12, <1>13, <1>14

(* The connection of a job in the hands of a worker is there. *)
LEMMA InHandIsHeld ==
  ASSUME IInv, NEW w \in Workers, wpc[w] \in Busy
  PROVE  /\ wjob[w] \in Jobs /\ wjob[w] \in 1..pushed /\ wjob[w] # NoJob
         /\ JobConn(w) \in Conns /\ wjob[w] \in HeldOf(JobConn(w))
         /\ Cardinality(HeldOf(JobConn(w))) >= 1
         /\ refCount[JobConn(w)] >= 1 /\ life[JobConn(w)] = "live"
<1>1. wjob[w] \in Jobs \cup {NoJob} /\ wjob[w] # NoJob /\ pushed \in Nat
  BY DEF IInv, Types, TypeOK, WorkInv
<1>2. wjob[w] \in Held
  BY <1>1 DEF Held, InHand
<1>3. wjob[w] \in 1..pushed
  BY <1>1, <1>2, SmallNumbers DEF IInv, PlaceInv
<1>4. JobConn(w) \in Conns
  BY <1>3 DEF IInv, Types, JobConn
<1>5. wjob[w] \in HeldOf(JobConn(w)) /\ HeldOf(JobConn(w)) \subseteq Jobs
  BY <1>2 DEF HeldOf, Held, JobConn
<1>6. Cardinality(HeldOf(JobConn(w))) >= 1
  BY <1>5, JobSets
<1>7. refCount[JobConn(w)] \in Nat
  BY <1>4, SmallNumbers DEF IInv, Types, TypeOK
<1>8. refCount[JobConn(w)] >= 1
  <2>1. Own(JobConn(w)) \in Nat
    BY DEF Own
  <2>2. Cardinality(HeldOf(JobConn(w))) \in Nat
    BY <1>5, JobSets
  <2>3. QED
    BY <1>4, <1>6, <1>7, <2>1, <2>2 DEF IInv, RefInv
<1>9. QED
  BY <1>1, <1>3, <1>4, <1>5, <1>6, <1>8 DEF IInv, RefInv

(* Counts of references. *)
LEMMA Counts ==
  ASSUME Types, NEW c \in Conns
  PROVE  /\ HeldOf(c) \subseteq Jobs /\ IsFiniteSet(HeldOf(c))
         /\ Cardinality(HeldOf(c)) \in Nat /\ Own(c) \in {0, 1} /\ refCount[c] \in Nat
<1>1. HeldOf(c) \subseteq Jobs
  BY DEF HeldOf, Held
<1>2. refCount[c] \in Nat
  BY SmallNumbers DEF Types, TypeOK
<1>3. QED
  BY <1>1, <1>2, JobSets DEF Own

(* The references that the queue of a worker holds, when the worker is     *)
(* joined.                                                                 *)
LEMMA JoinReleases ==
  ASSUME IInv, NEW w \in Workers, NEW c \in Conns
  PROVE  /\ References(pool[w])[c] = Cardinality({j \in pool[w] : job[j].conn = c})
         /\ {j \in pool[w] : job[j].conn = c} \subseteq HeldOf(c)
         /\ References(pool[w])[c] \in Nat /\ References(pool[w])[c] <= refCount[c]
<1> DEFINE P == {j \in pool[w] : job[j].conn = c}
<1>1. References(pool[w])[c] = Cardinality(P)
  BY DEF References
<1>2. pool[w] \subseteq Jobs
  BY DEF IInv, Types, TypeOK
<1>3. P \subseteq HeldOf(c)
  BY <1>2 DEF HeldOf, Held, Queued
<1>4. IsFiniteSet(HeldOf(c)) /\ Cardinality(HeldOf(c)) \in Nat /\ Own(c) \in {0, 1}
      /\ refCount[c] \in Nat
  BY Counts DEF IInv
<1>5. Cardinality(P) \in Nat /\ Cardinality(P) <= Cardinality(HeldOf(c))
  BY <1>2, <1>3, <1>4, JobSets, FS_Subset
<1>6. refCount[c] >= Own(c) + Cardinality(HeldOf(c))
  BY DEF IInv, RefInv
<1> HIDE DEF P
<1>7. QED
  <2>1. Cardinality(P) <= refCount[c]
    BY <1>4, <1>5, <1>6
  <2>2. QED
    BY <1>1, <1>3, <1>5, <2>1 DEF P

(* A reference that is released leaves the types. *)
LEMMA OneIsHeld ==
  ASSUME IInv, NEW c \in Conns, refCount[c] >= 1, ReleaseOne(c), pushed' = pushed
  PROVE  /\ refCount' \in [Conns -> 0..(MaxJobs + 1)]
         /\ \A d \in Conns : refCount'[d] <= pushed' + 1
         /\ life' \in [Conns -> {"unborn", "live", "dead"}]
         /\ alive' \in [Conns -> BOOLEAN]
         /\ ended' \in [Conns -> Nat]
<1> DEFINE cs == [d \in Conns |-> IF d = c THEN 1 ELSE 0]
<1>1. \A d \in Conns : cs[d] \in Nat /\ cs[d] <= refCount[d]
  <2>1. \A d \in Conns : refCount[d] \in Nat
    BY Counts DEF IInv
  <2>2. QED
    BY <2>1
<1>2. Release(cs)
  BY DEF ReleaseOne
<1> HIDE DEF cs
<1>3. QED
  BY <1>1, <1>2, ReleaseTypes DEF IInv

(* The initial states have the types, *)
LEMMA TypesInit == Init => Types
<1> SUFFICES ASSUME Init PROVE Types
  OBVIOUS
<1>1. /\ job \in [Jobs -> [conn : Conns \cup {NoConn},
                         kind : {"none", "send", "receive", "disconnect"}]]
      /\ pool \in [Workers -> SUBSET Jobs] /\ answered \in [Jobs -> Nat]
      /\ ended \in [Conns -> Nat] /\ idle \in Seq(Workers)
  BY DEF Init
<1>2. /\ refCount \in [Conns -> 0..(MaxJobs + 1)] /\ refCount = [c \in Conns |-> 0]
      /\ pushed = 0 /\ pushed \in 0..MaxJobs /\ starts \in 0..MaxStarts
      /\ joining \in 0..WorkerCount
  BY SmallNumbers DEF Init, NoWorker
<1>3. /\ \A j \in 1..pushed : job[j].conn \in Conns
      /\ \A c \in Conns : refCount[c] <= pushed + 1
  BY <1>2
<1>4. QED
  BY <1>1, <1>2, <1>3 DEF Init, Types, TypeOK

(* a job that is made keeps them, *)
LEMMA MakeKeepsTypes ==
  ASSUME Types, Range(idle) \subseteq workers,
         NEW c \in Conns, NEW kind \in {"send", "receive", "disconnect"}, Make(c, kind),
         UNCHANGED <<options, workers, workerLock, wpc, wjob, told, joining, starts, sockLock,
                     alive, listed, retired, life, answered, ended>>,
         spc' \in {"idle", "kill", "clear", "stop", "start", "tell", "crashed"},
         toKill' \subseteq Conns
  PROVE  Types'
<1>1. /\ idle' \in Seq(Workers) /\ pool' \in [Workers -> SUBSET Jobs]
      /\ job' \in [Jobs -> [conn : Conns \cup {NoConn},
                            kind : {"none", "send", "receive", "disconnect"}]]
      /\ pushed' \in Jobs
      /\ \A j \in 1..pushed' : job'[j].conn \in Conns
      /\ refCount' \in [Conns -> 0..(MaxJobs + 1)]
      /\ \A d \in Conns : refCount'[d] <= pushed' + 1
      /\ dropped' \subseteq Jobs
  BY MakeTypes
<1>2. pushed' \in 0..MaxJobs
  BY <1>1, SmallNumbers
<1>3. QED
  BY <1>1, <1>2 DEF Types, TypeOK

(* and so does each step of a worker, *)
LEMMA WorkerTypes ==
  ASSUME IInv, NEW w \in Workers, WorkerStep(w)
  PROVE  Types'
<1> USE DEF Types, TypeOK, WorkerStep, Go, poolVars, connVars, objectVars, serverVars,
            jobVars
<1>1. TypeOK /\ Types
  BY DEF IInv
<1>2. CASE TakeJob(w)
  <2>1. PICK j \in pool[w] : /\ pool' = [pool EXCEPT ![w] = @ \ {j}]
                             /\ wjob' = [wjob EXCEPT ![w] = j]
    BY <1>2 DEF TakeJob
  <2>2. j \in Jobs
    BY <1>1
  <2>3. pool' \in [Workers -> SUBSET Jobs] /\ wjob' \in [Workers -> Jobs \cup {NoJob}]
    BY <1>1, <2>1, <2>2
  <2>4. QED
    BY <1>1, <1>2, <2>3 DEF TakeJob
<1>3. CASE NothingToDo(w)
  BY <1>1, <1>3, SmallNumbers DEF NothingToDo
<1>4. CASE CallBackFunc(w)
  <2>1. idle' \in Seq(Workers)
    BY <1>1, <1>4 DEF CallBackFunc
  <2>2. QED
    BY <1>1, <1>4, <2>1 DEF CallBackFunc
<1>5. CASE Wake(w)
  BY <1>1, <1>5, SmallNumbers DEF Wake
<1>6. CASE TryAgain(w)
  <2>1. wjob[w] \in Jobs
    BY <1>6, InHandIsHeld DEF TryAgain, Busy
  <2>2. QED
    BY <1>1, <1>6, <2>1, SmallNumbers DEF TryAgain
<1>7. CASE TryDone(w) \/ TransferDone(w) \/ KillOver(w)
  <2>1. wjob[w] \in Jobs /\ JobConn(w) \in Conns
    BY <1>7, InHandIsHeld DEF TryDone, TransferDone, KillOver, Busy
  <2>2. answered' = [answered EXCEPT ![wjob[w]] = @ + 1] /\ wpc' = [wpc EXCEPT ![w] = "callback"]
    BY <1>7 DEF TryDone, TransferDone, KillOver, Answer
  <2>3. \/ sockLock' = sockLock
        \/ sockLock' = [sockLock EXCEPT ![JobConn(w)] = Free]
    BY <1>7 DEF TryDone, TransferDone, KillOver
  <2>4. sockLock' \in [Conns -> Workers \cup {Free}]
    BY <1>1, <2>1, <2>3
  <2>5. /\ answered' \in [Jobs -> Nat]
        /\ wpc' \in [Workers -> {"none", "look", "report", "asleep", "try", "transfer",
                                 "check", "mark", "remove", "notify", "callback", "end"}]
    BY <1>1, <2>1, <2>2
  <2>6. UNCHANGED <<workers, idle, pool, wjob, alive, listed, retired, refCount, life, ended>>
    BY <1>7 DEF TryDone, TransferDone, KillOver
  <2>7. QED
    BY <1>1, <2>4, <2>5, <2>6
<1>8. CASE TryFails(w) \/ TryReady(w)
  <2>1. sockLock' \in [Conns -> Workers \cup {Free}]
    <3>1. sockLock' = [sockLock EXCEPT ![JobConn(w)] = w]
      BY <1>8 DEF TryFails, TryReady
    <3>2. sockLock \in [Conns -> Workers \cup {Free}]
      BY <1>1
    <3>3. QED
      BY <3>1, <3>2
  <2>2. /\ wpc' = [wpc EXCEPT ![w] = "check"] \/ wpc' = [wpc EXCEPT ![w] = "transfer"]
        /\ UNCHANGED <<workers, idle, pool, wjob, alive, listed, retired, refCount, life, ended,
                       answered>>
    BY <1>8 DEF TryFails, TryReady
  <2>3. wpc' \in [Workers -> {"none", "look", "report", "asleep", "try", "transfer",
                             "check", "mark", "remove", "notify", "callback", "end"}]
    BY <1>1, <2>2
  <2>4. QED
    BY <1>1, <2>1, <2>2, <2>3
<1>9. CASE KillCheck(w)
  BY <1>1, <1>9, SmallNumbers DEF KillCheck
<1>10. CASE KillMark(w)
  BY <1>1, <1>10, SmallNumbers DEF KillMark
<1>11. CASE KillRemove(w)
  BY <1>1, <1>11, SmallNumbers DEF KillRemove
<1>12. CASE KillNotify(w)
  <2>1. wjob[w] \in Jobs /\ JobConn(w) \in Conns
    BY <1>12, InHandIsHeld DEF KillNotify, Busy
  <2>2. QED
    <3>1. answered' \in [Jobs -> Nat] /\ ended' \in [Conns -> Nat]
      BY <1>1, <1>12, <2>1 DEF KillNotify, Answer
    <3>2. sockLock' \in [Conns -> Workers \cup {Free}]
      BY <1>1, <1>12, <2>1 DEF KillNotify
    <3>3. QED
      BY <1>1, <1>12, <3>1, <3>2 DEF KillNotify, Answer
<1>13. CASE JobEnd(w)
  <2>1. JobConn(w) \in Conns /\ refCount[JobConn(w)] >= 1
    BY <1>13, InHandIsHeld DEF JobEnd, Busy
  <2>2. /\ refCount' \in [Conns -> 0..(MaxJobs + 1)]
        /\ \A d \in Conns : refCount'[d] <= pushed' + 1
        /\ life' \in [Conns -> {"unborn", "live", "dead"}]
        /\ alive' \in [Conns -> BOOLEAN]
        /\ ended' \in [Conns -> Nat]
    BY <1>13, <2>1, OneIsHeld DEF JobEnd
  <2>3. QED
    BY <1>1, <1>13, <2>2, SmallNumbers DEF JobEnd
<1>14. QED
  BY <1>2, <1>3, <1>4, <1>5, <1>6, <1>7, <1>8, <1>9, <1>10, <1>11, <1>12, <1>13 DEF WorkerStep

(* each call of the application, *)
LEMMA CallTypes ==
  ASSUME IInv, NEW c \in Conns,
         \/ Accept(c) \/ RemoverRelease(c)
         \/ \E kind \in {"send", "receive", "disconnect"} : Submit(c, kind)
  PROVE  Types'
<1> USE DEF Types, TypeOK, poolVars, workVars, connVars, objectVars, serverVars, jobVars
<1>1. TypeOK /\ Types
  BY DEF IInv
<1>2. CASE Accept(c)
  <2>1. c \notin retired
    <3>1. refCount[c] = 0 /\ refCount[c] >= Own(c) + Cardinality(HeldOf(c))
      BY <1>2 DEF Accept, IInv, RefInv
    <3>2. Own(c) = 0
      BY <1>1, <3>1, Counts, SMTT(20)
    <3>3. QED
      BY <3>2 DEF Own
  <2>2. 1 \in 0..(MaxJobs + 1) /\ 1 <= pushed + 1
    BY <1>1, SmallNumbers
  <2>3. /\ refCount' \in [Conns -> 0..(MaxJobs + 1)]
        /\ \A d \in Conns : refCount'[d] <= pushed' + 1
    BY <1>1, <1>2, <2>2 DEF Accept
  <2>4. QED
    BY <1>1, <1>2, <2>1, <2>3 DEF Accept
<1>3. CASE RemoverRelease(c)
  <2>1. refCount[c] >= 1
    BY <1>1, <1>3, Counts DEF RemoverRelease, IInv, RefInv, Own
  <2>2. /\ refCount' \in [Conns -> 0..(MaxJobs + 1)]
        /\ \A d \in Conns : refCount'[d] <= pushed' + 1
        /\ life' \in [Conns -> {"unborn", "live", "dead"}]
        /\ alive' \in [Conns -> BOOLEAN]
        /\ ended' \in [Conns -> Nat]
    BY <1>3, <2>1, OneIsHeld DEF RemoverRelease
  <2>3. QED
    BY <1>1, <1>3, <2>2, SmallNumbers DEF RemoverRelease
<1>4. ASSUME NEW kind \in {"send", "receive", "disconnect"}, Submit(c, kind) PROVE Types'
  <2>1. Make(c, kind)
    BY <1>4 DEF Submit
  <2>2. /\ UNCHANGED <<options, workers, workerLock, wpc, wjob, told, joining, starts, sockLock,
                        alive, listed, retired, life, answered, ended>>
        /\ spc' \in {"idle", "kill", "clear", "stop", "start", "tell", "crashed"}
        /\ toKill' \subseteq Conns
    BY <1>1, <1>4 DEF Submit
  <2> HIDE DEF Types, TypeOK
  <2>3. QED
    BY <1>1, <2>1, <2>2, MakeKeepsTypes DEF IInv, WorkInv
<1>5. QED
  BY <1>2, <1>3, <1>4

(* the job that a callback asks for, *)
LEMMA ChainTypes ==
  ASSUME IInv, NEW w \in Workers, NEW kind \in {"send", "receive"}, Chain(w, kind)
  PROVE  Types'
<1> USE DEF Types, TypeOK, poolVars, workVars, connVars, objectVars, serverVars, jobVars
<1>1. TypeOK /\ Types
  BY DEF IInv
<1>2. JobConn(w) \in Conns /\ Make(JobConn(w), kind)
  BY InHandIsHeld DEF Chain, Busy
<1>3. /\ UNCHANGED <<options, workers, workerLock, wpc, wjob, told, joining, starts, sockLock,
                      alive, listed, retired, life, answered, ended>>
      /\ spc' \in {"idle", "kill", "clear", "stop", "start", "tell", "crashed"}
      /\ toKill' \subseteq Conns
  BY <1>1 DEF Chain
<1> HIDE DEF Types, TypeOK
<1>4. QED
  BY <1>1, <1>2, <1>3, MakeKeepsTypes DEF IInv, WorkInv

(* and each step of the server. *)
LEMMA ServerTypes ==
  ASSUME IInv, ServerStep \/ ServerCall
  PROVE  Types'
<1> USE DEF Types, TypeOK, poolVars, workVars, connVars, objectVars, serverVars, jobVars
<1>1. TypeOK /\ Types
  BY DEF IInv
<1>2. UNCHANGED <<options, sockLock, answered>>
  BY DEF ServerStep, ServerCall
<1>3. CASE StopKill
  <2>1. CASE UNCHANGED <<idle, pool, refCount, job, pushed, dropped>>
    BY <1>1, <1>2, <1>3, <2>1, SmallNumbers DEF StopKill
  <2>2. ASSUME NEW c \in toKill, toKill' = toKill \ {c}, Make(c, "disconnect"), spc' = spc
        PROVE  Types'
    <3>1. c \in Conns
      BY <1>1
    <3>2. /\ UNCHANGED <<options, workers, workerLock, wpc, wjob, told, joining, starts,
                          sockLock, alive, listed, retired, life, answered, ended>>
          /\ spc' \in {"idle", "kill", "clear", "stop", "start", "tell", "crashed"}
          /\ toKill' \subseteq Conns
      BY <1>1, <1>2, <1>3, <2>2 DEF StopKill
    <3> HIDE DEF Types, TypeOK
    <3>3. QED
      BY <1>1, <2>2, <3>1, <3>2, MakeKeepsTypes DEF IInv, WorkInv
  <2>3. QED
    BY <1>3, <2>1, <2>2 DEF StopKill
<1>4. CASE StopClear
  BY <1>1, <1>2, <1>4, SmallNumbers DEF StopClear
<1>5. CASE StopLock
  BY <1>1, <1>2, <1>5, SmallNumbers, SMTT(20) DEF StopLock
<1>6. CASE Tell
  <2>1. joining' \in workers
    <3>1. workers \subseteq Nat /\ workers # {} /\ joining' = Min(workers)
      BY <1>1, <1>6, SmallNumbers DEF Tell
    <3>2. QED
      BY <3>1, MinIsMember
  <2>2. joining' \in Workers /\ told' = told \cup {joining'} /\ told \subseteq Workers
    BY <1>1, <1>6, <2>1 DEF Tell
  <2>3. joining' \in 0..WorkerCount /\ told' \subseteq Workers
    BY <2>2, SmallNumbers
  <2>4. QED
    BY <1>1, <1>2, <1>6, <2>3 DEF Tell
<1>7. CASE Join
  <2>1. joining \in Workers
    BY <1>1, <1>7, SmallNumbers DEF Join, NoWorker
  <2>2. /\ refCount' \in [Conns -> 0..(MaxJobs + 1)]
        /\ \A d \in Conns : refCount'[d] <= pushed' + 1
        /\ life' \in [Conns -> {"unborn", "live", "dead"}]
        /\ alive' \in [Conns -> BOOLEAN]
        /\ ended' \in [Conns -> Nat]
    <3>1. \A c \in Conns : References(pool[joining])[c] \in Nat
                           /\ References(pool[joining])[c] <= refCount[c]
      BY <2>1, JoinReleases
    <3>2. QED
      BY <1>1, <1>7, <3>1, ReleaseTypes DEF Join
  <2>3. dropped' \subseteq Jobs
    BY <1>1, <1>7, <2>1 DEF Join
  <2>4. QED
    BY <1>1, <1>2, <1>7, <2>1, <2>2, <2>3, SmallNumbers, SMTT(20) DEF Join, NoWorker
<1>8. CASE StopUnlock
  BY <1>1, <1>2, <1>8, SmallNumbers DEF StopUnlock
<1>9. CASE CreateWorkers
  <2>1. [w \in Workers |-> w] \in Seq(Workers)
    BY SmallNumbers
  <2>2. wpc' \in [Workers -> {"none", "look", "report", "asleep", "try", "transfer",
                              "check", "mark", "remove", "notify", "callback", "end"}]
    BY <1>9 DEF CreateWorkers
  <2>3. QED
    BY <1>1, <1>2, <1>9, <2>1, <2>2 DEF CreateWorkers
<1>10. CASE StartServer
  <2>1. starts' \in 0..MaxStarts /\ idle' \in Seq(Workers)
    BY <1>1, <1>10, SmallNumbers DEF StartServer
  <2>2. QED
    BY <1>1, <1>2, <1>10, <2>1 DEF StartServer
<1>11. CASE StopServer
  BY <1>1, <1>2, <1>11, SmallNumbers DEF StopServer
<1>12. QED
  BY <1>3, <1>4, <1>5, <1>6, <1>7, <1>8, <1>9, <1>10, <1>11 DEF ServerStep, ServerCall

-----------------------------------------------------------------------------
(* Where workers are, and who is on the idle list.                         *)

(* Workers: the initial states, *)
LEMMA WorkInit == Init => WorkInv /\ IdleIsListed
<1> SUFFICES ASSUME Init PROVE WorkInv /\ IdleIsListed
  OBVIOUS
<1>1. Range(idle) = {}
  BY DEF Init, Range
<1>2. QED
  BY <1>1, SmallNumbers DEF Init, WorkInv, IdleIsListed, Busy

(* A worker step: what becomes of the others, and of the one that steps.   *)
LEMMA WorkMoves ==
  ASSUME IInv, Types', NEW w \in Workers, w \in workers,
         workers' = workers, joining' = joining, spc' = spc,
         \A v \in Workers : v # w => wpc'[v] = wpc[v] /\ wjob'[v] = wjob[v] /\ pool'[v] = pool[v],
         wjob'[w] # NoJob <=> wpc'[w] \in Busy,
         workerLock' = workerLock,
         \/ idle' = idle /\ wpc'[w] # "asleep"
         \/ idle' = Append(idle, w) /\ workerLock = Free
  PROVE  WorkInv' /\ IdleIsListed'
<1>1. WorkInv'
  <2>1. Range(idle') \subseteq workers
    <3>1. CASE idle' = Append(idle, w)
      <4>1. idle \in Seq(Workers) /\ Range(idle) \subseteq workers
        BY DEF IInv, Types, TypeOK, WorkInv
      <4>2. \A i \in DOMAIN idle' : (i \in DOMAIN idle /\ idle'[i] = idle[i]) \/ idle'[i] = w
        BY <3>1, <4>1
      <4>3. QED
        BY <4>1, <4>2 DEF Range
    <3>2. QED
      BY <3>1 DEF IInv, WorkInv
  <2>2. spc \in {"start", "tell"} => idle' = idle
    BY ServerTakes DEF IInv, WorkInv
  <2>3. QED
    BY <2>1, <2>2 DEF IInv, WorkInv
<1>2. \A v \in Workers : v \in Range(idle) => v \in Range(idle')
  <2>1. CASE idle' = Append(idle, w)
    <3>1. idle \in Seq(Workers)
      BY DEF IInv, Types, TypeOK
    <3>2. \A i \in DOMAIN idle : i \in DOMAIN idle' /\ idle'[i] = idle[i]
      BY <2>1, <3>1
    <3>3. QED
      BY <3>2 DEF Range
  <2>2. QED
    BY <2>1
<1>3. idle' = Append(idle, w) => w \in Range(idle')
  <2> SUFFICES ASSUME idle' = Append(idle, w) PROVE w \in Range(idle')
    OBVIOUS
  <2>1. idle \in Seq(Workers)
    BY DEF IInv, Types, TypeOK
  <2>2. Len(idle) + 1 \in DOMAIN idle' /\ idle'[Len(idle) + 1] = w
    BY <2>1
  <2>3. QED
    BY <2>2 DEF Range
<1>4. IdleIsListed'
  <2> SUFFICES ASSUME NEW v \in workers, wpc'[v] = "asleep", pool'[v] = {}, workerLock = Free
               PROVE  v \in Range(idle')
    BY DEF IdleIsListed
  <2>1. v \in Workers
    BY DEF IInv, Types, TypeOK
  <2>2. CASE v = w
    BY <1>3, <2>2
  <2>3. CASE v # w
    BY <1>2, <2>1, <2>3 DEF IInv, IdleIsListed
  <2>4. QED
    BY <2>2, <2>3
<1>5. QED
  BY <1>1, <1>4

(* the steps of a worker, *)
LEMMA WorkerWork ==
  ASSUME IInv, Types', NEW w \in Workers, WorkerStep(w)
  PROVE  WorkInv' /\ IdleIsListed'
<1> USE DEF poolVars, serverVars
<1>1. /\ wpc \in [Workers -> {"none", "look", "report", "asleep", "try", "transfer",
                              "check", "mark", "remove", "notify", "callback", "end"}]
      /\ wjob \in [Workers -> Jobs \cup {NoJob}] /\ pool \in [Workers -> SUBSET Jobs]
  BY DEF IInv, Types, TypeOK
<1>2. /\ wjob[w] # NoJob <=> wpc[w] \in Busy
      /\ w \notin workers => wpc[w] = "none"
      /\ NoJob \notin Jobs
  BY SmallNumbers DEF IInv, WorkInv
<1>3. workerLock' = workerLock /\ joining' = joining /\ spc' = spc
  BY DEF WorkerStep
<1>4. CASE TakeJob(w)
  <2>1. PICK j \in pool[w] : /\ pool' = [pool EXCEPT ![w] = @ \ {j}]
                             /\ wjob' = [wjob EXCEPT ![w] = j]
    BY <1>4 DEF TakeJob
  <2>2. wpc' = [wpc EXCEPT ![w] = IF job[wjob'[w]].kind = "disconnect" THEN "check" ELSE "try"]
    BY <1>4 DEF TakeJob, Go
  <2>3. wjob'[w] # NoJob /\ wpc'[w] \in {"check", "try"}
    BY <1>1, <1>2, <2>1, <2>2
  <2>4. w \in workers /\ workers' = workers /\ idle' = idle
    BY <1>2, <1>4 DEF TakeJob
  <2>5. \A v \in Workers : v # w => wpc'[v] = wpc[v] /\ wjob'[v] = wjob[v] /\ pool'[v] = pool[v]
    BY <1>1, <2>1, <2>2
  <2>6. QED
    BY <1>3, <2>3, <2>4, <2>5, WorkMoves DEF Busy
<1>5. ASSUME NEW where \in {"look", "report", "asleep", "end", "transfer", "check", "mark",
                            "remove", "notify", "callback"},
             Go(w, where), pool' = pool, workers' = workers,
             \/ wjob' = wjob /\ (where \in Busy <=> wpc[w] \in Busy)
             \/ where = "look" /\ wjob' = [wjob EXCEPT ![w] = NoJob],
             wpc[w] # "none",
             \/ idle' = idle /\ where # "asleep"
             \/ idle' = Append(idle, w) /\ workerLock = Free
      PROVE  WorkInv' /\ IdleIsListed'
  <2>1. wpc'[w] = where /\ \A v \in Workers : v # w => wpc'[v] = wpc[v]
    BY <1>1, <1>5 DEF Go
  <2>2. \A v \in Workers : v # w => wjob'[v] = wjob[v] /\ pool'[v] = pool[v]
    BY <1>1, <1>5
  <2>3. wjob'[w] # NoJob <=> wpc'[w] \in Busy
    BY <1>1, <1>2, <1>5, <2>1 DEF Busy
  <2>4. w \in workers
    BY <1>2, <1>5
  <2>5. QED
    BY <1>3, <1>5, <2>1, <2>2, <2>3, <2>4, WorkMoves
<1>6. CASE NothingToDo(w)
  BY <1>5, <1>6 DEF NothingToDo, Busy
<1>7. CASE CallBackFunc(w)
  BY <1>5, <1>7 DEF CallBackFunc, Busy
<1>8. CASE Wake(w)
  BY <1>5, <1>8 DEF Wake, Busy
<1>9. CASE TryAgain(w)
  <2>1. pool' = [pool EXCEPT ![w] = @ \cup {wjob[w]}] /\ wjob' = [wjob EXCEPT ![w] = NoJob]
        /\ wpc' = [wpc EXCEPT ![w] = "look"] /\ w \in workers /\ workers' = workers /\ idle' = idle
    BY <1>2, <1>9 DEF TryAgain, Go
  <2>2. wjob'[w] = NoJob /\ wpc'[w] = "look"
    BY <1>1, <2>1
  <2>3. \A v \in Workers : v # w => wpc'[v] = wpc[v] /\ wjob'[v] = wjob[v] /\ pool'[v] = pool[v]
    BY <1>1, <2>1
  <2>4. QED
    BY <1>3, <2>1, <2>2, <2>3, WorkMoves DEF Busy
<1>10. CASE TryDone(w) \/ TransferDone(w) \/ KillOver(w)
  BY <1>5, <1>10 DEF TryDone, TransferDone, KillOver, Answer, Busy
<1>11. CASE TryFails(w) \/ TryReady(w)
  BY <1>5, <1>11 DEF TryFails, TryReady, Busy
<1>12. CASE KillCheck(w)
  BY <1>5, <1>12 DEF KillCheck, Busy
<1>13. CASE KillMark(w)
  BY <1>5, <1>13 DEF KillMark, Busy
<1>14. CASE KillRemove(w)
  BY <1>5, <1>14 DEF KillRemove, Busy
<1>15. CASE KillNotify(w)
  BY <1>5, <1>15 DEF KillNotify, Answer, Busy
<1>16. CASE JobEnd(w)
  BY <1>5, <1>16 DEF JobEnd, Busy
<1>17. QED
  BY <1>4, <1>6, <1>7, <1>8, <1>9, <1>10, <1>11, <1>12, <1>13, <1>14, <1>15,
     <1>16 DEF WorkerStep

(* A job that is made does not wait beside a worker that is listed, and    *)
(* who is taken off the list has it.                                       *)
LEMMA MakeWork ==
  ASSUME IInv, Types', NEW c \in Conns, NEW kind \in {"send", "receive", "disconnect"},
         Make(c, kind), UNCHANGED <<workers, workerLock, wpc, wjob, joining, spc>>
  PROVE  WorkInv' /\ IdleIsListed'
<1>1. pool \in [Workers -> SUBSET Jobs] /\ workers \subseteq Workers
  BY DEF IInv, Types, TypeOK
<1>2. CASE workers = {} /\ UNCHANGED <<idle, pool>>
  BY <1>2 DEF IInv, WorkInv, IdleIsListed
<1>3. CASE workers # {} /\ Place(pushed')
  <2> DEFINE j == pushed'
  <2>1. PICK w \in workers : pool' = [pool EXCEPT ![w] = @ \cup {j}]
    BY <1>3, PlaceWorks DEF IInv, WorkInv
  <2>2. /\ \A v \in Workers : (v \in Range(idle) /\ v \notin Range(idle')) => j \in pool'[v]
        /\ Range(idle') \subseteq workers
    BY <1>3, PlaceWorks DEF IInv, WorkInv
  <2> HIDE DEF j
  <2>3. \A v \in Workers : v # w => pool'[v] = pool[v]
    BY <1>1, <2>1
  <2>4. \A v \in Workers : pool[v] \subseteq pool'[v]
    BY <1>1, <2>1
  <2>5. spc \notin {"start", "tell"}
    BY ServerTakes DEF Make, IInv, WorkInv
  <2>6. WorkInv'
    BY <2>1, <2>2, <2>3, <2>5 DEF IInv, WorkInv
  <2>7. IdleIsListed'
    <3> SUFFICES ASSUME NEW v \in workers, wpc[v] = "asleep", pool'[v] = {}, workerLock = Free
                 PROVE  v \in Range(idle')
      BY DEF IdleIsListed
    <3>1. v \in Workers /\ pool[v] = {}
      BY <1>1, <2>4
    <3>2. QED
      BY <2>2, <3>1 DEF IInv, IdleIsListed
  <2>8. QED
    BY <2>6, <2>7
<1>4. QED
  BY <1>2, <1>3 DEF Make

(* and those of the server. *)
LEMMA ServerWork ==
  ASSUME IInv, Types', ServerStep \/ ServerCall
  PROVE  WorkInv' /\ IdleIsListed'
<1> USE DEF poolVars, workVars
<1>1. /\ pool \in [Workers -> SUBSET Jobs] /\ workers \subseteq Workers
      /\ wpc \in [Workers -> {"none", "look", "report", "asleep", "try", "transfer",
                              "check", "mark", "remove", "notify", "callback", "end"}]
      /\ wjob \in [Workers -> Jobs \cup {NoJob}]
  BY DEF IInv, Types, TypeOK
<1>2. WorkInv /\ IdleIsListed
  BY DEF IInv
<1>3. CASE StopKill
  <2>1. CASE UNCHANGED <<idle, pool>> /\ spc' \in {"kill", "clear", "crashed"}
    BY <1>2, <1>3, <2>1 DEF StopKill, WorkInv, IdleIsListed
  <2>2. ASSUME NEW c \in toKill, Make(c, "disconnect"), spc' = spc
        PROVE  WorkInv' /\ IdleIsListed'
    <3>1. c \in Conns
      BY DEF IInv, Types, TypeOK
    <3>2. UNCHANGED <<workers, workerLock, wpc, wjob, joining, spc>>
      BY <1>3, <2>2 DEF StopKill
    <3>3. QED
      BY <2>2, <3>1, <3>2, MakeWork
  <2>3. QED
    BY <1>3, <2>1, <2>2 DEF StopKill
<1>4. CASE StopClear
  BY <1>2, <1>4 DEF StopClear, WorkInv, IdleIsListed
<1>5. CASE StopLock \/ StartServer
  <2>1. idle' = <<>> /\ workerLock' = Server /\ UNCHANGED <<workers, pool, wpc, wjob, joining>>
        /\ spc' \in {"start", "tell"}
    BY <1>5 DEF StopLock, StartServer
  <2>2. Range(idle') = {}
    BY <2>1 DEF Range
  <2>3. WorkInv'
    BY <1>2, <2>1, <2>2 DEF WorkInv
  <2>4. IdleIsListed'
    BY <2>1, ServerTakes DEF IdleIsListed
  <2>5. QED
    BY <2>3, <2>4
<1>6. CASE Tell
  <2>1. workers \subseteq Nat /\ workers # {} /\ joining' = Min(workers)
    BY <1>1, <1>6, SmallNumbers DEF Tell
  <2>2. joining' \in workers
    BY <2>1, MinIsMember
  <2>3. QED
    BY <1>2, <1>6, <2>2 DEF Tell, WorkInv, IdleIsListed
<1>7. CASE Join
  <2>1. joining \in workers /\ spc \in {"start", "tell"} /\ idle = <<>> /\ workerLock = Server
    BY <1>2, <1>7 DEF Join, WorkInv
  <2>2. /\ pool' = [pool EXCEPT ![joining] = {}]
        /\ wpc' = [wpc EXCEPT ![joining] = "none"]
        /\ wjob' = [wjob EXCEPT ![joining] = NoJob]
        /\ workers' = workers \ {joining}
        /\ joining' = NoWorker
        /\ UNCHANGED <<idle, workerLock, spc>>
    BY <1>7 DEF Join
  <2>3. Range(idle) = {}
    BY <2>1 DEF Range
  <2>4. WorkInv'
    BY <1>1, <1>2, <2>1, <2>2, <2>3 DEF WorkInv, Busy
  <2>5. IdleIsListed'
    BY <2>1, <2>2, ServerTakes DEF IdleIsListed
  <2>6. QED
    BY <2>4, <2>5
<1>8. CASE StopUnlock
  BY <1>2, <1>8 DEF StopUnlock, WorkInv, IdleIsListed
<1>9. CASE CreateWorkers
  <2>1. /\ workers = {} /\ joining' = NoWorker /\ workers' = Workers /\ spc' = "idle"
        /\ idle' = [w \in Workers |-> w] /\ UNCHANGED <<pool, wjob>>
        /\ wpc' = [w \in Workers |-> IF options.eager THEN "look" ELSE "asleep"]
    BY <1>9 DEF CreateWorkers
  <2>2. Range(idle') = Workers
    BY <2>1 DEF Range
  <2>3. \A w \in Workers : wjob[w] = NoJob
    BY <1>2, <2>1 DEF WorkInv, Busy
  <2>4. QED
    BY <2>1, <2>2, <2>3 DEF WorkInv, IdleIsListed, Busy
<1>10. CASE StopServer
  BY <1>2, <1>10 DEF StopServer, WorkInv, IdleIsListed
<1>11. QED
  BY <1>3, <1>4, <1>5, <1>6, <1>7, <1>8, <1>9, <1>10 DEF ServerStep, ServerCall

-----------------------------------------------------------------------------
(* Where jobs are.                                                         *)

(* Jobs: the initial states. *)
LEMMA PlaceInit == Init => PlaceInv
BY DEF Init, PlaceInv, Held, Queued, InHand, NoJob, Jobs

(* What the types and the places say of one job. *)
LEMMA WhatIsWhere ==
  ASSUME IInv
  PROVE  /\ pool \in [Workers -> SUBSET Jobs] /\ wjob \in [Workers -> Jobs \cup {NoJob}]
         /\ answered \in [Jobs -> Nat] /\ dropped \subseteq Jobs /\ pushed \in Nat
         /\ \A k \in 1..pushed : k \in Jobs
         /\ NoJob \notin Jobs /\ PlaceInv
         /\ \A w \in Workers : wjob[w] # NoJob <=> wpc[w] \in Busy
         /\ wpc \in [Workers -> {"none", "look", "report", "asleep", "try", "transfer",
                                 "check", "mark", "remove", "notify", "callback", "end"}]
<1>1. NoJob \notin Jobs
  BY SmallNumbers
<1>2. pushed \in Nat /\ \A k \in 1..pushed : k \in Jobs
  BY SmallNumbers DEF IInv, Types, TypeOK
<1>3. QED
  BY <1>1, <1>2 DEF IInv, Types, TypeOK, WorkInv

(* A step that moves no job and answers none. *)
LEMMA PlaceStays ==
  ASSUME IInv, UNCHANGED <<pool, wjob, pushed, answered, dropped>>,
         \A w \in Workers : wjob[w] # NoJob => (wpc'[w] = "callback" <=> wpc[w] = "callback")
  PROVE  PlaceInv' /\ Held' = Held
<1>1. Held' = Held
  BY DEF Held, Queued, InHand
<1>2. \A j : InHand(j)' <=> InHand(j)
  BY DEF InHand
<1>3. QED
  BY <1>1, <1>2, WhatIsWhere DEF PlaceInv

(* A worker takes its next job from its own queue: the job stays held.     *)
LEMMA PlaceTaken ==
  ASSUME IInv, NEW w \in Workers, TakeJob(w), pushed' = pushed, dropped' = dropped
  PROVE  PlaceInv' /\ Held' = Held
<1>1. PICK j \in pool[w] : /\ pool' = [pool EXCEPT ![w] = @ \ {j}]
                           /\ wjob' = [wjob EXCEPT ![w] = j]
  BY DEF TakeJob
<1>2. wpc' = [wpc EXCEPT ![w] = IF job[wjob'[w]].kind = "disconnect" THEN "check" ELSE "try"]
      /\ answered' = answered
  BY DEF TakeJob, Go
<1>3. j \in Jobs /\ wjob[w] = NoJob
  BY <1>1, WhatIsWhere DEF TakeJob, Busy
<1>4. \A v \in Workers : \A k : k \in pool'[v] <=> k \in pool[v] /\ ~(v = w /\ k = j)
  BY <1>1, WhatIsWhere
<1>5. \A v \in Workers : wjob'[v] = IF v = w THEN j ELSE wjob[v]
  BY <1>1, WhatIsWhere
<1>6. \A v \in Workers : wpc'[v] = "callback" => wpc[v] = "callback" /\ v # w
  BY <1>2, WhatIsWhere
<1>7. \A v \in Workers : v # w => wpc'[v] = wpc[v]
  BY <1>2, WhatIsWhere
<1>8. Held' = Held
  <2>1. ASSUME NEW k \in Jobs PROVE (Queued(k)' \/ InHand(k)') <=> (Queued(k) \/ InHand(k))
    BY <1>1, <1>3, <1>4, <1>5 DEF Queued, InHand, NoJob, Jobs
  <2>2. QED
    BY <2>1 DEF Held
<1>9. answered[j] = 0 /\ j \notin dropped /\ ~InHand(j)
      /\ \A v \in Workers : j \in pool[v] => v = w
  BY <1>1, WhatIsWhere DEF PlaceInv
<1>10. \A k \in Jobs : InHand(k)' <=> k = j \/ InHand(k)
  BY <1>3, <1>5, WhatIsWhere DEF InHand
<1>11. \A v, u \in Workers : \A k \in pool'[v] : k \in pool'[u] => v = u
  BY <1>4, WhatIsWhere DEF PlaceInv
<1>12. \A v, u \in Workers : wjob'[v] # NoJob /\ wjob'[v] = wjob'[u] => v = u
  BY <1>5, <1>9, WhatIsWhere DEF PlaceInv, InHand
<1>13. \A v \in Workers : \A k \in pool'[v] :
         ~InHand(k)' /\ answered[k] = 0 /\ k \notin dropped
  BY <1>4, <1>9, <1>10, WhatIsWhere DEF PlaceInv
<1>14. \A v \in Workers : wjob'[v] # NoJob =>
         /\ wjob'[v] \notin dropped
         /\ answered[wjob'[v]] = IF wpc'[v] = "callback" THEN 1 ELSE 0
  BY <1>5, <1>6, <1>7, <1>9, WhatIsWhere DEF PlaceInv
<1>15. QED
  BY <1>2, <1>8, <1>11, <1>12, <1>13, <1>14, WhatIsWhere DEF PlaceInv

(* A job that could not be done yet goes back to the end of a queue: it    *)
(* stays held.                                                             *)
LEMMA PlaceAgain ==
  ASSUME IInv, NEW w \in Workers, TryAgain(w), pushed' = pushed, dropped' = dropped
  PROVE  PlaceInv' /\ Held' = Held
<1> DEFINE j == wjob[w]
<1>1. /\ pool' = [pool EXCEPT ![w] = @ \cup {j}] /\ wjob' = [wjob EXCEPT ![w] = NoJob]
      /\ wpc' = [wpc EXCEPT ![w] = "look"] /\ answered' = answered
  BY DEF TryAgain, Go
<1>2. j \in Jobs /\ j # NoJob /\ wpc[w] = "try"
  BY InHandIsHeld DEF TryAgain, Busy
<1> HIDE DEF j
<1>4. \A v \in Workers : \A k : k \in pool'[v] <=> k \in pool[v] \/ (v = w /\ k = j)
  BY <1>1, WhatIsWhere
<1>5. \A v \in Workers : wjob'[v] = IF v = w THEN NoJob ELSE wjob[v]
  BY <1>1, WhatIsWhere
<1>6. \A v \in Workers : v # w => wpc'[v] = wpc[v]
  BY <1>1, WhatIsWhere
<1>7. \A v \in Workers : wjob[v] = j <=> v = w
  BY <1>2, WhatIsWhere DEF PlaceInv, j
<1>8. \A k \in Jobs : InHand(k)' <=> InHand(k) /\ k # j
  BY <1>2, <1>5, <1>7, WhatIsWhere DEF InHand
<1>9. \A k \in Jobs : Queued(k)' <=> Queued(k) \/ k = j
  BY <1>4 DEF Queued
<1>10. Held' = Held
  <2>1. InHand(j)
    BY <1>7 DEF InHand
  <2>2. QED
    BY <1>2, <1>8, <1>9, <2>1 DEF Held
<1>11. answered[j] = 0 /\ j \notin dropped /\ \A v \in Workers : j \notin pool[v]
  <2>1. InHand(j)
    BY <1>7 DEF InHand
  <2>2. QED
    BY <1>2, <2>1, WhatIsWhere DEF PlaceInv, j
<1>12. \A v, u \in Workers : \A k \in pool'[v] : k \in pool'[u] => v = u
  BY <1>4, <1>11, WhatIsWhere DEF PlaceInv
<1>13. \A v, u \in Workers : wjob'[v] # NoJob /\ wjob'[v] = wjob'[u] => v = u
  BY <1>5, WhatIsWhere DEF PlaceInv
<1>14. \A v \in Workers : \A k \in pool'[v] :
         ~InHand(k)' /\ answered[k] = 0 /\ k \notin dropped
  BY <1>2, <1>4, <1>8, <1>11, WhatIsWhere DEF PlaceInv
<1>15. \A v \in Workers : wjob'[v] # NoJob =>
         /\ wjob'[v] \notin dropped
         /\ answered[wjob'[v]] = IF wpc'[v] = "callback" THEN 1 ELSE 0
  BY <1>5, <1>6, WhatIsWhere DEF PlaceInv
<1>16. QED
  BY <1>1, <1>10, <1>12, <1>13, <1>14, <1>15, WhatIsWhere DEF PlaceInv

(* A job that is answered is in the hands of the one worker that does it.  *)
LEMMA PlaceAnswered ==
  ASSUME IInv, NEW w \in Workers, wpc[w] \in Busy \ {"callback"}, Answer(w),
         UNCHANGED <<pool, wjob, pushed, dropped>>
  PROVE  PlaceInv' /\ Held' = Held
<1> DEFINE j == wjob[w]
<1>1. answered' = [answered EXCEPT ![j] = @ + 1] /\ wpc' = [wpc EXCEPT ![w] = "callback"]
  BY DEF Answer, Go
<1>2. j \in Jobs /\ j # NoJob /\ j \in 1..pushed
  BY InHandIsHeld DEF Busy
<1>3. InHand(j)
  BY DEF InHand
<1>4. answered[j] = 0
  BY <1>2, WhatIsWhere DEF PlaceInv
<1>5. \A v \in Workers : wjob[v] = j <=> v = w
  BY <1>2, WhatIsWhere DEF PlaceInv
<1> HIDE DEF j
<1>6. answered'[j] = 1 /\ \A k \in Jobs : k # j => answered'[k] = answered[k]
  BY <1>1, <1>2, <1>4, WhatIsWhere
<1>7. Held' = Held /\ \A k : InHand(k)' <=> InHand(k)
  BY DEF Held, Queued, InHand
<1>8. wpc'[w] = "callback" /\ \A v \in Workers : v # w => wpc'[v] = wpc[v]
  BY <1>1, WhatIsWhere
<1>9. \A v \in Workers : wjob[v] # NoJob =>
         /\ wjob[v] \notin dropped
         /\ answered'[wjob[v]] = IF wpc'[v] = "callback" THEN 1 ELSE 0
  BY <1>5, <1>6, <1>8, WhatIsWhere DEF PlaceInv
<1>10. \A k \in Jobs : k > pushed => k # j
  BY <1>2, WhatIsWhere
<1>11. \A v \in Workers : \A k \in pool[v] : k \in Jobs /\ k # j
  BY <1>3, WhatIsWhere DEF PlaceInv
<1>12. \A k \in Jobs : answered'[k] <= 1 /\ (answered[k] = 1 => answered'[k] = 1)
  BY <1>4, <1>6, WhatIsWhere DEF PlaceInv
<1>13. \A k \in 1..pushed : k \in Held \/ answered'[k] = 1 \/ k \in dropped
  BY <1>12, WhatIsWhere DEF PlaceInv
<1>14. QED
  BY <1>6, <1>7, <1>9, <1>10, <1>11, <1>12, <1>13, WhatIsWhere DEF PlaceInv

(* A worker that is through with its job no longer holds it. *)
LEMMA PlaceEnded ==
  ASSUME IInv, NEW w \in Workers, JobEnd(w), pushed' = pushed, dropped' = dropped
  PROVE  PlaceInv' /\ Held' = Held \ {wjob[w]}
<1> DEFINE j == wjob[w]
<1>1. /\ pool' = pool /\ wjob' = [wjob EXCEPT ![w] = NoJob]
      /\ wpc' = [wpc EXCEPT ![w] = "look"] /\ answered' = answered
  BY DEF JobEnd, Go, poolVars
<1>2. j \in Jobs /\ j # NoJob /\ wpc[w] = "callback"
  BY InHandIsHeld DEF JobEnd, Busy
<1>3. \A v \in Workers : wjob[v] = j <=> v = w
  BY <1>2, WhatIsWhere DEF PlaceInv
<1>4. answered[j] = 1
  BY <1>2, WhatIsWhere DEF PlaceInv
<1> HIDE DEF j
<1>5. \A v \in Workers : wjob'[v] = IF v = w THEN NoJob ELSE wjob[v]
  BY <1>1, WhatIsWhere
<1>6. \A v \in Workers : v # w => wpc'[v] = wpc[v]
  BY <1>1, WhatIsWhere
<1>7. \A k \in Jobs : InHand(k)' <=> InHand(k) /\ k # j
  BY <1>2, <1>3, <1>5, WhatIsWhere DEF InHand
<1>8. \A k \in Jobs : Queued(k)' <=> Queued(k)
  BY <1>1 DEF Queued
<1>9. ~Queued(j)
  <2>1. InHand(j)
    BY <1>3 DEF InHand
  <2>2. QED
    BY <2>1, WhatIsWhere DEF PlaceInv, Queued
<1>10. Held' = Held \ {j}
  BY <1>7, <1>8, <1>9 DEF Held
<1>11. \A v, u \in Workers : wjob'[v] # NoJob /\ wjob'[v] = wjob'[u] => v = u
  BY <1>5, WhatIsWhere DEF PlaceInv
<1>12. \A v \in Workers : \A k \in pool[v] :
         ~InHand(k)' /\ answered[k] = 0 /\ k \notin dropped
  BY <1>7, WhatIsWhere DEF PlaceInv
<1>13. \A v \in Workers : wjob'[v] # NoJob =>
         /\ wjob'[v] \notin dropped
         /\ answered[wjob'[v]] = IF wpc'[v] = "callback" THEN 1 ELSE 0
  BY <1>5, <1>6, WhatIsWhere DEF PlaceInv
<1>14. \A k \in 1..pushed : k \in Held' \/ answered[k] = 1 \/ k \in dropped
  BY <1>4, <1>10, WhatIsWhere DEF PlaceInv
<1>15. QED
  BY <1>1, <1>10, <1>11, <1>12, <1>13, <1>14, WhatIsWhere DEF PlaceInv, j

(* A job that is made is held, and nobody else holds it. *)
LEMMA PlaceMade ==
  ASSUME IInv, Types', NEW c \in Conns, NEW kind \in {"send", "receive", "disconnect"},
         Make(c, kind), UNCHANGED <<wpc, wjob, answered>>
  PROVE  /\ PlaceInv'
         /\ \/ Held' = Held \cup {pushed'} /\ refCount' = [refCount EXCEPT ![c] = @ + 1]
            \/ Held' = Held /\ refCount' = refCount
<1> DEFINE j == pushed'
<1>1. /\ j = pushed + 1 /\ j \in Jobs /\ j # NoJob
      /\ answered[j] = 0 /\ j \notin dropped /\ ~Queued(j) /\ ~InHand(j)
  <2>1. j = pushed + 1 /\ j \in Jobs
    BY MakeTypes DEF IInv, WorkInv
  <2>2. j > pushed /\ j # NoJob
    BY <2>1, WhatIsWhere
  <2>3. QED
    BY <2>1, <2>2, WhatIsWhere DEF PlaceInv, Held
<1>2. \A v \in Workers : wjob[v] # j
  BY <1>1 DEF InHand
<1>3. CASE workers = {} /\ UNCHANGED <<pool, refCount>> /\ dropped' = dropped \cup {j}
  <2> HIDE DEF j
  <2>1. Held' = Held /\ \A k : InHand(k)' <=> InHand(k)
    BY <1>3 DEF Held, Queued, InHand
  <2>2. \A k \in Jobs : k > j => k > pushed /\ k # j
    BY <1>1, WhatIsWhere, SmallNumbers
  <2>3. \A k \in 1..j : k \in 1..pushed \/ k = j
    BY <1>1, WhatIsWhere
  <2>4. \A k \in Jobs : k > j => answered[k] = 0 /\ k \notin dropped' /\ k \notin Held
    BY <1>3, <2>2, WhatIsWhere DEF PlaceInv
  <2>5. \A k \in 1..j : k \in Held \/ answered[k] = 1 \/ k \in dropped'
    BY <1>3, <2>3, WhatIsWhere DEF PlaceInv
  <2>6. \A v \in Workers : \A k \in pool[v] : k # j
    BY <1>1 DEF Queued
  <2>7. PlaceInv'
    BY <1>2, <1>3, <2>1, <2>4, <2>5, <2>6, WhatIsWhere DEF PlaceInv, j
  <2>8. QED
    BY <1>3, <2>1, <2>7
<1>4. CASE workers # {} /\ Place(j) /\ dropped' = dropped
           /\ refCount' = [refCount EXCEPT ![c] = @ + 1]
  <2>1. PICK w \in workers : pool' = [pool EXCEPT ![w] = @ \cup {j}]
    BY <1>4, PlaceWorks DEF IInv, WorkInv
  <2>2. w \in Workers
    BY DEF IInv, Types, TypeOK
  <2> HIDE DEF j
  <2>3. \A v \in Workers : \A k : k \in pool'[v] <=> k \in pool[v] \/ (v = w /\ k = j)
    BY <2>1, <2>2, WhatIsWhere
  <2>4. \A k : InHand(k)' <=> InHand(k)
    BY DEF InHand
  <2>5. \A k \in Jobs : Queued(k)' <=> Queued(k) \/ k = j
    BY <2>2, <2>3 DEF Queued
  <2>6. Held' = Held \cup {j}
    BY <1>1, <2>4, <2>5 DEF Held
  <2>7. \A k \in Jobs : k > j => k > pushed /\ k # j
    BY <1>1, WhatIsWhere, SmallNumbers
  <2>8. \A k \in 1..j : k \in 1..pushed \/ k = j
    BY <1>1, WhatIsWhere
  <2>9. \A k \in Jobs : k > j => answered[k] = 0 /\ k \notin dropped /\ k \notin Held'
    BY <2>6, <2>7, WhatIsWhere DEF PlaceInv
  <2>10. \A k \in 1..j : k \in Held' \/ answered[k] = 1 \/ k \in dropped
    BY <2>6, <2>8, WhatIsWhere DEF PlaceInv
  <2>11. \A v, u \in Workers : \A k \in pool'[v] : k \in pool'[u] => v = u
    BY <1>1, <2>3, WhatIsWhere DEF PlaceInv, Queued
  <2>12. \A v \in Workers : \A k \in pool'[v] :
           ~InHand(k) /\ answered[k] = 0 /\ k \notin dropped
    BY <1>1, <2>3, WhatIsWhere DEF PlaceInv
  <2>13. PlaceInv'
    BY <1>4, <2>4, <2>9, <2>10, <2>11, <2>12, WhatIsWhere DEF PlaceInv, j
  <2>14. QED
    BY <1>4, <2>6, <2>13 DEF j
<1>5. QED
  BY <1>3, <1>4 DEF Make

(* The worker w is joined and its thread deleted. *)
LEMMA PlaceJoined ==
  ASSUME IInv, NEW w \in Workers, w = joining, Join, UNCHANGED <<pushed, answered>>
  PROVE  PlaceInv' /\ Held' = Held \ (pool[w] \cup {wjob[w]})
<1>1. /\ pool' = [pool EXCEPT ![w] = {}] /\ wjob' = [wjob EXCEPT ![w] = NoJob]
      /\ wpc' = [wpc EXCEPT ![w] = "none"]
      /\ dropped' = dropped \cup pool[w] \cup ({wjob[w]} \ ({NoJob} \cup {j \in Jobs : answered[j] > 0}))
  BY DEF Join
<1>2. \A v \in Workers : \A k : k \in pool'[v] <=> k \in pool[v] /\ v # w
  BY <1>1, WhatIsWhere
<1>3. \A v \in Workers : wjob'[v] = IF v = w THEN NoJob ELSE wjob[v]
  BY <1>1, WhatIsWhere
<1>4. \A v \in Workers : v # w => wpc'[v] = wpc[v]
  BY <1>1, WhatIsWhere
<1>5. \A k \in Jobs : InHand(k)' <=> InHand(k) /\ k # wjob[w]
  <2> SUFFICES ASSUME NEW k \in Jobs PROVE InHand(k)' <=> InHand(k) /\ k # wjob[w]
    OBVIOUS
  <2>1. k # NoJob
    BY WhatIsWhere
  <2>2. \A v \in Workers : wjob[v] = k /\ k = wjob[w] => v = w
    BY <2>1, WhatIsWhere DEF PlaceInv
  <2>3. QED
    BY <1>3, <2>1, <2>2 DEF InHand
<1>6. \A k \in Jobs : Queued(k)' <=> Queued(k) /\ k \notin pool[w]
  BY <1>2, WhatIsWhere DEF PlaceInv, Queued
<1>7. \A k \in Jobs : k \in pool[w] => ~InHand(k)
  BY WhatIsWhere DEF PlaceInv
<1>8. \A k \in Jobs : k = wjob[w] => ~Queued(k)
  BY WhatIsWhere DEF PlaceInv, Queued, InHand
<1>9. Held' = Held \ (pool[w] \cup {wjob[w]})
  BY <1>5, <1>6, <1>7, <1>8 DEF Held
<1>10. \A k : k \in dropped' <=>
                \/ k \in dropped
                \/ k \in pool[w]
                \/ k = wjob[w] /\ k # NoJob /\ ~(k \in Jobs /\ answered[k] > 0)
  <2> DEFINE done == {j \in Jobs : answered[j] > 0}
             p == pool[w]
             h == wjob[w]
  <2>1. dropped' = dropped \cup p \cup ({h} \ ({NoJob} \cup done))
    BY <1>1
  <2>2. \A k : k \in done <=> k \in Jobs /\ answered[k] > 0
    OBVIOUS
  <2> HIDE DEF done, p, h
  <2>3. \A k : k \in dropped' <=> k \in dropped \/ k \in p \/ (k = h /\ k # NoJob /\ k \notin done)
    BY <2>1
  <2>4. QED
    BY <2>2, <2>3 DEF p, h
<1>11. \A v, u \in Workers : \A k \in pool'[v] : k \in pool'[u] => v = u
  BY <1>2, WhatIsWhere DEF PlaceInv
<1>12. \A v, u \in Workers : wjob'[v] # NoJob /\ wjob'[v] = wjob'[u] => v = u
  BY <1>3, WhatIsWhere DEF PlaceInv
<1>13. \A v \in Workers : \A k \in pool'[v] :
         ~InHand(k)' /\ answered[k] = 0 /\ k \notin dropped'
  <2> SUFFICES ASSUME NEW v \in Workers, NEW k \in pool'[v]
               PROVE  ~InHand(k)' /\ answered[k] = 0 /\ k \notin dropped'
    OBVIOUS
  <2>1. k \in pool[v] /\ v # w /\ k \in Jobs
    BY <1>2, WhatIsWhere
  <2>2. ~InHand(k) /\ answered[k] = 0 /\ k \notin dropped /\ k \notin pool[w]
    BY <2>1, WhatIsWhere DEF PlaceInv
  <2>3. k # wjob[w]
    BY <2>2 DEF InHand
  <2>4. QED
    BY <1>5, <1>10, <2>1, <2>2, <2>3
<1>14. \A v \in Workers : wjob'[v] # NoJob =>
         /\ wjob'[v] \notin dropped'
         /\ answered[wjob'[v]] = IF wpc'[v] = "callback" THEN 1 ELSE 0
  <2> SUFFICES ASSUME NEW v \in Workers, wjob'[v] # NoJob
               PROVE  /\ wjob'[v] \notin dropped'
                      /\ answered[wjob'[v]] = IF wpc'[v] = "callback" THEN 1 ELSE 0
    OBVIOUS
  <2>1. v # w /\ wjob'[v] = wjob[v] /\ wpc'[v] = wpc[v] /\ wjob[v] # NoJob
    BY <1>3, <1>4
  <2>2. wjob[v] # wjob[w] /\ wjob[v] \notin dropped
        /\ answered[wjob[v]] = IF wpc[v] = "callback" THEN 1 ELSE 0
    BY <2>1, WhatIsWhere DEF PlaceInv
  <2>3. wjob[v] \notin pool[w]
    BY <2>1, WhatIsWhere DEF PlaceInv, InHand
  <2>4. QED
    BY <1>10, <2>1, <2>2, <2>3
<1>15. \A k \in Jobs : k > pushed => k \notin dropped' /\ k \notin Held'
  <2> SUFFICES ASSUME NEW k \in Jobs, k > pushed PROVE k \notin dropped' /\ k \notin Held'
    OBVIOUS
  <2>1. k \notin dropped /\ k \notin Held
    BY WhatIsWhere DEF PlaceInv
  <2>2. k \notin pool[w] /\ k # wjob[w]
    BY <2>1 DEF Held, Queued, InHand
  <2>3. QED
    BY <1>9, <1>10, <2>1, <2>2
<1>16. \A k \in 1..pushed : k \in Held' \/ answered[k] = 1 \/ k \in dropped'
  <2> SUFFICES ASSUME NEW k \in 1..pushed, k \in pool[w] \cup {wjob[w]}, answered[k] # 1
               PROVE  k \in dropped'
    BY <1>9, <1>10, WhatIsWhere DEF PlaceInv
  <2>1. k \in Jobs /\ k # NoJob /\ answered[k] \in Nat /\ answered[k] <= 1
    BY WhatIsWhere DEF PlaceInv
  <2>2. ~(answered[k] > 0)
    BY <2>1
  <2>3. QED
    BY <1>10, <2>1, <2>2
<1>17. QED
  BY <1>9, <1>11, <1>12, <1>13, <1>14, <1>15, <1>16, WhatIsWhere DEF PlaceInv

-----------------------------------------------------------------------------
(* References, and the end of connections.                                 *)

(* References and ends: the initial states. *)
LEMMA RefInit == Init => RefInv /\ EndInv
<1> SUFFICES ASSUME Init PROVE RefInv /\ EndInv
  OBVIOUS
<1>1. \A c \in Conns : HeldOf(c) = {}
  BY DEF Init, HeldOf, Held, Queued, InHand, Jobs, NoJob
<1>2. \A c \in Conns : Own(c) = 0 /\ Cardinality(HeldOf(c)) = 0
  BY <1>1, FS_EmptySet DEF Init, Own
<1>3. \A c \in Conns : refCount[c] = 0 /\ life[c] = "unborn" /\ ended[c] = 0
  BY DEF Init
<1>4. \A w \in Workers : wpc[w] = "none"
  BY DEF Init
<1>5. QED
  BY <1>2, <1>3, <1>4 DEF RefInv, EndInv

(* Counts of references after a step. *)
LEMMA NextCounts ==
  ASSUME NEW c \in Conns
  PROVE  Cardinality(HeldOf(c)') \in Nat /\ Own(c)' \in {0, 1} /\ IsFiniteSet(HeldOf(c)')
         /\ HeldOf(c)' \subseteq Jobs
<1>1. HeldOf(c)' \subseteq Jobs
  BY DEF HeldOf, Held
<1>2. QED
  BY <1>1, JobSets DEF Own

(* A step that is not about the end of a connection. *)
LEMMA RefStays ==
  ASSUME IInv, Held' = Held, UNCHANGED <<job, options, refCount, life, alive, ended>>,
         listed' \cup retired' = listed \cup retired,
         \A w \in Workers : wpc[w] \in {"remove", "notify"} =>
                              wpc'[w] \in {"remove", "notify"} /\ wjob'[w] = wjob[w],
         \A w \in Workers : wpc'[w] \in {"remove", "notify"} => ~alive[job[wjob'[w]].conn]
  PROVE  RefInv' /\ EndInv'
<1>1. \A c \in Conns : HeldOf(c)' = HeldOf(c) /\ Own(c)' = Own(c)
  BY DEF HeldOf, Own
<1>2. RefInv'
  BY <1>1 DEF IInv, RefInv
<1>3. \A c \in Conns : Telling(c) => Telling(c)'
  BY DEF Telling, JobConn
<1>4. \A w \in Workers : wpc'[w] \in {"remove", "notify"} => ~alive'[JobConn(w)']
  BY DEF JobConn
<1>5. EndInv'
  BY <1>1, <1>3, <1>4 DEF IInv, EndInv
<1>6. QED
  BY <1>2, <1>5

(* Whatever references are released, if the counts of all connections stay *)
(* right and no end is forgotten, references and ends are kept.            *)
LEMMA ReleaseEnds ==
  ASSUME IInv, Types', NEW cs, Release(cs), options' = options,
         \A c \in Conns :
           /\ cs[c] \in Nat
           /\ cs[c] + Own(c)' + Cardinality(HeldOf(c)') <= Own(c) + Cardinality(HeldOf(c))
           /\ options.forever =>
                cs[c] + Own(c)' + Cardinality(HeldOf(c)') = Own(c) + Cardinality(HeldOf(c))
           /\ Telling(c) =>
                \/ Telling(c)'
                \/ cs[c] + Own(c)' + Cardinality(HeldOf(c)') < Own(c) + Cardinality(HeldOf(c)),
         \A w \in Workers : wpc'[w] \in {"remove", "notify"} =>
                              wpc[w] \in {"remove", "notify"} /\ JobConn(w)' = JobConn(w)
  PROVE  RefInv' /\ EndInv'
<1> DEFINE dying == {c \in Conns : cs[c] > 0 /\ refCount[c] = cs[c]}
<1>1. /\ refCount' = [c \in Conns |-> refCount[c] - cs[c]]
      /\ life' = [c \in Conns |-> IF c \in dying THEN "dead" ELSE life[c]]
      /\ alive' = [c \in Conns |-> alive[c] /\ c \notin dying]
      /\ ended' = [c \in Conns |->
                     IF c \in dying /\ alive[c] THEN ended[c] + 1 ELSE ended[c]]
  BY DEF Release
<1>2. \A c \in Conns : c \in dying <=> cs[c] > 0 /\ refCount[c] = cs[c]
  OBVIOUS
<1> HIDE DEF dying
<1>3. \A c \in Conns : /\ refCount'[c] = refCount[c] - cs[c]
                       /\ life'[c] = IF c \in dying THEN "dead" ELSE life[c]
                       /\ alive'[c] <=> alive[c] /\ c \notin dying
                       /\ ended'[c] = IF c \in dying /\ alive[c] THEN ended[c] + 1 ELSE ended[c]
  BY <1>1
<1>4. \A c \in Conns : ended[c] \in Nat /\ alive[c] \in BOOLEAN
  BY DEF IInv, Types, TypeOK
<1>5. ASSUME NEW c \in Conns
      PROVE  /\ refCount'[c] >= Own(c)' + Cardinality(HeldOf(c)')
             /\ options.forever => refCount'[c] = Own(c)' + Cardinality(HeldOf(c)')
             /\ life'[c] # "live" => refCount'[c] = 0
             /\ life'[c] = "live" /\ ~alive'[c] /\ ended'[c] = 0
                  => Telling(c)' \/ refCount'[c] > Own(c)' + Cardinality(HeldOf(c)')
             /\ life'[c] = "unborn" => ended'[c] = 0
             /\ life'[c] = "dead" => ended'[c] > 0
             /\ ended'[c] > 0 => ~alive'[c]
  <2> DEFINE n == cs[c]
             o == Own(c)
             h == Cardinality(HeldOf(c))
             o1 == Own(c)'
             h1 == Cardinality(HeldOf(c)')
             r == refCount[c]
  <2>1. n \in Nat /\ o \in Nat /\ h \in Nat /\ r \in Nat
    BY Counts DEF IInv
  <2>2. o1 \in Nat /\ h1 \in Nat
    BY NextCounts
  <2>3. n + o1 + h1 <= o + h /\ (options.forever => n + o1 + h1 = o + h)
    OBVIOUS
  <2>4. r >= o + h /\ (options.forever => r = o + h) /\ (life[c] # "live" => r = 0)
    BY DEF IInv, RefInv
  <2>5. Telling(c) => Telling(c)' \/ n + o1 + h1 < o + h
    OBVIOUS
  <2>6. /\ life[c] = "live" /\ ~alive[c] /\ ended[c] = 0 => Telling(c) \/ r > o + h
        /\ life[c] = "unborn" => ended[c] = 0
        /\ life[c] = "dead" => ended[c] > 0
        /\ ended[c] > 0 => ~alive[c]
    BY DEF IInv, EndInv
  <2>7. Telling(c)' => h1 > 0
    <3> SUFFICES ASSUME Telling(c)' PROVE h1 > 0
      OBVIOUS
    <3>1. PICK w \in Workers : wjob'[w] # NoJob /\ JobConn(w)' = c
      BY DEF Telling
    <3>2. wjob'[w] \in Jobs
      BY <3>1 DEF Types, TypeOK
    <3>3. wjob'[w] \in HeldOf(c)'
      BY <3>1, <3>2 DEF HeldOf, Held, InHand, JobConn
    <3>4. HeldOf(c)' # {} /\ HeldOf(c)' \subseteq Jobs
      BY <3>3, NextCounts
    <3>5. h1 # 0
      BY <3>4, JobSets
    <3>6. QED
      BY <2>2, <3>5
  <2>8. c \in dying <=> n > 0 /\ r = n
    BY <1>2
  <2> HIDE DEF n, o, h, o1, h1, r
  <2>9. CASE c \in dying
    <3>1. o1 = 0 /\ h1 = 0 /\ r = o + h /\ n = o + h /\ n > 0
      BY <2>1, <2>2, <2>3, <2>4, <2>8, <2>9
    <3>2. ~Telling(c)' /\ ~Telling(c)
      BY <2>1, <2>2, <2>5, <2>7, <3>1
    <3>3. life[c] = "live"
      BY <2>1, <2>4, <2>8, <2>9
    <3>4. ~alive[c] => ended[c] > 0
      BY <1>4, <2>1, <2>6, <3>1, <3>2, <3>3
    <3>5. /\ refCount'[c] = 0 /\ life'[c] = "dead" /\ ~alive'[c] /\ ended'[c] > 0
      <4>1. refCount'[c] = r - n /\ life'[c] = "dead" /\ ~alive'[c]
        BY <1>3, <2>9 DEF r, n
      <4>2. ended'[c] > 0
        BY <1>3, <1>4, <2>9, <3>4
      <4>3. QED
        BY <2>1, <2>8, <2>9, <4>1, <4>2
    <3>6. QED
      BY <3>1, <3>5 DEF o1, h1
  <2>10. CASE c \notin dying
    <3>1. refCount'[c] = r - n
      BY <1>3 DEF r, n
    <3>2. life'[c] = life[c] /\ alive'[c] = alive[c] /\ ended'[c] = ended[c]
      BY <1>1, <1>4, <2>10
    <3>3. r - n >= o1 + h1 /\ (options.forever => r - n = o1 + h1)
      BY <2>1, <2>2, <2>3, <2>4
    <3>4. r = 0 => r - n = 0
      BY <2>1, <2>2, <2>3, <2>4
    <3>5. r > o + h => r - n > o1 + h1
      BY <2>1, <2>2, <2>3
    <3>6. n + o1 + h1 < o + h => r - n > o1 + h1
      BY <2>1, <2>2, <2>4
    <3>7. QED
      BY <2>4, <2>5, <2>6, <3>1, <3>2, <3>3, <3>4, <3>5, <3>6 DEF o1, h1
  <2>11. QED
    BY <2>9, <2>10
<1>6. \A w \in Workers : wpc'[w] \in {"remove", "notify"} => ~alive'[JobConn(w)']
  <2> SUFFICES ASSUME NEW w \in Workers, wpc'[w] \in {"remove", "notify"}
               PROVE  ~alive'[JobConn(w)']
    OBVIOUS
  <2>1. wpc[w] \in {"remove", "notify"} /\ JobConn(w)' = JobConn(w)
    OBVIOUS
  <2>2. JobConn(w) \in Conns
    BY <2>1, InHandIsHeld DEF Busy
  <2>3. ~alive[JobConn(w)]
    BY <2>1 DEF IInv, EndInv
  <2>4. QED
    BY <1>3, <2>1, <2>2, <2>3
<1>7. RefInv'
  BY <1>5 DEF RefInv
<1>8. EndInv'
  BY <1>5, <1>6 DEF EndInv
<1>9. QED
  BY <1>7, <1>8

(* The worker marks its connection as dead: it will tell the end. *)
LEMMA MarkEnds ==
  ASSUME IInv, Types', NEW w \in Workers, KillMark(w), job' = job, UNCHANGED <<options,
         pushed, dropped>>
  PROVE  PlaceInv' /\ RefInv' /\ EndInv'
<1>0. PICK c : c = JobConn(w)
  OBVIOUS
<1>1. /\ wpc[w] = "mark" /\ wpc' = [wpc EXCEPT ![w] = "remove"]
      /\ alive' = [alive EXCEPT ![c] = FALSE]
      /\ UNCHANGED <<pool, wjob, listed, retired, refCount, life, answered, ended>>
  BY <1>0 DEF KillMark, Go, poolVars, objectVars
<1>2. c \in Conns /\ wjob[w] # NoJob
  BY <1>0, <1>1, InHandIsHeld DEF Busy
<1>3. \A v \in Workers : wpc'[v] = IF v = w THEN "remove" ELSE wpc[v]
  BY <1>1, WhatIsWhere
<1>4. PlaceInv' /\ Held' = Held
  BY <1>1, <1>3, PlaceStays
<1>5. \A d \in Conns : HeldOf(d)' = HeldOf(d) /\ Own(d)' = Own(d)
  BY <1>1, <1>4 DEF HeldOf, Own
<1>6. RefInv'
  BY <1>1, <1>5 DEF IInv, RefInv
<1>7. \A v \in Workers : JobConn(v)' = JobConn(v)
  BY <1>1 DEF JobConn
<1>8. Telling(c)' /\ \A d \in Conns : Telling(d) => Telling(d)'
  BY <1>0, <1>1, <1>2, <1>3, <1>7 DEF Telling
<1>9. \A d \in Conns : alive'[d] <=> alive[d] /\ d # c
  BY <1>1 DEF IInv, Types, TypeOK
<1>10. \A v \in Workers : wpc'[v] \in {"remove", "notify"} => ~alive'[JobConn(v)']
  <2> SUFFICES ASSUME NEW v \in Workers, wpc'[v] \in {"remove", "notify"}
               PROVE  ~alive'[JobConn(v)']
    OBVIOUS
  <2>1. CASE v = w
    BY <1>0, <1>2, <1>7, <1>9, <2>1
  <2>2. CASE v # w
    <3>1. wpc[v] \in {"remove", "notify"}
      BY <1>3, <2>2
    <3>2. JobConn(v) \in Conns /\ ~alive[JobConn(v)]
      BY <3>1, InHandIsHeld DEF Busy, IInv, EndInv
    <3>3. QED
      BY <1>7, <1>9, <3>2
  <2>3. QED
    BY <2>1, <2>2
<1>11. EndInv'
  <2>1. /\ \A d \in Conns : life[d] = "live" /\ ~alive[d] /\ ended[d] = 0
              => Telling(d) \/ refCount[d] > Own(d) + Cardinality(HeldOf(d))
        /\ \A d \in Conns : life[d] = "unborn" => ended[d] = 0
        /\ \A d \in Conns : life[d] = "dead" => ended[d] > 0
        /\ \A d \in Conns : ended[d] > 0 => ~alive[d]
    BY DEF IInv, EndInv
  <2>2. \A d \in Conns : life[d] = "live" /\ ~alive'[d] /\ ended[d] = 0
              => Telling(d)' \/ refCount[d] > Own(d) + Cardinality(HeldOf(d))
    BY <1>8, <1>9, <2>1
  <2>3. \A d \in Conns : ended[d] > 0 => ~alive'[d]
    BY <1>9, <2>1
  <2>4. QED
    BY <1>1, <1>5, <1>10, <2>1, <2>2, <2>3 DEF EndInv
<1>12. QED
  BY <1>4, <1>6, <1>11

(* The worker tells the end. *)
LEMMA NotifyEnds ==
  ASSUME IInv, Types', NEW w \in Workers, KillNotify(w), job' = job, UNCHANGED <<options,
         pushed, dropped>>
  PROVE  PlaceInv' /\ RefInv' /\ EndInv'
<1>0. PICK c : c = JobConn(w)
  OBVIOUS
<1>1. /\ wpc[w] = "notify" /\ wpc' = [wpc EXCEPT ![w] = "callback"] /\ Answer(w)
      /\ ended' = [ended EXCEPT ![c] = @ + 1]
      /\ UNCHANGED <<pool, wjob, alive, listed, retired, refCount, life>>
  BY <1>0 DEF KillNotify, Answer, Go, poolVars, objectVars, connVars
<1>2. c \in Conns /\ wjob[w] # NoJob /\ life[c] = "live" /\ ~alive[c]
  BY <1>0, <1>1, InHandIsHeld DEF Busy, IInv, EndInv
<1>3. \A v \in Workers : wpc'[v] = IF v = w THEN "callback" ELSE wpc[v]
  BY <1>1, WhatIsWhere
<1>4. PlaceInv' /\ Held' = Held
  BY <1>1, PlaceAnswered DEF Busy
<1>5. \A d \in Conns : HeldOf(d)' = HeldOf(d) /\ Own(d)' = Own(d)
  BY <1>1, <1>4 DEF HeldOf, Own
<1>6. RefInv'
  BY <1>1, <1>5 DEF IInv, RefInv
<1>7. \A v \in Workers : JobConn(v)' = JobConn(v)
  BY <1>1 DEF JobConn
<1>8. \A d \in Conns : Telling(d) /\ d # c => Telling(d)'
  BY <1>0, <1>1, <1>3, <1>7 DEF Telling
<1>9. \A d \in Conns : ended'[d] = IF d = c THEN ended[d] + 1 ELSE ended[d]
  BY <1>1 DEF IInv, Types, TypeOK
<1>10. \A v \in Workers : wpc'[v] \in {"remove", "notify"} => ~alive[JobConn(v)']
  BY <1>3, <1>7 DEF IInv, EndInv
<1>11. ended[c] \in Nat
  BY <1>2 DEF IInv, Types, TypeOK
<1>12. ended'[c] > 0
  BY <1>2, <1>9, <1>11
<1>13. EndInv'
  BY <1>1, <1>2, <1>5, <1>8, <1>9, <1>10, <1>12 DEF IInv, EndInv
<1>14. QED
  BY <1>4, <1>6, <1>13

(* The worker has released its job. *)
LEMMA EndReleases ==
  ASSUME IInv, Types', NEW w \in Workers, JobEnd(w), job' = job, UNCHANGED <<options, pushed,
         dropped>>
  PROVE  PlaceInv' /\ RefInv' /\ EndInv'
<1>0. PICK c, j : c = JobConn(w) /\ j = wjob[w]
  OBVIOUS
<1> DEFINE cs == [d \in Conns |-> IF d = c THEN 1 ELSE 0]
<1>1. /\ wpc[w] = "callback" /\ wpc' = [wpc EXCEPT ![w] = "look"]
      /\ wjob' = [wjob EXCEPT ![w] = NoJob]
      /\ UNCHANGED <<listed, retired>> /\ Release(cs)
  BY <1>0 DEF JobEnd, Go, ReleaseOne
<1>2. c \in Conns /\ j \in Jobs /\ j \in HeldOf(c)
  BY <1>0, <1>1, InHandIsHeld DEF Busy
<1>3. PlaceInv' /\ Held' = Held \ {j}
  BY <1>0, PlaceEnded
<1>4. job[j].conn = c
  BY <1>0 DEF JobConn
<1>5. HeldOf(c)' = HeldOf(c) \ {j} /\ \A d \in Conns : d # c => HeldOf(d)' = HeldOf(d)
  <2>1. \A d, k : k \in HeldOf(d)' <=> k \in HeldOf(d) /\ k # j
    BY <1>3 DEF HeldOf
  <2>2. \A d : d # c => j \notin HeldOf(d)
    BY <1>4 DEF HeldOf
  <2>3. QED
    BY <2>1, <2>2
<1>6. \A d \in Conns : Own(d)' = Own(d)
  BY <1>1 DEF Own
<1>7. \A v \in Workers : wpc'[v] = (IF v = w THEN "look" ELSE wpc[v]) /\ (v # w => wjob'[v] = wjob[v])
  BY <1>1, WhatIsWhere
<1>8. \A d : Telling(d) => Telling(d)'
  BY <1>1, <1>7 DEF Telling, JobConn
<1>9. \A v \in Workers : wpc'[v] \in {"remove", "notify"} =>
                           wpc[v] \in {"remove", "notify"} /\ JobConn(v)' = JobConn(v)
  BY <1>7 DEF JobConn
<1>10. /\ Cardinality(HeldOf(c)') = Cardinality(HeldOf(c)) - 1
       /\ \A d \in Conns : d # c => Cardinality(HeldOf(d)') = Cardinality(HeldOf(d))
  BY <1>2, <1>5, Counts, FS_RemoveElement DEF IInv
<1>11. \A d \in Conns : cs[d] = IF d = c THEN 1 ELSE 0
  OBVIOUS
<1>12. \A d \in Conns : Cardinality(HeldOf(d)) \in Nat /\ Own(d) \in {0, 1}
  BY Counts DEF IInv
<1> HIDE DEF cs
<1>13. \A d \in Conns : cs[d] \in Nat
         /\ cs[d] + Own(d)' + Cardinality(HeldOf(d)') = Own(d) + Cardinality(HeldOf(d))
  <2> SUFFICES ASSUME NEW d \in Conns
               PROVE  /\ cs[d] \in Nat
                      /\ cs[d] + Own(d)' + Cardinality(HeldOf(d)')
                           = Own(d) + Cardinality(HeldOf(d))
    OBVIOUS
  <2>1. Own(d)' = Own(d) /\ Own(d) \in Nat /\ Cardinality(HeldOf(d)) \in Nat
    BY <1>6, <1>12
  <2>2. CASE d = c
    BY <1>10, <1>11, <2>1, <2>2
  <2>3. CASE d # c
    BY <1>10, <1>11, <2>1, <2>3
  <2>4. QED
    BY <2>2, <2>3
<1>14. \A d \in Conns : cs[d] + Own(d)' + Cardinality(HeldOf(d)') <= Own(d) + Cardinality(HeldOf(d))
  BY <1>12, <1>13
<1>15. RefInv' /\ EndInv'
  BY <1>1, <1>8, <1>9, <1>13, <1>14, ReleaseEnds
<1>16. QED
  BY <1>3, <1>15

(* The steps of a worker keep places, references and ends, *)
LEMMA WorkerRest ==
  ASSUME IInv, Types', NEW w \in Workers, WorkerStep(w)
  PROVE  PlaceInv' /\ RefInv' /\ EndInv'
<1> USE DEF poolVars, connVars, objectVars
<1>1. UNCHANGED <<options, job, pushed, dropped>>
  BY DEF WorkerStep, jobVars
<1>2. wpc \in [Workers -> {"none", "look", "report", "asleep", "try", "transfer",
                           "check", "mark", "remove", "notify", "callback", "end"}]
      /\ \A v \in Workers : wjob[v] # NoJob <=> wpc[v] \in Busy
  BY WhatIsWhere
<1>3. \A v \in Workers : wpc[v] \in {"remove", "notify"} => ~alive[job[wjob[v]].conn]
  BY DEF IInv, EndInv, JobConn
<1>4. ASSUME NEW where \in {"look", "report", "asleep", "end", "transfer", "check", "mark", "notify"},
             Go(w, where), UNCHANGED <<pool, wjob, answered, alive, refCount, life, ended>>,
             listed' \cup retired' = listed \cup retired,
             wjob[w] # NoJob => wpc[w] # "callback",
             where = "notify" => ~alive[JobConn(w)],
             wpc[w] \in {"remove", "notify"} => where = "notify"
      PROVE  PlaceInv' /\ RefInv' /\ EndInv'
  <2>1. \A v \in Workers : wpc'[v] = IF v = w THEN where ELSE wpc[v]
    BY <1>2, <1>4 DEF Go
  <2>2. PlaceInv' /\ Held' = Held
    BY <1>1, <1>4, <2>1, PlaceStays
  <2>3. \A v \in Workers : wpc[v] \in {"remove", "notify"} =>
                              wpc'[v] \in {"remove", "notify"} /\ wjob'[v] = wjob[v]
    BY <1>4, <2>1
  <2>4. \A v \in Workers : wpc'[v] \in {"remove", "notify"} => ~alive[job[wjob'[v]].conn]
    BY <1>3, <1>4, <2>1 DEF JobConn
  <2>5. QED
    BY <1>1, <1>4, <2>2, <2>3, <2>4, RefStays
<1>5. CASE TakeJob(w)
  <2>1. PlaceInv' /\ Held' = Held
    BY <1>1, <1>5, PlaceTaken
  <2>2. /\ \A v \in Workers : v # w => wpc'[v] = wpc[v] /\ wjob'[v] = wjob[v]
        /\ wpc'[w] \in {"check", "try"} /\ wpc[w] = "look"
        /\ UNCHANGED <<refCount, life, alive, ended, listed, retired>>
    BY <1>2, <1>5, WhatIsWhere DEF TakeJob, Go
  <2>3. \A v \in Workers : wpc[v] \in {"remove", "notify"} =>
                              wpc'[v] \in {"remove", "notify"} /\ wjob'[v] = wjob[v]
    BY <2>2
  <2>4. \A v \in Workers : wpc'[v] \in {"remove", "notify"} => ~alive[job[wjob'[v]].conn]
    BY <1>3, <2>2
  <2>5. QED
    BY <1>1, <2>1, <2>2, <2>3, <2>4, RefStays
<1>6. CASE NothingToDo(w)
  BY <1>4, <1>6 DEF NothingToDo
<1>7. CASE CallBackFunc(w)
  BY <1>4, <1>7 DEF CallBackFunc
<1>8. CASE Wake(w)
  BY <1>4, <1>8 DEF Wake
<1>9. CASE TryAgain(w)
  <2>1. PlaceInv' /\ Held' = Held
    BY <1>1, <1>9, PlaceAgain
  <2>2. /\ \A v \in Workers : v # w => wpc'[v] = wpc[v] /\ wjob'[v] = wjob[v]
        /\ wpc'[w] = "look" /\ wpc[w] = "try"
        /\ UNCHANGED <<refCount, life, alive, ended, listed, retired>>
    BY <1>2, <1>9, WhatIsWhere DEF TryAgain, Go
  <2>3. \A v \in Workers : wpc[v] \in {"remove", "notify"} =>
                              wpc'[v] \in {"remove", "notify"} /\ wjob'[v] = wjob[v]
    BY <2>2
  <2>4. \A v \in Workers : wpc'[v] \in {"remove", "notify"} => ~alive[job[wjob'[v]].conn]
    BY <1>3, <2>2
  <2>5. QED
    BY <1>1, <2>1, <2>2, <2>3, <2>4, RefStays
<1>10. CASE TryDone(w) \/ TransferDone(w) \/ KillOver(w)
  <2>1. PlaceInv' /\ Held' = Held
    BY <1>1, <1>10, PlaceAnswered DEF TryDone, TransferDone, KillOver, Busy
  <2>2. /\ \A v \in Workers : v # w => wpc'[v] = wpc[v]
        /\ wpc'[w] = "callback" /\ wpc[w] \in {"try", "transfer", "check"}
        /\ UNCHANGED <<refCount, life, alive, ended, listed, retired, wjob>>
    BY <1>2, <1>10 DEF TryDone, TransferDone, KillOver, Answer, Go
  <2>3. \A v \in Workers : wpc[v] \in {"remove", "notify"} =>
                              wpc'[v] \in {"remove", "notify"} /\ wjob'[v] = wjob[v]
    BY <2>2
  <2>4. \A v \in Workers : wpc'[v] \in {"remove", "notify"} => ~alive[job[wjob'[v]].conn]
    BY <1>3, <2>2
  <2>5. QED
    BY <1>1, <2>1, <2>2, <2>3, <2>4, RefStays
<1>11. CASE TryFails(w) \/ TryReady(w)
  BY <1>4, <1>11 DEF TryFails, TryReady
<1>12. CASE KillCheck(w)
  <2>1. CASE alive[JobConn(w)]
    BY <1>4, <1>12, <2>1 DEF KillCheck
  <2>2. CASE ~alive[JobConn(w)]
    BY <1>4, <1>12, <2>2 DEF KillCheck
  <2>3. QED
    BY <2>1, <2>2
<1>13. CASE KillMark(w)
  BY <1>1, <1>13, MarkEnds
<1>14. CASE KillRemove(w)
  <2>1. ~alive[JobConn(w)]
    BY <1>14 DEF KillRemove, IInv, EndInv
  <2>2. listed' \cup retired' = listed \cup retired
    BY <1>14 DEF KillRemove
  <2>3. QED
    BY <1>4, <1>14, <2>1, <2>2 DEF KillRemove
<1>15. CASE KillNotify(w)
  BY <1>1, <1>15, NotifyEnds
<1>16. CASE JobEnd(w)
  BY <1>1, <1>16, EndReleases
<1>17. QED
  BY <1>5, <1>6, <1>7, <1>8, <1>9, <1>10, <1>11, <1>12, <1>13, <1>14, <1>15,
     <1>16 DEF WorkerStep

(* so do the accept of a connection, *)
LEMMA AcceptRest ==
  ASSUME IInv, Types', NEW c \in Conns, Accept(c)
  PROVE  WorkInv' /\ PlaceInv' /\ RefInv' /\ EndInv' /\ IdleIsListed'
<1> USE DEF poolVars, workVars, serverVars, jobVars
<1>1. /\ life[c] = "unborn"
      /\ life' = [life EXCEPT ![c] = "live"]
      /\ refCount' = [refCount EXCEPT ![c] = 1]
      /\ alive' = [alive EXCEPT ![c] = TRUE]
      /\ listed' = listed \cup {c}
      /\ UNCHANGED <<options, workers, idle, pool, workerLock, wpc, wjob, spc, joining, job,
                     pushed, retired, answered, dropped, ended>>
  BY DEF Accept
<1>2. WorkInv' /\ IdleIsListed'
  BY <1>1 DEF IInv, WorkInv, IdleIsListed
<1>3. PlaceInv' /\ Held' = Held
  BY <1>1, PlaceStays
<1>4. \A d \in Conns : HeldOf(d)' = HeldOf(d)
  BY <1>1, <1>3 DEF HeldOf
<1>5. refCount[c] = 0 /\ refCount[c] >= Own(c) + Cardinality(HeldOf(c)) /\ ended[c] = 0
  BY <1>1 DEF IInv, RefInv, EndInv
<1>6. Own(c) = 0 /\ Cardinality(HeldOf(c)) = 0 /\ HeldOf(c) = {}
  BY <1>5, Counts, JobSets DEF IInv
<1>7. Own(c)' = 1 /\ \A d \in Conns : d # c => Own(d)' = Own(d)
  BY <1>1 DEF Own
<1>8. \A d \in Conns : /\ refCount'[d] = IF d = c THEN 1 ELSE refCount[d]
                       /\ life'[d] = IF d = c THEN "live" ELSE life[d]
                       /\ alive'[d] <=> d = c \/ alive[d]
  BY <1>1 DEF IInv, Types, TypeOK
<1>9. RefInv'
  <2> SUFFICES ASSUME NEW d \in Conns
               PROVE  /\ refCount'[d] >= Own(d)' + Cardinality(HeldOf(d)')
                      /\ options.forever => refCount'[d] = Own(d)' + Cardinality(HeldOf(d)')
                      /\ life'[d] # "live" => refCount'[d] = 0
    BY <1>1 DEF RefInv
  <2>1. CASE d = c
    BY <1>4, <1>6, <1>7, <1>8, <2>1
  <2>2. CASE d # c
    BY <1>4, <1>7, <1>8, <2>2 DEF IInv, RefInv
  <2>3. QED
    BY <2>1, <2>2
<1>10. \A v \in Workers : wpc[v] \in {"remove", "notify"} => ~alive'[JobConn(v)'] /\ JobConn(v) # c
  <2> SUFFICES ASSUME NEW v \in Workers, wpc[v] \in {"remove", "notify"}
               PROVE  ~alive'[JobConn(v)'] /\ JobConn(v) # c
    OBVIOUS
  <2>1. /\ JobConn(v) \in Conns /\ ~alive[JobConn(v)] /\ life[JobConn(v)] = "live"
        /\ JobConn(v)' = JobConn(v)
    BY <1>1, InHandIsHeld DEF Busy, IInv, EndInv, JobConn
  <2>2. QED
    BY <1>1, <1>8, <2>1
<1>11. \A d : Telling(d) => Telling(d)'
  BY <1>1 DEF Telling, JobConn
<1>12. EndInv'
  <2>1. ASSUME NEW d \in Conns
        PROVE  /\ life'[d] = "live" /\ ~alive'[d] /\ ended[d] = 0
                    => Telling(d)' \/ refCount'[d] > Own(d)' + Cardinality(HeldOf(d)')
               /\ life'[d] = "unborn" => ended[d] = 0
               /\ life'[d] = "dead" => ended[d] > 0
               /\ ended[d] > 0 => ~alive'[d]
    <3>1. CASE d = c
      BY <1>5, <1>8, <3>1
    <3>2. CASE d # c
      BY <1>4, <1>7, <1>8, <1>11, <3>2 DEF IInv, EndInv
    <3>3. QED
      BY <3>1, <3>2
  <2>2. QED
    BY <1>1, <1>10, <2>1 DEF EndInv
<1>13. QED
  BY <1>2, <1>3, <1>9, <1>12

(* the remover's release of one, *)
LEMMA RemoverRest ==
  ASSUME IInv, Types', NEW c \in Conns, RemoverRelease(c)
  PROVE  WorkInv' /\ PlaceInv' /\ RefInv' /\ EndInv' /\ IdleIsListed'
<1> USE DEF poolVars, workVars, serverVars, jobVars
<1> DEFINE cs == [d \in Conns |-> IF d = c THEN 1 ELSE 0]
<1>1. /\ c \in retired /\ retired' = retired \ {c} /\ Release(cs)
      /\ UNCHANGED <<options, workers, idle, pool, workerLock, wpc, wjob, spc, joining, job,
                     pushed, listed, answered, dropped>>
  BY DEF RemoverRelease, ReleaseOne
<1>2. WorkInv' /\ IdleIsListed'
  BY <1>1 DEF IInv, WorkInv, IdleIsListed
<1>3. PlaceInv' /\ Held' = Held
  BY <1>1, PlaceStays
<1>4. \A d \in Conns : HeldOf(d)' = HeldOf(d)
  BY <1>1, <1>3 DEF HeldOf
<1>5. Own(c) = 1 /\ Own(c)' = 0 /\ \A d \in Conns : d # c => Own(d)' = Own(d)
  BY <1>1 DEF Own, IInv, Types, TypeOK
<1>6. \A d \in Conns : Cardinality(HeldOf(d)) \in Nat /\ Own(d) \in {0, 1}
  BY Counts DEF IInv
<1>7. \A d \in Conns : cs[d] = IF d = c THEN 1 ELSE 0
  OBVIOUS
<1> HIDE DEF cs
<1>8. \A d \in Conns :
        /\ cs[d] \in Nat
        /\ cs[d] + Own(d)' + Cardinality(HeldOf(d)') = Own(d) + Cardinality(HeldOf(d))
        /\ cs[d] + Own(d)' + Cardinality(HeldOf(d)') <= Own(d) + Cardinality(HeldOf(d))
  BY <1>4, <1>5, <1>6, <1>7
<1>9. \A d : Telling(d) => Telling(d)'
  BY <1>1 DEF Telling, JobConn
<1>10. \A v \in Workers : JobConn(v)' = JobConn(v)
  BY <1>1 DEF JobConn
<1>11. RefInv' /\ EndInv'
  BY <1>1, <1>8, <1>9, <1>10, ReleaseEnds
<1>12. QED
  BY <1>2, <1>3, <1>11

(* A job is made for a connection that is there. *)
LEMMA MakeRest ==
  ASSUME IInv, Types', NEW c \in Conns, NEW kind \in {"send", "receive", "disconnect"},
         Make(c, kind), life[c] = "live",
         UNCHANGED <<options, workers, workerLock, wpc, wjob, joining, spc, alive, listed,
                     retired, life, answered, ended>>
  PROVE  WorkInv' /\ PlaceInv' /\ RefInv' /\ EndInv' /\ IdleIsListed'
<1>1. WorkInv' /\ IdleIsListed'
  BY MakeWork
<1>2. /\ PlaceInv'
      /\ \/ Held' = Held \cup {pushed'} /\ refCount' = [refCount EXCEPT ![c] = @ + 1]
         \/ Held' = Held /\ refCount' = refCount
  BY PlaceMade
<1>3. PICK j \in Jobs : j = pushed'
  BY MakeTypes DEF IInv, WorkInv
<1>4. j \notin Held /\ job'[j].conn = c /\ \A k \in Held : job'[k] = job[k]
  <2>1. j > pushed /\ j \notin Held
    BY <1>3, MakeTypes, WhatIsWhere DEF PlaceInv, IInv, WorkInv
  <2>2. \A k \in Held : k \in 1..pushed
    BY WhatIsWhere, SmallNumbers DEF PlaceInv, Held
  <2>3. (\A k \in 1..pushed : job'[k] = job[k]) /\ job'[j].conn = c
    BY <1>3, MakeTypes DEF IInv, WorkInv
  <2>4. QED
    BY <2>1, <2>2, <2>3
<1>5. \A d \in Conns : Own(d)' = Own(d)
  BY DEF Own
<1>6. \A d \in Conns : Cardinality(HeldOf(d)) \in Nat /\ Own(d) \in {0, 1} /\ refCount[d] \in Nat
                       /\ IsFiniteSet(HeldOf(d))
  BY Counts DEF IInv
<1>7. \A d \in Conns : refCount'[d] - Cardinality(HeldOf(d)') = refCount[d] - Cardinality(HeldOf(d))
                       /\ Cardinality(HeldOf(d)') \in Nat /\ refCount'[d] \in Nat
                       /\ (refCount[d] = 0 /\ d # c => refCount'[d] = 0)
  <2> SUFFICES ASSUME NEW d \in Conns
               PROVE  refCount'[d] - Cardinality(HeldOf(d)') = refCount[d] - Cardinality(HeldOf(d))
                      /\ Cardinality(HeldOf(d)') \in Nat /\ refCount'[d] \in Nat
                      /\ (refCount[d] = 0 /\ d # c => refCount'[d] = 0)
    OBVIOUS
  <2>1. CASE Held' = Held /\ refCount' = refCount
    <3>1. HeldOf(d)' = HeldOf(d)
      BY <1>4, <2>1 DEF HeldOf
    <3>2. QED
      BY <1>6, <2>1, <3>1
  <2>2. CASE Held' = Held \cup {j} /\ refCount' = [refCount EXCEPT ![c] = @ + 1]
    <3>1. CASE d = c
      <4>1. \A k : k \in HeldOf(d)' <=> k \in HeldOf(d) \/ k = j
        BY <1>4, <2>2, <3>1 DEF HeldOf
      <4>2. HeldOf(d)' = HeldOf(d) \cup {j} /\ j \notin HeldOf(d)
        BY <1>4, <4>1 DEF HeldOf
      <4>3. Cardinality(HeldOf(d)') = Cardinality(HeldOf(d)) + 1
        BY <1>6, <4>2, FS_AddElement
      <4>4. refCount'[d] = refCount[d] + 1
        BY <2>2, <3>1 DEF IInv, Types, TypeOK
      <4>5. QED
        BY <1>6, <3>1, <4>3, <4>4
    <3>2. CASE d # c
      <4>1. \A k : k \in HeldOf(d)' <=> k \in HeldOf(d)
        BY <1>4, <2>2, <3>2 DEF HeldOf
      <4>2. HeldOf(d)' = HeldOf(d)
        BY <4>1
      <4>3. refCount'[d] = refCount[d]
        BY <2>2, <3>2 DEF IInv, Types, TypeOK
      <4>4. QED
        BY <1>6, <4>2, <4>3
    <3>3. QED
      BY <3>1, <3>2
  <2>3. QED
    BY <1>2, <1>3, <2>1, <2>2
<1>8. ASSUME NEW d \in Conns
      PROVE  /\ refCount'[d] >= Own(d)' + Cardinality(HeldOf(d)')
             /\ options.forever => refCount'[d] = Own(d)' + Cardinality(HeldOf(d)')
             /\ life[d] # "live" => refCount'[d] = 0
             /\ refCount[d] > Own(d) + Cardinality(HeldOf(d))
                  => refCount'[d] > Own(d)' + Cardinality(HeldOf(d)')
  <2> DEFINE h == Cardinality(HeldOf(d))
             h1 == Cardinality(HeldOf(d)')
             r == refCount[d]
             r1 == refCount'[d]
             o == Own(d)
  <2>1. /\ r1 - h1 = r - h /\ r1 \in Nat /\ h1 \in Nat /\ h \in Nat /\ r \in Nat /\ o \in Nat
        /\ Own(d)' = o
    BY <1>5, <1>6, <1>7
  <2>2. r >= o + h /\ (options.forever => r = o + h)
    BY DEF IInv, RefInv
  <2>3. life[d] # "live" => r1 = 0
    BY <1>7 DEF IInv, RefInv
  <2> HIDE DEF h, h1, r, r1, o
  <2>4. r1 >= o + h1 /\ (options.forever => r1 = o + h1) /\ (r > o + h => r1 > o + h1)
    BY <2>1, <2>2
  <2>5. QED
    BY <2>1, <2>3, <2>4 DEF h, h1, r, r1, o
<1>9. RefInv'
  BY <1>8 DEF RefInv
<1>10. \A w \in Workers : wpc[w] \in {"remove", "notify"} => JobConn(w)' = JobConn(w)
  <2> SUFFICES ASSUME NEW w \in Workers, wpc[w] \in {"remove", "notify"}
               PROVE  JobConn(w)' = JobConn(w)
    OBVIOUS
  <2>1. wjob[w] \in Held
    BY InHandIsHeld DEF Busy, HeldOf
  <2>2. QED
    BY <1>4, <2>1 DEF JobConn
<1>11. \A d : Telling(d) => Telling(d)'
  BY <1>10 DEF Telling
<1>12. EndInv'
  <2>1. \A d \in Conns : life[d] = "live" /\ ~alive[d] /\ ended[d] = 0
          => Telling(d)' \/ refCount'[d] > Own(d)' + Cardinality(HeldOf(d)')
    BY <1>8, <1>11 DEF IInv, EndInv
  <2>2. \A w \in Workers : wpc[w] \in {"remove", "notify"} => ~alive[JobConn(w)']
    BY <1>10 DEF IInv, EndInv
  <2>3. QED
    BY <2>1, <2>2 DEF IInv, EndInv
<1>13. QED
  BY <1>1, <1>2, <1>9, <1>12

(* The worker whose turn it is ends, or is killed with a job in its hands, *)
(* which keeps its reference for ever.                                     *)
LEMMA JoinRest ==
  ASSUME IInv, Types', Join, UNCHANGED <<options, answered>>
  PROVE  PlaceInv' /\ RefInv' /\ EndInv'
<1>0. PICK w \in Workers : w = joining
  BY DEF Join, IInv, Types, TypeOK, WorkInv
<1> DEFINE cs == References(pool[w])
<1>1. /\ Release(cs)
      /\ wpc[w] = "end" \/ ~options.forever
      /\ wpc' = [wpc EXCEPT ![w] = "none"] /\ wjob' = [wjob EXCEPT ![w] = NoJob]
      /\ UNCHANGED <<job, pushed, listed, retired>>
  BY <1>0 DEF Join, jobVars
<1>2. PlaceInv' /\ Held' = Held \ (pool[w] \cup {wjob[w]})
  BY <1>0, <1>1, PlaceJoined
<1>3. PICK h : h = wjob[w]
  OBVIOUS
<1>4. \A v \in Workers : wpc'[v] = (IF v = w THEN "none" ELSE wpc[v])
                         /\ (v # w => wjob'[v] = wjob[v])
  BY <1>1, WhatIsWhere
<1>5. \A v \in Workers : wpc'[v] \in {"remove", "notify"} =>
                           wpc[v] \in {"remove", "notify"} /\ JobConn(v)' = JobConn(v)
  BY <1>1, <1>4 DEF JobConn
<1>6. ASSUME NEW c \in Conns
      PROVE  /\ cs[c] \in Nat
             /\ cs[c] + Own(c)' + Cardinality(HeldOf(c)') <= Own(c) + Cardinality(HeldOf(c))
             /\ options.forever =>
                  cs[c] + Own(c)' + Cardinality(HeldOf(c)') = Own(c) + Cardinality(HeldOf(c))
             /\ Telling(c) =>
                  \/ Telling(c)'
                  \/ cs[c] + Own(c)' + Cardinality(HeldOf(c)') < Own(c) + Cardinality(HeldOf(c))
  <2>1. PICK P : P = {j \in pool[w] : job[j].conn = c}
    OBVIOUS
  <2>2. cs[c] = Cardinality(P) /\ P \subseteq HeldOf(c) /\ cs[c] \in Nat
    BY <2>1, JoinReleases
  <2>3. /\ IsFiniteSet(HeldOf(c)) /\ Cardinality(HeldOf(c)) \in Nat /\ Own(c) \in {0, 1}
        /\ HeldOf(c) \subseteq Jobs
    BY Counts DEF IInv
  <2>4. Own(c)' = Own(c)
    BY <1>1 DEF Own
  <2>5. PICK S : S = HeldOf(c) \ P
    OBVIOUS
  <2>6. IsFiniteSet(S) /\ Cardinality(S) = Cardinality(HeldOf(c)) - cs[c] /\ Cardinality(S) \in Nat
    <3>1. HeldOf(c) \cap P = P
      BY <2>2
    <3>2. IsFiniteSet(S) /\ Cardinality(S) = Cardinality(HeldOf(c)) - Cardinality(P)
      <4>1. /\ IsFiniteSet(HeldOf(c) \ P)
            /\ Cardinality(HeldOf(c) \ P) = Cardinality(HeldOf(c)) - Cardinality(HeldOf(c) \cap P)
        BY <2>3, FS_Difference
      <4>2. QED
        BY <2>5, <3>1, <4>1
    <3>3. S \subseteq Jobs
      BY <2>3, <2>5
    <3>4. QED
      BY <2>2, <3>2, <3>3, JobSets
  <2>7. HeldOf(c)' = S \ {h}
    <3>1. \A k : k \in HeldOf(c)' <=> k \in HeldOf(c) /\ k \notin pool[w] /\ k # h
      BY <1>1, <1>2, <1>3 DEF HeldOf
    <3>2. \A k : k \in S <=> k \in HeldOf(c) /\ k \notin pool[w]
      BY <2>1, <2>5 DEF HeldOf
    <3>3. \A k : k \in HeldOf(c)' <=> k \in S \ {h}
      BY <3>1, <3>2
    <3>4. QED
      BY <3>3
  <2>8. Cardinality(HeldOf(c)') = IF h \in S THEN Cardinality(S) - 1 ELSE Cardinality(S)
    BY <2>6, <2>7, FS_RemoveElement
  <2>9. options.forever => h \notin S
    <3>1. options.forever => h = NoJob
      BY <1>1, <1>3, WhatIsWhere DEF Busy
    <3>2. QED
      BY <2>3, <2>5, <3>1, WhatIsWhere
  <2>10. Telling(c) => Telling(c)' \/ h \in S
    <3> SUFFICES ASSUME Telling(c), ~Telling(c)' PROVE h \in S
      OBVIOUS
    <3>1. PICK v \in Workers : /\ wpc[v] \in {"remove", "notify"}
                               /\ wjob[v] # NoJob /\ JobConn(v) = c
      BY DEF Telling
    <3>2. v = w
      BY <1>1, <1>4, <3>1 DEF Telling, JobConn
    <3>3. h \in HeldOf(c) /\ h \in Jobs
      BY <1>3, <3>1, <3>2, InHandIsHeld DEF Busy
    <3>4. InHand(h)
      BY <1>3 DEF InHand
    <3>5. h \notin pool[w]
      BY <3>4, WhatIsWhere DEF PlaceInv
    <3>6. QED
      BY <2>1, <2>5, <3>3, <3>5
  <2>11. PICK n, o, a, s, b : /\ n = cs[c] /\ o = Own(c) /\ a = Cardinality(HeldOf(c))
                              /\ s = Cardinality(S) /\ b = Cardinality(HeldOf(c)')
    OBVIOUS
  <2>12. /\ n \in Nat /\ o \in Nat /\ a \in Nat /\ s \in Nat /\ s = a - n
         /\ b = IF h \in S THEN s - 1 ELSE s
    BY <2>2, <2>3, <2>6, <2>8, <2>11
  <2>13. /\ n + o + b <= o + a
         /\ h \notin S => n + o + b = o + a
         /\ h \in S => n + o + b < o + a
    BY <2>12
  <2>14. QED
    BY <2>2, <2>4, <2>9, <2>10, <2>11, <2>13
<1>7. RefInv' /\ EndInv'
  BY <1>1, <1>5, <1>6, ReleaseEnds
<1>8. QED
  BY <1>2, <1>7

(* and the steps of the server, which kills workers. *)
LEMMA ServerRest ==
  ASSUME IInv, Types', ServerStep \/ ServerCall
  PROVE  PlaceInv' /\ RefInv' /\ EndInv'
<1> USE DEF poolVars, workVars, connVars, objectVars, jobVars
<1>1. UNCHANGED <<options, answered>>
  BY DEF ServerStep, ServerCall
<1>2. \A w \in Workers : wpc[w] \in {"remove", "notify"} => ~alive[job[wjob[w]].conn]
  BY DEF IInv, EndInv, JobConn
<1>3. ASSUME UNCHANGED <<pool, wjob, job, pushed, refCount, life, alive, ended, dropped>>,
             listed' \cup retired' = listed \cup retired,
             \A w \in Workers : wpc'[w] = wpc[w] \/ (wjob[w] = NoJob /\ wpc'[w] \notin Busy)
      PROVE  PlaceInv' /\ RefInv' /\ EndInv'
  <2>1. \A w \in Workers : wjob[w] # NoJob => wpc'[w] = wpc[w]
    BY <1>3
  <2>2. PlaceInv' /\ Held' = Held
    BY <1>1, <1>3, <2>1, PlaceStays
  <2>3. \A w \in Workers : wpc[w] \in {"remove", "notify"} => wpc'[w] = wpc[w]
    BY <2>1, WhatIsWhere DEF Busy
  <2>4. \A w \in Workers : wpc'[w] \in {"remove", "notify"} => wpc[w] = wpc'[w]
    BY <1>3 DEF Busy
  <2>5. \A w \in Workers : wpc'[w] \in {"remove", "notify"} => ~alive[job[wjob'[w]].conn]
    BY <1>2, <1>3, <2>4
  <2>6. \A w \in Workers : wpc[w] \in {"remove", "notify"} =>
                              wpc'[w] \in {"remove", "notify"} /\ wjob'[w] = wjob[w]
    BY <1>3, <2>3
  <2>7. QED
    BY <1>1, <1>3, <2>2, <2>5, <2>6, RefStays
<1>4. CASE StopKill
  <2>1. CASE UNCHANGED <<pool, refCount, job, pushed, dropped>>
    BY <1>3, <1>4, <2>1 DEF StopKill
  <2>2. ASSUME NEW c \in toKill, Make(c, "disconnect"), spc' = spc, life[c] = "live"
        PROVE  PlaceInv' /\ RefInv' /\ EndInv'
    <3>1. c \in Conns
      BY DEF IInv, Types, TypeOK
    <3>2. UNCHANGED <<options, workers, workerLock, wpc, wjob, joining, spc, alive, listed,
                      retired, life, answered, ended>>
      BY <1>1, <1>4, <2>2 DEF StopKill
    <3>3. QED
      BY <2>2, <3>1, <3>2, MakeRest
  <2>3. QED
    BY <1>4, <2>1, <2>2 DEF StopKill
<1>5. CASE StopClear
  <2>1. listed' \cup retired' = listed \cup retired
    BY <1>5 DEF StopClear
  <2>2. QED
    BY <1>3, <1>5, <2>1 DEF StopClear
<1>6. CASE StopLock
  BY <1>3, <1>6 DEF StopLock
<1>7. CASE Tell
  BY <1>3, <1>7 DEF Tell
<1>8. CASE Join
  BY <1>1, <1>8, JoinRest
<1>9. CASE StopUnlock
  BY <1>3, <1>9 DEF StopUnlock
<1>10. CASE CreateWorkers
  <2>1. /\ UNCHANGED <<pool, wjob, job, pushed, refCount, life, alive, ended, dropped>>
        /\ listed' \cup retired' = listed \cup retired
        /\ workers = {} /\ wpc' = [w \in Workers |-> IF options.eager THEN "look" ELSE "asleep"]
    BY <1>10 DEF CreateWorkers
  <2>2. \A w \in Workers : wjob[w] = NoJob
    BY <2>1 DEF IInv, WorkInv, Busy
  <2>3. \A w \in Workers : wpc'[w] = wpc[w] \/ (wjob[w] = NoJob /\ wpc'[w] \notin Busy)
    BY <2>1, <2>2 DEF Busy
  <2>4. QED
    BY <1>3, <2>1, <2>3
<1>11. CASE StartServer
  BY <1>3, <1>11 DEF StartServer
<1>12. CASE StopServer
  BY <1>3, <1>12 DEF StopServer
<1>13. QED
  BY <1>4, <1>5, <1>6, <1>7, <1>8, <1>9, <1>10, <1>11, <1>12 DEF ServerStep, ServerCall

-----------------------------------------------------------------------------
(* The initial states satisfy the invariant, *)
LEMMA PoolInit == Init => IInv
BY TypesInit, WorkInit, PlaceInit, RefInit DEF IInv

(* each step keeps it, *)
LEMMA PoolStep == IInv /\ [Next]_vars => IInv'
<1> SUFFICES ASSUME IInv, [Next]_vars PROVE IInv'
  OBVIOUS
<1>1. ASSUME NEW c \in Conns, Accept(c) PROVE IInv'
  BY <1>1, CallTypes, AcceptRest DEF IInv
<1>2. ASSUME NEW c \in Conns, RemoverRelease(c) PROVE IInv'
  BY <1>2, CallTypes, RemoverRest DEF IInv
<1>3. ASSUME NEW c \in Conns, NEW kind \in {"send", "receive", "disconnect"}, Submit(c, kind)
      PROVE  IInv'
  <2>1. Types'
    BY <1>3, CallTypes
  <2>2. /\ Make(c, kind) /\ life[c] = "live"
        /\ UNCHANGED <<options, workers, workerLock, wpc, wjob, joining, spc, alive, listed,
                       retired, life, answered, ended>>
    BY <1>3 DEF Submit, Usable, workVars, serverVars, connVars
  <2>3. QED
    BY <2>1, <2>2, MakeRest DEF IInv
<1>4. ASSUME NEW w \in Workers, WorkerStep(w) PROVE IInv'
  BY <1>4, WorkerTypes, WorkerWork, WorkerRest DEF IInv
<1>5. ASSUME NEW w \in Workers, NEW kind \in {"send", "receive"}, Chain(w, kind) PROVE IInv'
  <2>1. Types'
    BY <1>5, ChainTypes
  <2>2. /\ Make(JobConn(w), kind) /\ life[JobConn(w)] = "live" /\ wpc[w] = "callback"
        /\ UNCHANGED <<options, workers, workerLock, wpc, wjob, joining, spc, alive, listed,
                       retired, life, answered, ended>>
    BY <1>5 DEF Chain, Usable, workVars, serverVars, connVars
  <2>3. PICK c \in Conns : c = JobConn(w)
    BY <2>2, InHandIsHeld DEF Busy
  <2>4. QED
    BY <2>1, <2>2, <2>3, MakeRest DEF IInv
<1>6. CASE ServerStep \/ ServerCall
  BY <1>6, ServerTypes, ServerWork, ServerRest DEF IInv
<1>7. CASE UNCHANGED vars
  <2>1. UNCHANGED <<options, workers, idle, pool, workerLock, wpc, wjob, spc, toKill, joining,
                    starts, told, job, pushed, sockLock, alive, listed, retired, refCount, life,
                    answered, dropped, ended>>
    BY <1>7 DEF vars, poolVars, workVars, serverVars, jobVars, connVars, objectVars
  <2>2. Types'
    BY <2>1 DEF IInv, Types, TypeOK
  <2>3. WorkInv' /\ IdleIsListed'
    BY <2>1 DEF IInv, WorkInv, IdleIsListed
  <2>4. PlaceInv' /\ Held' = Held
    BY <2>1, PlaceStays
  <2>5. \A w \in Workers : wpc[w] \in {"remove", "notify"} => ~alive[job[wjob[w]].conn]
    BY DEF IInv, EndInv, JobConn
  <2>6. RefInv' /\ EndInv'
    BY <2>1, <2>4, <2>5, RefStays
  <2>7. QED
    BY <2>2, <2>3, <2>4, <2>6 DEF IInv
<1>8. QED
  BY <1>1, <1>2, <1>3, <1>4, <1>5, <1>6, <1>7 DEF Next

(* and so it always holds. *)
LEMMA PoolInvariance == Spec => []IInv
BY PoolInit, PoolStep, PTL DEF Spec

(* What the invariant says of the jobs and of their sockets. *)
LEMMA PoolIsSound == IInv => JobsAreSound
<1> SUFFICES ASSUME IInv PROVE JobsAreSound
  OBVIOUS
<1>1. JobsAreConserved
  <2> SUFFICES ASSUME NEW j \in 1..pushed
               PROVE  /\ answered[j] <= 1
                      /\ \A w, v \in Workers : j \in pool[w] \cap pool[v] => w = v
                      /\ \A w, v \in Workers : wjob[w] = j /\ wjob[v] = j => w = v
                      /\ Queued(j) => ~InHand(j) /\ answered[j] = 0 /\ j \notin dropped
                      /\ Queued(j) \/ InHand(j) \/ answered[j] = 1 \/ j \in dropped
    BY DEF JobsAreConserved
  <2>1. j \in Jobs /\ j # NoJob
    BY WhatIsWhere
  <2>2. j \in Held \/ answered[j] = 1 \/ j \in dropped
    BY WhatIsWhere DEF PlaceInv
  <2>3. Queued(j) => ~InHand(j) /\ answered[j] = 0 /\ j \notin dropped
    BY WhatIsWhere DEF PlaceInv, Queued
  <2>4. QED
    BY <2>1, <2>2, <2>3, WhatIsWhere DEF PlaceInv, Held
<1>2. SocketOutlivesJobs
  <2> SUFFICES ASSUME NEW c \in Conns,
                      NEW jobs, jobs = {j \in 1..pushed : job[j].conn = c /\ (Queued(j) \/ InHand(j))}
               PROVE  /\ jobs # {} => life[c] = "live"
                      /\ options.forever => refCount[c] = Own(c) + Cardinality(jobs)
    BY DEF SocketOutlivesJobs, Own
  <2>1. \A j : j \in jobs <=> j \in HeldOf(c)
    <3>1. \A j \in Held : j \in 1..pushed
      BY WhatIsWhere, SmallNumbers DEF PlaceInv, Held
    <3>2. \A j \in 1..pushed : j \in Held <=> Queued(j) \/ InHand(j)
      BY WhatIsWhere DEF Held
    <3>3. QED
      BY <3>1, <3>2 DEF HeldOf
  <2>2. jobs = HeldOf(c)
    BY <2>1
  <2>3. jobs # {} => refCount[c] # 0
    <3>1. jobs # {} => Cardinality(jobs) # 0 /\ Cardinality(jobs) \in Nat
      BY <2>2, Counts, JobSets DEF IInv
    <3>2. refCount[c] >= Own(c) + Cardinality(jobs) /\ Own(c) \in {0, 1} /\ refCount[c] \in Nat
      BY <2>2, Counts DEF IInv, RefInv
    <3>3. QED
      BY <3>1, <3>2
  <2>4. QED
    BY <2>2, <2>3 DEF IInv, RefInv
<1>3. QED
  BY <1>1, <1>2 DEF JobsAreSound, IInv, Types

-----------------------------------------------------------------------------
(* However the workers, the application and StopServer interleave: a job   *)
(* is in one place and answered once at most, no connection is destroyed   *)
(* that a job still uses, and unless a worker was killed no reference is   *)
(* lost (pushJob, epIocpTcpServer.cpp 115-143, DoJob,                      *)
(* epIocpServerProcessor.cpp 31-96, with the counts of epSmartObject.h).   *)
THEOREM PoolKeepsJobs == Spec => []JobsAreSound
<1>1. Spec => []IInv
  BY PoolInvariance
<1>2. IInv => JobsAreSound
  BY PoolIsSound
<1>3. QED
  BY <1>1, <1>2, PTL

(* A connection is destroyed only after OnDisconnect was called for it,    *)
(* whichever job found it broken, and also if its DISCONNECT job was       *)
(* dropped when the workers ended (DoJob and ~IocpTcpSocket,               *)
(* epIocpTcpSocket.cpp).                                                   *)
THEOREM PoolTellsEnd == Spec => []EndIsTold
<1>1. Spec => []IInv
  BY PoolInvariance
<1>2. IInv => EndIsTold
  BY DEF IInv, EndInv, EndIsTold
<1>3. QED
  BY <1>1, <1>2, PTL

(* A worker that sleeps without a job is on the list of pushJob whenever   *)
(* m_workerLock is free (CallBackFunc and pushJob, epIocpTcpServer.cpp).   *)
THEOREM PoolListsIdle == Spec => []IdleIsListed
<1>1. Spec => []IInv
  BY PoolInvariance
<1>2. IInv => IdleIsListed
  BY DEF IInv
<1>3. QED
  BY <1>1, <1>2, PTL
=============================================================================
