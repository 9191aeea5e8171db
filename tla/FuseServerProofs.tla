-------------------------- MODULE FuseServerProofs --------------------------
(***************************************************************************)
(* Theorems about the mounted file system.  About FuseServer, for any number *)
(* of clients and workers: type correctness, directory streams keep their    *)
(* handle, every handle has one owner, and listings are exact, whatever the  *)
(* threads do and whoever fails.  About the handlers of FuseOps, in the      *)
(* second part: inode numbers name files, replies are about the file that    *)
(* was asked about, and the sizes that are told are enough.                 *)
(***************************************************************************)
EXTENDS FuseServer, FuseOps, SequenceTheorems, WellFoundedInduction, TLAPS

-----------------------------------------------------------------------------
(* The invariant, in named parts.                                          *)

Busy(w) == worker[w].pc \notin {"get_request", "exited"}
Queued(c) == \E i \in 1 .. Len(queue) : queue[i] = c

(* A call waits in the queue at most once.                                  *)
QueueOK ==
  /\ \A i, j \in 1 .. Len(queue) : queue[i] = queue[j] => i = j
  /\ \A c \in Clients : Queued(c) => Waiting(c)

(* A worker serves a call that no other worker and not the queue has.         *)
ServeOK ==
  \A w \in Workers : Busy(w) =>
    /\ Waiting(worker[w].client) /\ ~ Queued(worker[w].client)
    /\ \A v \in Workers : Busy(v) /\ worker[v].client = worker[w].client => v = w

(* A worker is in the handler of its client's call, and has a handle only      *)
(* between the counter and the reply of opendir.                             *)
PhaseOK ==
  \A w \in Workers :
    LET op == client[worker[w].client].op
    IN /\ worker[w].pc \in {"opendir", "insert"} => op = "opendir"
       /\ worker[w].pc \in {"readdir", "entries"} => op = "readdir"
       /\ worker[w].pc = "releasedir" => op = "releasedir"
       /\ worker[w].pc = "stateless" => op = "stateless"
       /\ worker[w].handle # 0 => worker[w].pc \in {"insert", "reply"} /\ op = "opendir"
       /\ worker[w].pc = "insert" => worker[w].handle # 0
       /\ worker[w].err # "none" =>
            /\ worker[w].pc = "reply" /\ op = "opendir" /\ worker[w].handle = 0
            /\ worker[w].err # "EBADF"

ClientOK ==
  \A c \in Clients :
    /\ client[c].op \in {"opendir", "stateless"} => client[c].handle = 0
    /\ client[c].op \in {"readdir", "releasedir"} => client[c].handle # 0
    /\ client[c].err # "EBADF"

(* Handles are given out once: those of the clients, the workers and the lost  *)
(* replies are different, and the counter is ahead of them all.              *)
HandleOK ==
  /\ \A c \in Clients :
       /\ client[c].handle < nextDirHandle
       /\ client[c].handle # 0 =>
            /\ client[c].handle \notin lost
            /\ \A d \in Clients : client[d].handle = client[c].handle => d = c
            /\ \A w \in Workers : worker[w].handle # client[c].handle
  /\ \A w \in Workers :
       /\ worker[w].handle < nextDirHandle
       /\ worker[w].handle # 0 =>
            /\ worker[w].handle \notin lost
            /\ \A v \in Workers : worker[v].handle = worker[w].handle => v = w
  /\ \A h \in lost : h < nextDirHandle
  /\ \A h \in DOMAIN dirHandles : h < nextDirHandle /\ h # 0

(* The call that releases the handle of c has been carried out.              *)
Released(c) ==
  /\ client[c].op = "releasedir"
  /\ \E w \in Workers : worker[w].client = c /\ worker[w].pc = "reply"

(* The table has what clients hold and workers are about to send.             *)
TableOK ==
  /\ \A c \in Clients : Released(c) => client[c].handle \notin DOMAIN dirHandles
  /\ Running =>
       /\ \A c \in Clients : client[c].handle # 0 /\ ~ Released(c) =>
            /\ client[c].handle \in DOMAIN dirHandles
            /\ dirHandles[client[c].handle] = client[c].dir
       /\ \A w \in Workers : worker[w].pc = "reply" /\ worker[w].handle # 0 =>
            /\ worker[w].handle \in DOMAIN dirHandles
            /\ dirHandles[worker[w].handle] = client[worker[w].client].dir

(* ... and nothing else.                                                    *)
OwnerOK ==
  \A h \in DOMAIN dirHandles :
    \/ h \in lost
    \/ \E c \in Clients : Holds(c, h)
    \/ \E w \in Workers : Sends(w, h)

(* A client has seen the entries up to its offset.                           *)
Seen(k) ==
  k.handle # 0 \/ k.op = "opendir" =>
    /\ k.off <= Len(DirEntries[k.dir]) /\ Len(k.got) = k.off
    /\ \A i \in 1 .. k.off : k.got[i] = DirEntries[k.dir][i]
    /\ k.eof => k.off = Len(DirEntries[k.dir])

SeenOK == \A c \in Clients : Seen(client[c])

(* What a worker sends continues what its client has seen.                    *)
Follows(k, l) ==
  /\ k.off + Len(l) <= Len(DirEntries[k.dir])
  /\ Len(l) = 0 => k.off = Len(DirEntries[k.dir])
  /\ \A i \in 1 .. Len(l) :
       l[i] = [name |-> DirEntries[k.dir][k.off + i], off |-> k.off + i]

ReplyOK ==
  \A w \in Workers :
    LET k == client[worker[w].client]
    IN /\ worker[w].pc = "entries" => worker[w].dir = k.dir
       /\ worker[w].pc = "reply" /\ k.op = "readdir" => Follows(k, worker[w].list)

DownOK == ~ Running => queue = << >> /\ \A w \in Workers : Exited(w)

Inv1 == TypeOK /\ QueueOK /\ ServeOK /\ PhaseOK /\ ClientOK /\ DownOK
IInv == Inv1 /\ HandleOK /\ TableOK /\ OwnerOK /\ SeenOK /\ ReplyOK

-----------------------------------------------------------------------------
(* The queue.                                                              *)

LEMMA QueueAppend ==
  ASSUME QueueOK, queue \in Seq(Clients), NEW c \in Clients, ~ Queued(c),
         queue' = Append(queue, c)
  PROVE  /\ queue' \in Seq(Clients)
         /\ \A i, j \in 1 .. Len(queue') : queue'[i] = queue'[j] => i = j
         /\ \A d : Queued(d)' => Queued(d) \/ d = c
<1>1. /\ queue' \in Seq(Clients) /\ Len(queue) \in Nat
      /\ Len(queue') = Len(queue) + 1
      /\ \A i \in 1 .. Len(queue) : queue'[i] = queue[i]
      /\ queue'[Len(queue) + 1] = c
  OBVIOUS
<1>2. \A i \in 1 .. Len(queue) : queue[i] # c
  BY DEF Queued
<1>3. \A i, j \in 1 .. Len(queue) : queue[i] = queue[j] => i = j
  BY DEF QueueOK
<1>4. \A i, j \in 1 .. Len(queue') : queue'[i] = queue'[j] => i = j
  BY <1>1, <1>2, <1>3
<1>5. \A d : Queued(d)' => Queued(d) \/ d = c
  BY <1>1 DEF Queued
<1> QED
  BY <1>1, <1>4, <1>5

LEMMA QueueTail ==
  ASSUME QueueOK, queue \in Seq(Clients), queue # << >>, queue' = Tail(queue)
  PROVE  /\ queue' \in Seq(Clients)
         /\ Head(queue) \in Clients /\ Queued(Head(queue))
         /\ \A i, j \in 1 .. Len(queue') : queue'[i] = queue'[j] => i = j
         /\ \A d : Queued(d)' => Queued(d) /\ d # Head(queue)
<1>1. /\ queue' \in Seq(Clients) /\ Len(queue) \in Nat \ {0}
      /\ Len(queue') = Len(queue) - 1
      /\ \A i \in 1 .. Len(queue) - 1 : queue'[i] = queue[i + 1]
      /\ Head(queue) = queue[1] /\ Head(queue) \in Clients
  OBVIOUS
<1>3. \A i, j \in 1 .. Len(queue) : queue[i] = queue[j] => i = j
  BY DEF QueueOK
<1>4. \A i, j \in 1 .. Len(queue') : queue'[i] = queue'[j] => i = j
  BY <1>1, <1>3
<1>5. \A d : Queued(d)' => Queued(d) /\ d # Head(queue)
  BY <1>1, <1>3 DEF Queued
<1>6. Queued(Head(queue))
  BY <1>1 DEF Queued
<1> QED
  BY <1>1, <1>4, <1>5, <1>6

-----------------------------------------------------------------------------
(* The clients' steps.                                                     *)

LEMMA Idle ==
  ASSUME Inv1, NEW c \in Clients, ~ Waiting(c)
  PROVE  /\ ~ Queued(c)
         /\ \A w \in Workers : Busy(w) => worker[w].client # c
BY DEF Inv1, QueueOK, ServeOK

(* What the four requests have in common.                                    *)
LEMMA RequestInv1 ==
  ASSUME Inv1, NEW c \in Clients, Request(c), TypeOK',
         NEW r, client' = [client EXCEPT ![c] = r], r.op \in Ops,
         r.op \in {"opendir", "stateless"} => r.handle = 0,
         r.op \in {"readdir", "releasedir"} => r.handle # 0,
         r.err # "EBADF"
  PROVE  Inv1'
<1>1. /\ Running /\ ~ Waiting(c) /\ queue' = Append(queue, c)
      /\ worker' = worker /\ main' = main
  BY DEF Request
<1>2. /\ client'[c] = r
      /\ \A d \in Clients : d # c => client'[d] = client[d]
  BY DEF Inv1, TypeOK
<1>3. /\ ~ Queued(c)
      /\ \A w \in Workers : Busy(w) => worker[w].client # c
  BY <1>1, Idle
<1>4. /\ \A i, j \in 1 .. Len(queue') : queue'[i] = queue'[j] => i = j
      /\ \A d : Queued(d)' => Queued(d) \/ d = c
  BY <1>1, <1>3, QueueAppend DEF Inv1, TypeOK
<1>5. QueueOK'
  BY <1>2, <1>4 DEF Inv1, QueueOK, Waiting, Ops
<1>6. ServeOK'
  <2> SUFFICES ASSUME NEW w \in Workers, Busy(w)'
               PROVE  /\ Waiting(worker[w].client)' /\ ~ Queued(worker[w].client)'
                      /\ \A v \in Workers : Busy(v)' /\ worker'[v].client = worker'[w].client => v = w
    BY DEF ServeOK
  <2>1. Busy(w) /\ worker[w].client \in Clients
    BY <1>1 DEF Busy, Inv1, TypeOK, WorkerState
  <2> QED
    BY <2>1, <1>1, <1>2, <1>3, <1>4 DEF Inv1, ServeOK, Waiting, Busy
<1>7. PhaseOK'
  <2> SUFFICES ASSUME NEW w \in Workers
               PROVE  LET op == client'[worker[w].client].op
                      IN /\ worker[w].pc \in {"opendir", "insert"} => op = "opendir"
                         /\ worker[w].pc \in {"readdir", "entries"} => op = "readdir"
                         /\ worker[w].pc = "releasedir" => op = "releasedir"
                         /\ worker[w].pc = "stateless" => op = "stateless"
                         /\ worker[w].handle # 0 => worker[w].pc \in {"insert", "reply"} /\ op = "opendir"
                         /\ worker[w].pc = "insert" => worker[w].handle # 0
                         /\ worker[w].err # "none" =>
                              /\ worker[w].pc = "reply" /\ op = "opendir" /\ worker[w].handle = 0
                              /\ worker[w].err # "EBADF"
    BY <1>1 DEF PhaseOK
  <2>1. Busy(w) => client'[worker[w].client] = client[worker[w].client]
    BY <1>2, <1>3 DEF Inv1, TypeOK
  <2> QED
    BY <2>1 DEF Inv1, PhaseOK, Busy
<1>8. ClientOK'
  BY <1>2 DEF Inv1, ClientOK
<1>9. DownOK'
  BY <1>1 DEF DownOK, Running
<1> QED
  BY <1>5, <1>6, <1>7, <1>8, <1>9 DEF Inv1

-----------------------------------------------------------------------------
(* Types.                                                                  *)

LEMMA IdleType ==
  IdleWorker \in [pc : {"get_request"}, client : Clients, handle : {0}, dir : Dirs,
                  list : Seq(Listed), err : {"none"}]
<1>1. << >> \in Seq(Listed)
  OBVIOUS
<1> QED
  BY <1>1, ServerAssumption DEF IdleWorker

LEMMA IdleIsState == IdleWorker \in WorkerState /\ NoStream \in ClientState
<1>1. IdleWorker \in WorkerState
  BY IdleType DEF WorkerState
<1>2. NoStream \in ClientState
  <2>1. << >> \in Seq(STRING)
    OBVIOUS
  <2> QED
    BY <2>1, ServerAssumption DEF NoStream, ClientState
<1> QED
  BY <1>1, <1>2

LEMMA Empty ==
  /\ << >> \in Seq(Clients) /\ DOMAIN << >> = {}
  /\ << >> \in [DOMAIN << >> -> Dirs]
<1>1. << >> \in Seq(Clients)
  OBVIOUS
<1>2. DOMAIN << >> = {}
  OBVIOUS
<1>3. << >> \in [DOMAIN << >> -> Dirs]
  OBVIOUS
<1> QED
  BY <1>1, <1>2, <1>3

LEMMA InitType == Init => TypeOK
<1> SUFFICES ASSUME Init
             PROVE  TypeOK
  OBVIOUS
<1>1. 0 \in 0 .. MaxOpens /\ 0 \in 0 .. MaxFailures
  BY ServerAssumption
<1>2. queue \in Seq(Clients) /\ DOMAIN dirHandles \subseteq Nat
      /\ dirHandles \in [DOMAIN dirHandles -> Dirs]
  BY Empty DEF Init
<1>3. client \in [Clients -> ClientState] /\ worker \in [Workers -> WorkerState]
  BY IdleIsState DEF Init
<1>4. nextDirHandle \in Nat \ {0} /\ lost \subseteq Nat
  BY DEF Init
<1>6. woken \in BOOLEAN /\ main \in {"signals", "umount", "wake", "return", "exited"}
  BY DEF Init
<1>5. opens \in 0 .. MaxOpens /\ failures \in 0 .. MaxFailures
  BY <1>1 DEF Init
<1> QED
  BY <1>2, <1>3, <1>4, <1>5, <1>6 DEF TypeOK

LEMMA ClientsType ==
  ASSUME TypeOK, NEW c \in Clients,
         OpenDir(c) \/ ReadDir(c) \/ Rewind(c) \/ CloseDir(c) \/ Stateless(c)
  PROVE  TypeOK'
<1>1. client[c] \in ClientState /\ Append(queue, c) \in Seq(Clients)
  BY DEF TypeOK
<1>2. ASSUME NEW op \in Ops
      PROVE  [client[c] EXCEPT !.op = op] \in ClientState
  BY <1>1, <1>2 DEF ClientState
<1>3. ASSUME OpenDir(c)
      PROVE  TypeOK'
  <2>1. PICK d \in Dirs : client' = [client EXCEPT
                       ![c] = [NoStream EXCEPT !.op = "opendir", !.dir = d]]
    BY <1>3 DEF OpenDir
  <2>2. opens' \in 0 .. MaxOpens
    <3>1. opens \in 0 .. MaxOpens /\ opens < MaxOpens /\ opens' = opens + 1
      BY <1>3 DEF OpenDir, TypeOK
    <3> QED
      BY <3>1, ServerAssumption
  <2>3. [NoStream EXCEPT !.op = "opendir", !.dir = d] \in ClientState
    BY IdleIsState DEF ClientState, Ops
  <2> QED
    BY <1>1, <1>3, <2>1, <2>2, <2>3 DEF OpenDir, Request, TypeOK
<1>4. ASSUME ReadDir(c)
      PROVE  TypeOK'
  BY <1>1, <1>2, <1>4 DEF ReadDir, Request, TypeOK, Ops
<1>5. ASSUME Rewind(c)
      PROVE  TypeOK'
  <2>1. << >> \in Seq(STRING)
    OBVIOUS
  <2>2. [client[c] EXCEPT !.off = 0, !.got = << >>, !.eof = FALSE] \in ClientState
    BY <1>1, <2>1 DEF ClientState
  <2>3. client' = [client EXCEPT ![c] =
                     [client[c] EXCEPT !.off = 0, !.got = << >>, !.eof = FALSE]]
    BY <1>5 DEF Rewind
  <2> QED
    BY <1>5, <2>2, <2>3 DEF Rewind, TypeOK
<1>6. ASSUME CloseDir(c)
      PROVE  TypeOK'
  BY <1>1, <1>2, <1>6 DEF CloseDir, Request, TypeOK, Ops
<1>7. ASSUME Stateless(c)
      PROVE  TypeOK'
  BY <1>1, <1>2, <1>7 DEF Stateless, Request, TypeOK, Ops
<1> QED
  BY <1>3, <1>4, <1>5, <1>6, <1>7

(* The loop of readdir, from offset off on, with room for n entries.          *)
Batch(all, off, n) ==
  [i \in 1 .. n |-> [name |-> all[off + i], off |-> EntryOffset(off + i - 1)]]

LEMMA BatchOf ==
  ASSUME NEW all \in Seq(STRING), NEW off \in Nat, NEW n \in Nat, off + n <= Len(all)
  PROVE  /\ Batch(all, off, n) \in Seq(Listed) /\ Len(Batch(all, off, n)) = n
         /\ \A i \in 1 .. n :
              Batch(all, off, n)[i] = [name |-> all[off + i], off |-> off + i]
<1>1. ASSUME NEW i \in 1 .. n
      PROVE  /\ all[off + i] \in STRING /\ off + i \in Nat
             /\ EntryOffset(off + i - 1) = off + i
  BY DEF EntryOffset
<1> PICK b : b = Batch(all, off, n)
  OBVIOUS
<1>2. b = [i \in 1 .. n |-> [name |-> all[off + i], off |-> off + i]]
  BY <1>1 DEF Batch
<1>3. b \in [1 .. n -> Listed]
  BY <1>1, <1>2 DEF Listed
<1>4. b \in Seq(Listed) /\ Len(b) = n
  BY <1>3
<1> QED
  BY <1>2, <1>4

LEMMA EntriesStep ==
  ASSUME TypeOK, NEW w \in Workers, ReadDirEntries(w),
         NEW k, k = client[worker[w].client], NEW all, all = DirEntries[worker[w].dir]
  PROVE  /\ k.off \in Nat /\ all \in Seq(STRING)
         /\ \E n \in Nat :
              /\ k.off + n <= Len(all) /\ (n = 0 => k.off >= Len(all))
              /\ worker' = [worker EXCEPT ![w].pc = "reply",
                                          ![w].list = Batch(all, k.off, n)]
<1>1. worker[w] \in WorkerState /\ k \in ClientState
  BY DEF TypeOK, WorkerState
<1>2. k.off \in Nat /\ worker[w].dir \in Dirs
  BY <1>1 DEF ClientState, WorkerState
<1>3. all \in Seq(STRING)
  BY <1>2, ServerAssumption
<1>4. \E n \in 0 .. MaxBatch :
        /\ k.off + n <= Len(all) /\ (n = 0 => k.off >= Len(all))
        /\ worker' = [worker EXCEPT ![w].pc = "reply",
                                    ![w].list = Batch(all, k.off, n)]
  BY DEF ReadDirEntries, Batch
<1>5. \A n \in 0 .. MaxBatch : n \in Nat
  BY ServerAssumption
<1> QED
  BY <1>2, <1>3, <1>4, <1>5

LEMMA HandlersType ==
  ASSUME TypeOK, NEW w \in Workers,
         OpenDirCounter(w) \/ OpenDirInsert(w) \/ ReadDirHandle(w)
           \/ ReadDirEntries(w) \/ ReleaseDir(w) \/ StatelessOp(w)
  PROVE  TypeOK'
<1>0. /\ worker[w] \in WorkerState
      /\ [worker[w] EXCEPT !.pc = "reply"] \in WorkerState
  BY DEF TypeOK, WorkerState
<1>1. ASSUME OpenDirCounter(w)
      PROVE  TypeOK'
  <2>0. /\ [worker[w] EXCEPT !.pc = "reply", !.err = "EIO"] \in WorkerState
        /\ [worker[w] EXCEPT !.pc = "insert", !.handle = nextDirHandle] \in WorkerState
    BY <1>0 DEF TypeOK, WorkerState
  <2>1. worker' \in [Workers -> WorkerState]
    <3>1. \/ worker' = [worker EXCEPT ![w] =
                         [worker[w] EXCEPT !.pc = "reply", !.err = "EIO"]]
          \/ worker' = [worker EXCEPT ![w] =
                         [worker[w] EXCEPT !.pc = "insert", !.handle = nextDirHandle]]
      BY <1>1 DEF OpenDirCounter
    <3> QED
      BY <3>1, <2>0 DEF TypeOK
  <2>2. nextDirHandle' \in Nat \ {0}
    BY <1>1 DEF OpenDirCounter, FetchAdd, TypeOK
  <2> QED
    BY <1>1, <2>1, <2>2 DEF OpenDirCounter, TypeOK
<1>2. ASSUME OpenDirInsert(w)
      PROVE  TypeOK'
  <2>1. client[worker[w].client].dir \in Dirs /\ worker[w].handle \in Nat
    BY DEF TypeOK, WorkerState, ClientState
  <2>2. /\ dirHandles' \in [DOMAIN dirHandles' -> Dirs]
        /\ DOMAIN dirHandles' \subseteq Nat
    BY <1>2, <2>1 DEF OpenDirInsert, TypeOK
  <2> QED
    BY <1>0, <1>2, <2>2 DEF OpenDirInsert, TypeOK
<1>3. ASSUME ReadDirHandle(w)
      PROVE  TypeOK'
  <2> DEFINE h == client[worker[w].client].handle
  <2>0. /\ [worker[w] EXCEPT !.pc = "reply", !.err = "EBADF"] \in WorkerState
        /\ h \in DOMAIN dirHandles =>
             [worker[w] EXCEPT !.pc = "entries", !.dir = dirHandles[h]] \in WorkerState
    BY <1>0 DEF TypeOK, WorkerState
  <2>1. worker' \in [Workers -> WorkerState]
    <3>1. \/ worker' = [worker EXCEPT ![w] =
                         [worker[w] EXCEPT !.pc = "reply", !.err = "EBADF"]]
          \/ /\ h \in DOMAIN dirHandles
             /\ worker' = [worker EXCEPT ![w] =
                         [worker[w] EXCEPT !.pc = "entries", !.dir = dirHandles[h]]]
      BY <1>3 DEF ReadDirHandle
    <3> QED
      BY <3>1, <2>0 DEF TypeOK
  <2> QED
    BY <1>3, <2>1 DEF ReadDirHandle, TypeOK
<1>4. ASSUME ReadDirEntries(w)
      PROVE  TypeOK'
  <2> PICK k, all : k = client[worker[w].client] /\ all = DirEntries[worker[w].dir]
    OBVIOUS
  <2>1. PICK n \in Nat :
          /\ k.off \in Nat /\ all \in Seq(STRING) /\ k.off + n <= Len(all)
          /\ worker' = [worker EXCEPT ![w].pc = "reply", ![w].list = Batch(all, k.off, n)]
    BY <1>4, EntriesStep
  <2>2. PICK b \in Seq(Listed) : b = Batch(all, k.off, n)
    BY <2>1, BatchOf
  <2>3. worker' = [worker EXCEPT ![w] = [worker[w] EXCEPT !.pc = "reply", !.list = b]]
    BY <2>1, <2>2
  <2>4. [worker[w] EXCEPT !.pc = "reply", !.list = b] \in WorkerState
    BY <1>0 DEF WorkerState
  <2>6. worker' \in [Workers -> WorkerState]
    BY <2>3, <2>4 DEF TypeOK
  <2> QED
    BY <1>4, <2>6 DEF ReadDirEntries, TypeOK
<1>5. ASSUME ReleaseDir(w)
      PROVE  TypeOK'
  <2>1. /\ dirHandles' \in [DOMAIN dirHandles' -> Dirs]
        /\ DOMAIN dirHandles' \subseteq Nat
    BY <1>5 DEF ReleaseDir, Without, TypeOK
  <2> QED
    BY <1>0, <1>5, <2>1 DEF ReleaseDir, TypeOK
<1>6. ASSUME StatelessOp(w)
      PROVE  TypeOK'
  BY <1>0, <1>6 DEF StatelessOp, TypeOK
<1> QED
  BY <1>1, <1>2, <1>3, <1>4, <1>5, <1>6

(* The names of the entries of a reply.                                      *)
LEMMA NamesOf ==
  ASSUME NEW l \in Seq(Listed), NEW names, names = [i \in 1 .. Len(l) |-> l[i].name]
  PROVE  /\ names \in Seq(STRING) /\ Len(names) = Len(l)
         /\ \A i \in 1 .. Len(l) : names[i] = l[i].name
         /\ l # << >> => Len(l) > 0 /\ Last(l) = l[Len(l)] /\ Last(l) \in Listed
<1>1. Len(l) \in Nat /\ \A i \in 1 .. Len(l) : l[i] \in Listed
  OBVIOUS
<1>2. names \in [1 .. Len(l) -> STRING]
  BY <1>1 DEF Listed
<1>3. names \in Seq(STRING) /\ Len(names) = Len(l)
  BY <1>1, <1>2
<1>4. l # << >> => Len(l) > 0
  BY <1>1
<1> QED
  BY <1>1, <1>3, <1>4 DEF Last

(* What a client makes of a reply.                                          *)
LEMMA ReceiveType ==
  ASSUME NEW k \in ClientState, NEW r \in WorkerState, k.op # "none"
  PROVE  Receive(k, r) \in ClientState
<1> DEFINE names == [i \in 1 .. Len(r.list) |-> r.list[i].name]
<1>1. /\ k.op \in Ops /\ k.got \in Seq(STRING) /\ k.off \in Nat
      /\ r.handle \in Nat /\ r.list \in Seq(Listed) /\ r.err \in {"none", "EIO", "EBADF"}
  BY DEF ClientState, WorkerState
<1>2. names \in Seq(STRING)
  BY <1>1, NamesOf
<1>3. k.got \o names \in Seq(STRING)
  BY <1>1, <1>2
<1>4. r.list # << >> => Last(r.list).off \in Nat
  <2>1. r.list # << >> => Last(r.list) \in Listed
    BY <1>1, NamesOf
  <2> QED
    BY <2>1 DEF Listed
<1>5. CASE r.err # "none"
  <2>1. Receive(k, r) = [k EXCEPT !.op = "none", !.err = r.err]
    BY <1>5 DEF Receive
  <2>2. r.err \in {"none", "EIO", "EBADF", "ECONNABORTED", "ENOTCONN"}
    BY <1>1
  <2> QED
    BY <2>1, <2>2 DEF ClientState
<1>6. CASE r.err = "none" /\ k.op = "opendir"
  BY <1>1, <1>6 DEF Receive, ClientState
<1>7. CASE r.err = "none" /\ k.op = "readdir"
  <2> DEFINE off == IF r.list = << >> THEN k.off ELSE Last(r.list).off
             got == k.got \o names
  <2>1. Receive(k, r) = [k EXCEPT !.op = "none", !.got = got, !.off = off,
                                  !.eof = (r.list = << >>)]
    BY <1>7 DEF Receive
  <2>2. off \in Nat /\ got \in Seq(STRING) /\ (r.list = << >>) \in BOOLEAN
    BY <1>1, <1>3, <1>4
  <2> HIDE DEF off, got
  <2> QED
    BY <2>1, <2>2 DEF ClientState
<1>8. CASE r.err = "none" /\ k.op = "releasedir"
  BY <1>8, IdleIsState DEF Receive
<1>9. CASE r.err = "none" /\ k.op = "stateless"
  BY <1>1, <1>9 DEF Receive, ClientState
<1> QED
  BY <1>1, <1>5, <1>6, <1>7, <1>8, <1>9 DEF Ops

LEMMA LoopType ==
  ASSUME Inv1, NEW w \in Workers,
         GetRequest(w) \/ Reply(w) \/ ReplyFails(w) \/ GetRequestFails(w)
           \/ GetRequestWoken(w)
  PROVE  TypeOK'
<1> DEFINE c == worker[w].client
<1>0. /\ TypeOK /\ worker[w] \in WorkerState /\ c \in Clients
      /\ client[c] \in ClientState
      /\ [worker[w] EXCEPT !.pc = "exited"] \in WorkerState
      /\ [IdleWorker EXCEPT !.pc = "exited"] \in WorkerState
  BY IdleIsState DEF Inv1, TypeOK, WorkerState
<1>1. ASSUME GetRequest(w)
      PROVE  TypeOK'
  <2> DEFINE h == Head(queue)
  <2>1. queue' \in Seq(Clients) /\ h \in Clients /\ Waiting(h)
    BY <1>0, <1>1, QueueTail DEF GetRequest, Inv1, TypeOK, QueueOK
  <2>2. client[h].op \in Ops
    BY <1>0, <2>1 DEF TypeOK, ClientState, Waiting
  <2>3. [IdleWorker EXCEPT !.pc = client[h].op, !.client = h] \in WorkerState
    BY <2>1, <2>2, IdleIsState DEF WorkerState
  <2> QED
    BY <1>0, <1>1, <2>1, <2>3 DEF GetRequest, TypeOK
<1>2. ASSUME Reply(w)
      PROVE  TypeOK'
  <2>1. client[c].op # "none"
    BY <1>2 DEF Reply, Inv1, ServeOK, Busy, Waiting
  <2>2. Receive(client[c], worker[w]) \in ClientState
    BY <1>0, <2>1, ReceiveType
  <2> QED
    BY <1>0, <1>2, <2>2, IdleIsState DEF Reply, AfterReply, TypeOK
<1>3. ASSUME ReplyFails(w)
      PROVE  TypeOK'
  <2>1. failures' \in 0 .. MaxFailures
    BY <1>0, <1>3, ServerAssumption DEF ReplyFails, TypeOK
  <2>2. ASSUME NEW k \in ClientState
        PROVE  [k EXCEPT !.op = "none", !.err = "ECONNABORTED"] \in ClientState
    BY DEF ClientState
  <2>3. client' \in [Clients -> ClientState]
    BY <1>0, <1>3, <2>2, IdleIsState DEF ReplyFails, TypeOK
  <2>4. worker[w].handle \in Nat
    BY <1>0 DEF WorkerState
  <2>5. lost' \subseteq Nat
    BY <1>0, <1>3, <2>4 DEF ReplyFails, TypeOK
  <2> QED
    BY <1>0, <1>3, <2>1, <2>3, <2>5 DEF ReplyFails, TypeOK
<1>4. ASSUME GetRequestFails(w)
      PROVE  TypeOK'
  <2>1. failures' \in 0 .. MaxFailures
    BY <1>0, <1>4, ServerAssumption DEF GetRequestFails, TypeOK
  <2> QED
    BY <1>0, <1>4, <2>1 DEF GetRequestFails, TypeOK
<1>5. ASSUME GetRequestWoken(w)
      PROVE  TypeOK'
  BY <1>0, <1>5 DEF GetRequestWoken, TypeOK
<1> QED
  BY <1>1, <1>2, <1>3, <1>4, <1>5

LEMMA MainType ==
  ASSUME TypeOK, Signal \/ MainStep
  PROVE  TypeOK'
<1>1. ASSUME ProcessEnds
      PROVE  TypeOK'
  <2>1. queue' = << >> /\ dirHandles' = << >>
    BY <1>1 DEF ProcessEnds
  <2>2. ASSUME NEW k \in ClientState
        PROVE  [k EXCEPT !.op = "none", !.err = "ENOTCONN"] \in ClientState
    BY DEF ClientState
  <2>3. client' \in [Clients -> ClientState]
    BY <1>1, <2>2 DEF ProcessEnds, TypeOK
  <2>4. /\ queue' \in Seq(Clients) /\ DOMAIN dirHandles' \subseteq Nat
        /\ dirHandles' \in [DOMAIN dirHandles' -> Dirs]
    BY <2>1, Empty
  <2>5. [IdleWorker EXCEPT !.pc = "exited"] \in WorkerState
    BY IdleIsState DEF WorkerState
  <2> QED
    BY <1>1, <2>3, <2>4, <2>5 DEF ProcessEnds, TypeOK
<1>2. CASE Signal \/ Umount \/ Wake
  BY <1>2 DEF Signal, Umount, Wake, TypeOK
<1> QED
  BY <1>1, <1>2 DEF MainStep, UmountFails, WakeFails, Return

-----------------------------------------------------------------------------
(* What the steps of a worker change.                                      *)

Handler(w) ==
  \/ OpenDirCounter(w) \/ OpenDirInsert(w) \/ ReadDirHandle(w)
  \/ ReadDirEntries(w) \/ ReleaseDir(w) \/ StatelessOp(w)

LEMMA BusyRuns ==
  ASSUME Inv1, NEW w \in Workers, Busy(w)
  PROVE  /\ Running /\ worker[w].client \in Clients
         /\ client[worker[w].client].op \in Ops
<1>1. worker[w].client \in Clients /\ Running
  BY DEF Inv1, TypeOK, WorkerState, DownOK, Busy, Exited
<1>2. client[worker[w].client].op # "none"
  BY DEF Inv1, ServeOK, Waiting
<1> QED
  BY <1>1, <1>2 DEF Inv1, TypeOK, ClientState

(* A stream that is read has its handle in the table.                        *)
LEMMA HandleFound ==
  ASSUME Inv1, TableOK, NEW w \in Workers, worker[w].pc = "readdir"
  PROVE  LET c == worker[w].client
         IN /\ client[c].op = "readdir"
            /\ client[c].handle \in DOMAIN dirHandles
            /\ dirHandles[client[c].handle] = client[c].dir
<1>1. Running /\ worker[w].client \in Clients
  BY BusyRuns DEF Busy
<1>2. client[worker[w].client].op = "readdir"
  BY DEF Inv1, PhaseOK
<1>3. client[worker[w].client].handle # 0 /\ ~ Released(worker[w].client)
  BY <1>1, <1>2 DEF Inv1, ClientOK, Released
<1> QED
  BY <1>1, <1>2, <1>3 DEF TableOK

LEMMA HandlerStep ==
  ASSUME Inv1, TableOK, NEW w \in Workers, Handler(w)
  PROVE  /\ UNCHANGED <<client, queue, main, lost>>
         /\ Busy(w) /\ Busy(w)' /\ worker[w].pc # "reply"
         /\ \A v \in Workers : v # w => worker'[v] = worker[v]
         /\ worker'[w].client = worker[w].client
         /\ worker'[w].err # "none" =>
              /\ worker'[w].pc = "reply" /\ worker[w].pc = "opendir"
              /\ worker'[w].handle = 0 /\ worker'[w].err # "EBADF"
         /\ \/ /\ worker'[w].pc = "reply"
               /\ worker'[w].handle = worker[w].handle
            \/ /\ worker[w].pc = "opendir" /\ worker'[w].pc = "insert"
               /\ worker'[w].handle = nextDirHandle
            \/ /\ worker[w].pc = "readdir" /\ worker'[w].pc = "entries"
               /\ worker'[w].handle = worker[w].handle
<1>1. /\ worker \in [Workers -> WorkerState]
      /\ worker[w].pc # "reply" => worker[w].err = "none"
      /\ worker[w].pc \notin {"insert", "reply"} => worker[w].handle = 0
  BY DEF Inv1, TypeOK, PhaseOK
<1>2. /\ UNCHANGED <<client, queue, main, lost>>
      /\ worker[w].pc \in {"opendir", "insert", "readdir", "entries", "releasedir", "stateless"}
  BY DEF Handler, OpenDirCounter, OpenDirInsert, ReadDirHandle, ReadDirEntries,
         ReleaseDir, StatelessOp
<1>3. CASE OpenDirCounter(w)
  BY <1>1, <1>2, <1>3 DEF OpenDirCounter, Busy, WorkerState
<1>4. CASE OpenDirInsert(w) \/ ReleaseDir(w) \/ StatelessOp(w)
  BY <1>1, <1>2, <1>4 DEF OpenDirInsert, ReleaseDir, StatelessOp, Busy, WorkerState
<1>5. CASE ReadDirHandle(w)
  <2>1. client[worker[w].client].handle \in DOMAIN dirHandles
    BY <1>5, HandleFound DEF ReadDirHandle
  <2>2. worker' = [worker EXCEPT ![w].pc = "entries",
                         ![w].dir = dirHandles[client[worker[w].client].handle]]
    BY <1>5, <2>1 DEF ReadDirHandle
  <2> QED
    BY <1>1, <1>2, <1>5, <2>2 DEF ReadDirHandle, Busy, WorkerState
<1>6. CASE ReadDirEntries(w)
  <2>1. PICK l : worker' = [worker EXCEPT ![w].pc = "reply", ![w].list = l]
    BY <1>6 DEF ReadDirEntries
  <2> QED
    BY <1>1, <1>2, <1>6, <2>1 DEF Busy, WorkerState
<1> QED
  BY <1>3, <1>4, <1>5, <1>6 DEF Handler

LEMMA HandlerInv1 ==
  ASSUME Inv1, TableOK, NEW w \in Workers, Handler(w)
  PROVE  Inv1'
<1> USE HandlerStep
<1>1. TypeOK'
  BY HandlersType DEF Handler, Inv1
<1>2. QueueOK' /\ ClientOK'
  BY DEF Inv1, QueueOK, Queued, Waiting, ClientOK
<1>3. ServeOK'
  <2>1. \A v \in Workers : Busy(v)' = Busy(v) /\ worker'[v].client = worker[v].client
    BY DEF Busy
  <2> QED
    BY <2>1 DEF Inv1, ServeOK, Waiting, Queued
<1>4. PhaseOK'
  <2>1. nextDirHandle # 0
    BY DEF Inv1, TypeOK
  <2> QED
    BY <2>1 DEF Inv1, PhaseOK
<1>5. DownOK'
  BY BusyRuns DEF DownOK, Running
<1> QED
  BY <1>1, <1>2, <1>3, <1>4, <1>5 DEF Inv1

-----------------------------------------------------------------------------
(* What the other steps change.                                            *)

ClientCall(c) ==
  OpenDir(c) \/ ReadDir(c) \/ Rewind(c) \/ CloseDir(c) \/ Stateless(c)

LEMMA ClientStep ==
  ASSUME Inv1, NEW c \in Clients, ClientCall(c)
  PROVE  /\ UNCHANGED <<worker, dirHandles, nextDirHandle, main, lost>>
         /\ Running /\ ~ Waiting(c)
         /\ \A d \in Clients : d # c => client'[d] = client[d]
         /\ client'[c].handle = client[c].handle
         /\ \/ /\ client[c].handle # 0 /\ client'[c].dir = client[c].dir
               /\ client'[c].off = client[c].off /\ client'[c].got = client[c].got
               /\ client'[c].eof = client[c].eof
            \/ /\ client'[c].off = 0 /\ client'[c].got = << >> /\ client'[c].eof = FALSE
               /\ client'[c].dir = client[c].dir \/ client[c].handle = 0
            \/ client[c].handle = 0 /\ client'[c].op = "stateless"
<1>1. client \in [Clients -> ClientState]
  BY DEF Inv1, TypeOK
<1>2. CASE OpenDir(c)
  BY <1>1, <1>2 DEF OpenDir, Request, NoStream, ClientState
<1>3. CASE ReadDir(c) \/ CloseDir(c)
  BY <1>1, <1>3 DEF ReadDir, CloseDir, Request, ClientState
<1>4. CASE Rewind(c)
  BY <1>1, <1>4 DEF Rewind, ClientState
<1>5. CASE Stateless(c)
  BY <1>1, <1>5 DEF Stateless, Request, ClientState
<1> QED
  BY <1>2, <1>3, <1>4, <1>5 DEF ClientCall

LEMMA ClientInv1 ==
  ASSUME Inv1, NEW c \in Clients, ClientCall(c)
  PROVE  Inv1'
<1>1. TypeOK'
  BY ClientsType DEF Inv1, ClientCall
<1>2. client[c] \in ClientState /\ client[c].err # "EBADF"
  BY DEF Inv1, TypeOK, ClientOK
<1>3. CASE OpenDir(c)
  <2>1. PICK d \in Dirs : client' = [client EXCEPT
                       ![c] = [NoStream EXCEPT !.op = "opendir", !.dir = d]]
    BY <1>3 DEF OpenDir
  <2> DEFINE r == [NoStream EXCEPT !.op = "opendir", !.dir = d]
  <2>2. r.op = "opendir" /\ r.handle = 0 /\ r.err = "none"
    BY DEF NoStream
  <2>3. Request(c) /\ client' = [client EXCEPT ![c] = r]
    BY <1>3, <2>1 DEF OpenDir
  <2> HIDE DEF r
  <2> QED
    BY <1>1, <2>2, <2>3, RequestInv1 DEF Ops
<1>4. ASSUME NEW op \in {"readdir", "releasedir", "stateless"}, Request(c),
             client' = [client EXCEPT ![c].op = op],
             IF op = "stateless" THEN client[c].handle = 0 ELSE client[c].handle # 0
      PROVE  Inv1'
  <2> DEFINE r == [client[c] EXCEPT !.op = op]
  <2>1. r.op = op /\ r.handle = client[c].handle /\ r.err = client[c].err
    BY <1>2 DEF ClientState
  <2>2. client' = [client EXCEPT ![c] = r]
    BY <1>4
  <2> HIDE DEF r
  <2> QED
    <3>1. /\ r.op \in Ops /\ r.err # "EBADF"
          /\ r.op \in {"opendir", "stateless"} => r.handle = 0
          /\ r.op \in {"readdir", "releasedir"} => r.handle # 0
      BY <1>2, <1>4, <2>1 DEF Ops
    <3> QED
      BY <1>1, <1>4, <2>2, <3>1, RequestInv1
<1>5. CASE ReadDir(c) \/ CloseDir(c) \/ Stateless(c)
  BY <1>4, <1>5 DEF ReadDir, CloseDir, Stateless
<1>6. CASE Rewind(c)
  <2>1. /\ UNCHANGED <<queue, worker, main>>
        /\ \A d \in Clients : /\ client'[d].op = client[d].op
                              /\ client'[d].handle = client[d].handle
                              /\ client'[d].err = client[d].err
    BY <1>6 DEF Rewind, Inv1, TypeOK, ClientState
  <2>2. QueueOK' /\ ClientOK' /\ DownOK'
    BY <2>1 DEF Inv1, QueueOK, Queued, Waiting, ClientOK, DownOK, Running, Exited
  <2>3. \A w \in Workers : worker[w].client \in Clients
    BY DEF Inv1, TypeOK, WorkerState
  <2>4. ServeOK' /\ PhaseOK'
    BY <2>1, <2>3 DEF Inv1, ServeOK, Waiting, Queued, Busy, PhaseOK
  <2> QED
    BY <1>1, <2>2, <2>4 DEF Inv1
<1> QED
  BY <1>3, <1>5, <1>6 DEF ClientCall

(* A worker takes a request, or ends because it cannot.                      *)
Take(w) == GetRequest(w) \/ GetRequestFails(w) \/ GetRequestWoken(w)

LEMMA TakeStep ==
  ASSUME Inv1, NEW w \in Workers, Take(w)
  PROVE  /\ UNCHANGED <<client, dirHandles, nextDirHandle, main, lost>>
         /\ worker[w].pc = "get_request"
         /\ \A v \in Workers : v # w => worker'[v] = worker[v]
         /\ worker'[w].handle = 0 /\ worker'[w].err = "none"
         /\ worker'[w].pc \in Ops \cup {"exited"}
<1>1. /\ worker \in [Workers -> WorkerState]
      /\ worker[w].pc = "get_request" => worker[w].handle = 0 /\ worker[w].err = "none"
  BY DEF Inv1, TypeOK, PhaseOK
<1>2. CASE GetRequest(w)
  <2>1. Head(queue) \in Clients /\ client[Head(queue)].op # "none"
    BY <1>2, QueueTail DEF GetRequest, Inv1, TypeOK, QueueOK, Waiting
  <2>2. client[Head(queue)].op \in Ops
    BY <2>1 DEF Inv1, TypeOK, ClientState
  <2> QED
    BY <1>1, <1>2, <2>2 DEF GetRequest, IdleWorker
<1>3. CASE GetRequestFails(w) \/ GetRequestWoken(w)
  BY <1>1, <1>3 DEF GetRequestFails, GetRequestWoken, WorkerState
<1> QED
  BY <1>2, <1>3 DEF Take

LEMMA TakeInv1 ==
  ASSUME Inv1, NEW w \in Workers, Take(w)
  PROVE  Inv1'
<1> USE TakeStep
<1>1. TypeOK'
  BY LoopType DEF Take
<1>2. CASE GetRequest(w)
  <2> DEFINE h == Head(queue)
  <2>1. queue # << >> /\ queue' = Tail(queue) /\ worker[w].pc = "get_request"
    BY <1>2 DEF GetRequest
  <2>2. /\ h \in Clients /\ Queued(h)
        /\ \A i, j \in 1 .. Len(queue') : queue'[i] = queue'[j] => i = j
        /\ \A d : Queued(d)' => Queued(d) /\ d # h
    BY <2>1, QueueTail DEF Inv1, TypeOK
  <2>3. Waiting(h) /\ client[h].op \in Ops
    BY <2>2 DEF Inv1, QueueOK, Waiting, TypeOK, ClientState
  <2>4. worker'[w].client = h /\ worker'[w].pc = client[h].op
    BY <1>2 DEF GetRequest, IdleWorker, Inv1, TypeOK
  <2>5. QueueOK' /\ ClientOK'
    BY <2>2 DEF Inv1, QueueOK, Waiting, ClientOK
  <2>6. \A v \in Workers : Busy(v) => worker[v].client # h /\ v # w
    BY <2>1, <2>2 DEF Inv1, ServeOK, Busy
  <2>7. ServeOK'
    <3>1. \A v \in Workers : v # w => (Busy(v)' <=> Busy(v))
      BY DEF Busy
    <3> QED
      BY <2>2, <2>3, <2>4, <2>6, <3>1 DEF Inv1, ServeOK, Waiting
  <2>8. PhaseOK'
    BY <2>3, <2>4 DEF Inv1, PhaseOK, Ops
  <2>9. DownOK'
    BY <2>1 DEF Inv1, DownOK, Running
  <2> QED
    BY <1>1, <2>5, <2>7, <2>8, <2>9 DEF Inv1
<1>3. CASE GetRequestFails(w) \/ GetRequestWoken(w)
  <2>1. queue' = queue /\ worker'[w].pc = "exited"
    BY <1>3 DEF GetRequestFails, GetRequestWoken, Inv1, TypeOK, WorkerState
  <2>2. QueueOK' /\ ClientOK' /\ DownOK'
    BY <2>1 DEF Inv1, QueueOK, Queued, Waiting, ClientOK, DownOK, Running, Exited
  <2>3. ServeOK' /\ PhaseOK'
    BY <2>1 DEF Inv1, ServeOK, Waiting, Queued, Busy, PhaseOK
  <2> QED
    BY <1>1, <2>2, <2>3 DEF Inv1
<1> QED
  BY <1>2, <1>3 DEF Take

(* A call ends, with its reply or with the loss of it.                       *)
Answers(w) == Reply(w) \/ ReplyFails(w)

LEMMA AnswerStep ==
  ASSUME Inv1, NEW w \in Workers, Answers(w), NEW c, c = worker[w].client
  PROVE  /\ UNCHANGED <<queue, dirHandles, nextDirHandle, main>>
         /\ Running /\ worker[w].pc = "reply" /\ c \in Clients /\ Waiting(c)
         /\ \A v \in Workers : v # w => worker'[v] = worker[v]
         /\ worker'[w].handle = 0 /\ worker'[w].err = "none"
         /\ worker'[w].pc \in {"get_request", "exited"}
         /\ \A d \in Clients : d # c => client'[d] = client[d]
         /\ client'[c].op = "none" /\ client'[c].err # "EBADF"
         /\ \/ /\ client[c].op = "releasedir" /\ client'[c].handle = 0
               /\ lost' = lost
            \/ /\ client[c].op = "opendir" /\ client[c].handle = 0
               /\ client'[c].handle = worker[w].handle /\ lost' = lost
               /\ client'[c].dir = client[c].dir /\ client'[c].off = client[c].off
               /\ client'[c].got = client[c].got /\ client'[c].eof = client[c].eof
            \/ /\ client[c].op = "opendir" /\ client'[c].handle = 0
               /\ lost' = IF worker[w].handle # 0 THEN lost \cup {worker[w].handle}
                                                  ELSE lost
            \/ /\ client[c].op \in {"readdir", "stateless"} /\ lost' = lost
               /\ client'[c].handle = client[c].handle
               /\ client'[c].dir = client[c].dir
               /\ \/ /\ client'[c].off = client[c].off
                     /\ client'[c].got = client[c].got
                     /\ client'[c].eof = client[c].eof
                  \/ /\ client[c].op = "readdir" /\ worker[w].err = "none"
                     /\ client'[c] = Receive(client[c], worker[w])
<1> DEFINE k == client[c]
           r == worker[w]
<1>1. r.pc = "reply"
  BY DEF Answers, Reply, ReplyFails
<1>2. Running /\ c \in Clients /\ k.op \in Ops /\ Waiting(c)
  BY <1>1, BusyRuns DEF Busy, Waiting, Ops
<1>3. /\ client \in [Clients -> ClientState] /\ worker \in [Workers -> WorkerState]
      /\ k \in ClientState /\ k.err # "EBADF"
      /\ k.op = "opendir" => k.handle = 0
      /\ r.handle # 0 => k.op = "opendir"
      /\ r.err # "none" => k.op = "opendir" /\ r.handle = 0 /\ r.err # "EBADF"
  BY <1>2 DEF Inv1, TypeOK, ClientOK, PhaseOK
<1>4. /\ UNCHANGED <<queue, dirHandles, nextDirHandle, main>>
      /\ \A v \in Workers : v # w => worker'[v] = worker[v]
      /\ worker'[w].handle = 0 /\ worker'[w].err = "none"
      /\ worker'[w].pc \in {"get_request", "exited"}
      /\ \A d \in Clients : d # c => client'[d] = client[d]
  <2>1. \/ worker' = [worker EXCEPT ![w] = IdleWorker]
        \/ worker' = [worker EXCEPT ![w] = [IdleWorker EXCEPT !.pc = "exited"]]
    BY DEF Answers, Reply, ReplyFails, AfterReply
  <2>2. \/ worker'[w] = IdleWorker
        \/ worker'[w] = [IdleWorker EXCEPT !.pc = "exited"]
    BY <1>3, <2>1
  <2>3. /\ worker'[w].handle = 0 /\ worker'[w].err = "none"
        /\ worker'[w].pc \in {"get_request", "exited"}
    BY <2>2 DEF IdleWorker
  <2>4. UNCHANGED <<queue, dirHandles, nextDirHandle, main>>
    BY DEF Answers, Reply, ReplyFails
  <2>5. \A d \in Clients : d # c => client'[d] = client[d]
    BY <1>3 DEF Answers, Reply, ReplyFails
  <2> QED
    BY <1>3, <2>1, <2>3, <2>4, <2>5
<1>5. CASE Reply(w)
  <2>1. client'[c] = Receive(k, r) /\ lost' = lost
    BY <1>2, <1>3, <1>5 DEF Reply
  <2>2. CASE r.err # "none"
    <3>1. Receive(k, r) = [k EXCEPT !.op = "none", !.err = r.err]
      BY <2>2 DEF Receive
    <3> QED
      BY <1>1, <1>2, <1>3, <1>4, <2>1, <2>2, <3>1 DEF ClientState
  <2>3. CASE r.err = "none" /\ k.op = "opendir"
    <3>1. Receive(k, r) = [k EXCEPT !.op = "none", !.handle = r.handle]
      BY <2>3 DEF Receive
    <3> QED
      BY <1>1, <1>2, <1>3, <1>4, <2>1, <2>3, <3>1 DEF ClientState
  <2>4. CASE r.err = "none" /\ k.op = "readdir"
    <3> DEFINE names == [i \in 1 .. Len(r.list) |-> r.list[i].name]
    <3>1. Receive(k, r) =
            [k EXCEPT !.op  = "none",
                      !.got = @ \o names,
                      !.off = IF r.list = << >> THEN @ ELSE Last(r.list).off,
                      !.eof = (r.list = << >>)]
      BY <2>4 DEF Receive
    <3> HIDE DEF names
    <3>2. /\ client'[c].op = "none" /\ client'[c].err = k.err
          /\ client'[c].handle = k.handle /\ client'[c].dir = k.dir
      BY <1>3, <2>1, <3>1 DEF ClientState
    <3> QED
      BY <1>1, <1>2, <1>3, <1>4, <2>1, <2>4, <3>2
  <2>5. CASE r.err = "none" /\ k.op = "releasedir"
    <3>1. Receive(k, r) = NoStream
      BY <2>5 DEF Receive
    <3> QED
      BY <1>1, <1>2, <1>3, <1>4, <2>1, <2>5, <3>1 DEF NoStream
  <2>6. CASE r.err = "none" /\ k.op = "stateless"
    <3>1. Receive(k, r) = [k EXCEPT !.op = "none"]
      BY <2>6 DEF Receive
    <3> QED
      BY <1>1, <1>2, <1>3, <1>4, <2>1, <2>6, <3>1 DEF ClientState
  <2> QED
    BY <1>2, <2>2, <2>3, <2>4, <2>5, <2>6 DEF Ops
<1>6. CASE ReplyFails(w)
  <2>1. client'[c] = [(IF k.op = "releasedir" THEN NoStream ELSE k)
                        EXCEPT !.op = "none", !.err = "ECONNABORTED"]
    BY <1>2, <1>3, <1>6 DEF ReplyFails
  <2>2. lost' = IF k.op = "opendir" /\ r.handle # 0
                  THEN lost \cup {r.handle} ELSE lost
    BY <1>6 DEF ReplyFails
  <2>3. CASE k.op = "releasedir"
    BY <1>1, <1>2, <1>4, <2>1, <2>2, <2>3 DEF NoStream
  <2>4. CASE k.op # "releasedir"
    <3>1. client'[c] = [k EXCEPT !.op = "none", !.err = "ECONNABORTED"]
      BY <2>1, <2>4
    <3>2. /\ client'[c].op = "none" /\ client'[c].err = "ECONNABORTED"
          /\ client'[c].handle = k.handle /\ client'[c].dir = k.dir
          /\ client'[c].off = k.off /\ client'[c].got = k.got
          /\ client'[c].eof = k.eof
      BY <1>3, <3>1 DEF ClientState
    <3> QED
      BY <1>1, <1>2, <1>3, <1>4, <2>2, <2>4, <3>2 DEF Ops
  <2> QED
    BY <2>3, <2>4
<1> QED
  BY <1>5, <1>6 DEF Answers

LEMMA AnswerInv1 ==
  ASSUME Inv1, NEW w \in Workers, Answers(w)
  PROVE  Inv1'
<1> DEFINE c == worker[w].client
<1>1. TypeOK'
  BY LoopType DEF Answers
<1>2. /\ queue' = queue /\ main' = main /\ Running
      /\ worker[w].pc = "reply" /\ c \in Clients
      /\ \A v \in Workers : v # w => worker'[v] = worker[v]
      /\ worker'[w].handle = 0 /\ worker'[w].err = "none"
      /\ worker'[w].pc \in {"get_request", "exited"}
      /\ \A d \in Clients : d # c => client'[d] = client[d]
      /\ client'[c].op = "none" /\ client'[c].err # "EBADF"
  BY AnswerStep
<1>3. /\ ~ Queued(c)
      /\ \A v \in Workers : Busy(v) /\ v # w => worker[v].client # c
  BY <1>2 DEF Inv1, ServeOK, Busy
<1>4. QueueOK' /\ ClientOK' /\ DownOK'
  BY <1>2, <1>3 DEF Inv1, QueueOK, Queued, Waiting, ClientOK, DownOK, Running
<1>5. \A v \in Workers : v # w => (Busy(v)' <=> Busy(v))
  BY <1>2 DEF Busy
<1>6. \A v \in Workers : worker[v].client \in Clients
  BY DEF Inv1, TypeOK, WorkerState
<1>7. ServeOK'
  BY <1>2, <1>3, <1>5, <1>6 DEF Inv1, ServeOK, Waiting, Queued, Busy
<1>8. PhaseOK'
  <2>1. \A v \in Workers : v # w /\ Busy(v) =>
          client'[worker'[v].client].op = client[worker[v].client].op
    BY <1>2, <1>3, <1>6
  <2>2. \A v \in Workers : ~ Busy(v) => worker[v].handle = 0 /\ worker[v].err = "none"
    BY DEF Inv1, PhaseOK, Busy
  <2> QED
    BY <1>2, <2>1, <2>2 DEF Inv1, PhaseOK, Busy
<1> QED
  BY <1>1, <1>4, <1>7, <1>8 DEF Inv1

(* The end of the process.                                                  *)
LEMMA EndStep ==
  ASSUME TypeOK, ProcessEnds
  PROVE  /\ queue' = << >> /\ dirHandles' = << >> /\ DOMAIN dirHandles' = {}
         /\ ~ Running' /\ UNCHANGED <<nextDirHandle, lost>>
         /\ \A w \in Workers : /\ worker'[w].pc = "exited" /\ worker'[w].handle = 0
                               /\ worker'[w].err = "none"
         /\ \A c \in Clients :
              /\ client'[c].op = "none" /\ client'[c].handle = client[c].handle
              /\ client[c].err # "EBADF" => client'[c].err # "EBADF"
              /\ client'[c].dir = client[c].dir /\ client'[c].off = client[c].off
              /\ client'[c].got = client[c].got /\ client'[c].eof = client[c].eof
<1>1. /\ queue' = << >> /\ dirHandles' = << >> /\ DOMAIN dirHandles' = {}
      /\ ~ Running' /\ UNCHANGED <<nextDirHandle, lost>>
  BY Empty DEF ProcessEnds, Running
<1>2. ASSUME NEW w \in Workers
      PROVE  worker'[w].pc = "exited" /\ worker'[w].handle = 0 /\ worker'[w].err = "none"
  BY DEF ProcessEnds, IdleWorker
<1>3. ASSUME NEW c \in Clients
      PROVE  /\ client'[c].op = "none" /\ client'[c].handle = client[c].handle
             /\ client[c].err # "EBADF" => client'[c].err # "EBADF"
             /\ client'[c].dir = client[c].dir /\ client'[c].off = client[c].off
             /\ client'[c].got = client[c].got /\ client'[c].eof = client[c].eof
  <2>1. client[c] \in ClientState
    BY DEF TypeOK
  <2>2. client'[c] = IF Waiting(c)
                       THEN [client[c] EXCEPT !.op = "none", !.err = "ENOTCONN"]
                       ELSE client[c]
    BY DEF ProcessEnds
  <2> QED
    BY <2>1, <2>2 DEF Waiting, ClientState
<1> QED
  BY <1>1, <1>2, <1>3

LEMMA MainInv1 ==
  ASSUME Inv1, Signal \/ MainStep
  PROVE  Inv1'
<1>1. TypeOK'
  BY MainType DEF Inv1
<1>2. CASE ProcessEnds
  <2>0. TypeOK /\ ClientOK
    BY DEF Inv1
  <2>1. queue' = << >> /\ Len(<< >>) = 0
    BY <1>2, <2>0, EndStep
  <2>2. QueueOK'
    BY <2>1 DEF QueueOK, Queued
  <2>3. \A w \in Workers : /\ worker'[w].pc = "exited" /\ worker'[w].handle = 0
                           /\ worker'[w].err = "none"
    BY <1>2, <2>0, EndStep
  <2>4. ServeOK' /\ PhaseOK' /\ DownOK'
    BY <2>1, <2>3 DEF ServeOK, Busy, PhaseOK, DownOK, Exited
  <2>5. ClientOK'
    BY <1>2, <2>0, EndStep DEF ClientOK
  <2> QED
    BY <1>1, <2>2, <2>4, <2>5 DEF Inv1
<1>3. CASE Signal \/ Umount \/ Wake
  <2>1. UNCHANGED <<client, queue, worker>> /\ Running'
    BY <1>3 DEF Signal, Umount, Wake, Running
  <2> QED
    BY <1>1, <2>1
    DEF Inv1, QueueOK, Queued, Waiting, ServeOK, Busy, PhaseOK, ClientOK, DownOK
<1> QED
  BY <1>2, <1>3 DEF MainStep, UmountFails, WakeFails, Return

-----------------------------------------------------------------------------
(* Handles.                                                                *)

LEMMA Steps ==
  ASSUME Next
  PROVE  \/ \E c \in Clients : ClientCall(c)
         \/ \E w \in Workers : Handler(w) \/ Take(w) \/ Answers(w)
         \/ Signal \/ MainStep
BY DEF Next, WorkerStep, ClientCall, Handler, Take, Answers

LEMMA MainSteps ==
  ASSUME Signal \/ MainStep
  PROVE  \/ ProcessEnds
         \/ /\ UNCHANGED <<client, queue, worker, dirHandles, nextDirHandle, lost>>
            /\ Running /\ Running'
BY DEF Signal, MainStep, Umount, UmountFails, Wake, WakeFails, Return, Running

LEMMA HandlerTable ==
  ASSUME Inv1, NEW w \in Workers, Handler(w)
  PROVE  \/ /\ worker'[w].pc = "insert" /\ dirHandles' = dirHandles
            /\ nextDirHandle' = nextDirHandle + 1
         \/ /\ OpenDirInsert(w) /\ nextDirHandle' = nextDirHandle
         \/ /\ ReleaseDir(w) /\ nextDirHandle' = nextDirHandle
         \/ /\ worker'[w].pc # "insert" /\ worker[w].pc # "insert"
            /\ worker[w].pc # "releasedir"
            /\ UNCHANGED <<dirHandles, nextDirHandle>>
<1>0. worker \in [Workers -> WorkerState]
  BY DEF Inv1, TypeOK
<1>1. CASE OpenDirCounter(w)
  BY <1>0, <1>1 DEF OpenDirCounter, FetchAdd, WorkerState
<1>2. CASE OpenDirInsert(w) \/ ReleaseDir(w)
  BY <1>2 DEF OpenDirInsert, ReleaseDir
<1>3. CASE StatelessOp(w) \/ ReadDirEntries(w)
  BY <1>0, <1>3 DEF StatelessOp, ReadDirEntries, WorkerState
<1>4. CASE ReadDirHandle(w)
  BY <1>0, <1>4 DEF ReadDirHandle, WorkerState
<1> QED
  BY <1>1, <1>2, <1>3, <1>4 DEF Handler

LEMMA HandleInd ==
  ASSUME IInv, Next
  PROVE  HandleOK'
<1>0. /\ Inv1 /\ HandleOK /\ TableOK /\ nextDirHandle \in Nat \ {0}
      /\ \A c \in Clients : client[c].handle \in Nat
      /\ \A w \in Workers : worker[w].handle \in Nat
      /\ DOMAIN dirHandles \subseteq Nat /\ lost \subseteq Nat
  BY DEF IInv, Inv1, TypeOK, ClientState, WorkerState
<1>1. ASSUME NEW c \in Clients, ClientCall(c)
      PROVE  HandleOK'
  <2>1. /\ UNCHANGED <<worker, dirHandles, nextDirHandle, lost>>
        /\ \A d \in Clients : client'[d].handle = client[d].handle
    BY <1>0, <1>1, ClientStep
  <2> QED
    BY <1>0, <2>1 DEF HandleOK
<1>2. ASSUME NEW w \in Workers, Handler(w)
      PROVE  HandleOK'
  <2>0. /\ UNCHANGED <<client, lost>>
        /\ \A v \in Workers : v # w => worker'[v] = worker[v]
        /\ \/ worker'[w].handle = worker[w].handle /\ worker'[w].pc # "insert"
           \/ worker'[w].handle = nextDirHandle /\ worker'[w].pc = "insert"
    BY <1>0, <1>2, HandlerStep
  <2>1. CASE worker'[w].pc = "insert"
    <3>1. /\ worker'[w].handle = nextDirHandle /\ dirHandles' = dirHandles
          /\ nextDirHandle' = nextDirHandle + 1
      BY <1>0, <1>2, <2>0, <2>1, HandlerTable, HandlerStep DEF OpenDirInsert, ReleaseDir
    <3> QED
      BY <1>0, <2>0, <3>1 DEF HandleOK
  <2>2. CASE worker'[w].pc # "insert"
    <3>1. nextDirHandle' = nextDirHandle
      BY <1>0, <1>2, <2>2, HandlerTable
    <3>2. \A v \in Workers : worker'[v].handle = worker[v].handle
      BY <2>0, <2>2
    <3>3. DOMAIN dirHandles' \subseteq DOMAIN dirHandles
             \cup (IF worker[w].pc = "insert" THEN {worker[w].handle} ELSE {})
      BY <1>0, <1>2, <2>2, HandlerTable DEF OpenDirInsert, ReleaseDir, Without
    <3>4. worker[w].pc = "insert" => worker[w].handle # 0
      BY <1>0 DEF Inv1, PhaseOK
    <3> QED
      BY <1>0, <2>0, <3>1, <3>2, <3>3, <3>4 DEF HandleOK
  <2> QED
    BY <2>1, <2>2
<1>3. ASSUME NEW w \in Workers, Take(w)
      PROVE  HandleOK'
  <2>1. /\ UNCHANGED <<client, dirHandles, nextDirHandle, lost>>
        /\ \A v \in Workers : v # w => worker'[v] = worker[v]
        /\ worker'[w].handle = 0
    BY <1>0, <1>3, TakeStep
  <2> QED
    BY <1>0, <2>1 DEF HandleOK
<1>4. ASSUME NEW w \in Workers, Answers(w)
      PROVE  HandleOK'
  <2> DEFINE c == worker[w].client
             h == worker[w].handle
  <2>1. /\ UNCHANGED <<dirHandles, nextDirHandle>> /\ c \in Clients
        /\ \A v \in Workers : v # w => worker'[v] = worker[v]
        /\ worker'[w].handle = 0
        /\ \A d \in Clients : d # c => client'[d] = client[d]
    BY <1>0, <1>4, AnswerStep
  <2>2. \/ lost' = lost /\ client'[c].handle \in {0, client[c].handle}
        \/ lost' = lost /\ client'[c].handle = h
        \/ lost' = lost \cup {h} /\ h # 0 /\ client'[c].handle = 0
    BY <1>0, <1>4, AnswerStep
  <2> HIDE DEF c, h
  <2>3. CASE lost' = lost /\ client'[c].handle \in {0, client[c].handle}
    BY <1>0, <2>1, <2>3 DEF HandleOK
  <2>4. CASE lost' = lost /\ client'[c].handle = h
    BY <1>0, <2>1, <2>4 DEF HandleOK, h
  <2>5. CASE lost' = lost \cup {h} /\ h # 0 /\ client'[c].handle = 0
    BY <1>0, <2>1, <2>5 DEF HandleOK, h
  <2> QED
    BY <2>2, <2>3, <2>4, <2>5
<1>5. CASE Signal \/ MainStep
  <2>1. CASE ProcessEnds
    <3>1. /\ UNCHANGED <<nextDirHandle, lost>> /\ DOMAIN dirHandles' = {}
          /\ \A c \in Clients : client'[c].handle = client[c].handle
          /\ \A w \in Workers : worker'[w].handle = 0
      BY <1>0, <2>1, EndStep DEF Inv1
    <3> QED
      BY <1>0, <3>1 DEF HandleOK
  <2>2. CASE UNCHANGED <<client, worker, dirHandles, nextDirHandle, lost>>
    BY <1>0, <2>2 DEF HandleOK
  <2> QED
    BY <1>5, <2>1, <2>2, MainSteps
<1> QED
  BY <1>1, <1>2, <1>3, <1>4, <1>5, Steps

(* Only releasedir is answered for a call of releasedir.                      *)
LEMMA NotReleased ==
  ASSUME Inv1, NEW w \in Workers, Handler(w), worker[w].pc # "releasedir",
         client[worker[w].client].op = "releasedir"
  PROVE  FALSE
<1>1. worker[w].pc \in {"opendir", "insert", "readdir", "entries", "stateless"}
  BY DEF Handler, OpenDirCounter, OpenDirInsert, ReadDirHandle, ReadDirEntries,
         ReleaseDir, StatelessOp
<1> QED
  BY <1>1 DEF Inv1, PhaseOK

LEMMA TableInd ==
  ASSUME IInv, Next
  PROVE  TableOK'
<1>0. /\ Inv1 /\ HandleOK /\ TableOK
      /\ worker \in [Workers -> WorkerState]
      /\ \A w \in Workers : worker[w].client \in Clients
  BY DEF IInv, Inv1, TypeOK, WorkerState
<1>1. ASSUME NEW c \in Clients, ClientCall(c)
      PROVE  TableOK'
  <2>1. /\ UNCHANGED <<worker, dirHandles, main>> /\ Running
        /\ \A d \in Clients : d # c => client'[d] = client[d]
        /\ client'[c].handle = client[c].handle
        /\ client[c].handle # 0 => client'[c].dir = client[c].dir
        /\ ~ Waiting(c)
    BY <1>0, <1>1, ClientStep
  <2>2. \A w \in Workers : worker[w].pc = "reply" => worker[w].client # c
    BY <1>0, <2>1, Idle DEF Busy
  <2>3. ~ Released(c) /\ ~ Released(c)'
    BY <2>1, <2>2 DEF Released
  <2>4. \A d \in Clients : d # c => (Released(d)' <=> Released(d))
    BY <2>1 DEF Released
  <2> QED
    BY <1>0, <2>1, <2>2, <2>3, <2>4 DEF TableOK
<1>2. ASSUME NEW w \in Workers, Handler(w)
      PROVE  TableOK'
  <2> PICK c \in Clients : c = worker[w].client
    BY <1>0
  <2>0. /\ client' = client /\ Running /\ Running' /\ c \in Clients
        /\ \A v \in Workers : v # w => worker'[v] = worker[v]
        /\ \A v \in Workers : worker'[v].client = worker[v].client
        /\ worker[w].pc # "reply" /\ client[c].op # "none"
        /\ \/ worker'[w].handle = worker[w].handle /\ worker'[w].pc = "reply"
           \/ worker'[w].handle = worker[w].handle /\ worker'[w].pc = "entries"
                /\ worker[w].pc = "readdir"
           \/ worker'[w].pc = "insert" /\ worker[w].pc = "opendir"
    BY <1>0, <1>2, HandlerStep, BusyRuns DEF Running, Ops
  <2>1. \A d \in Clients : d # c => (Released(d)' <=> Released(d))
    BY <2>0 DEF Released
  <2>2. /\ ~ Released(c)
        /\ Released(c)' => client[c].op = "releasedir" /\ worker'[w].pc = "reply"
    <3>1. \A v \in Workers : worker[v].pc = "reply" => worker[v].client # c
      BY <1>0, <2>0, HandlerStep, <1>2 DEF Inv1, ServeOK, Busy
    <3> QED
      BY <2>0, <3>1 DEF Released
  <2>3. CASE OpenDirInsert(w)
    <3>1. /\ worker[w].pc = "insert" /\ worker'[w].pc = "reply"
          /\ DOMAIN dirHandles' = DOMAIN dirHandles \cup {worker[w].handle}
          /\ dirHandles'[worker[w].handle] = client[c].dir
          /\ \A h \in DOMAIN dirHandles : h # worker[w].handle => dirHandles'[h] = dirHandles[h]
      BY <1>0, <2>3 DEF OpenDirInsert, WorkerState
    <3>2. /\ client[c].op = "opendir" /\ client[c].handle = 0
          /\ worker[w].handle # 0 /\ worker'[w].handle = worker[w].handle
      BY <1>0, <2>0, <3>1 DEF Inv1, PhaseOK, ClientOK
    <3>3. /\ \A d \in Clients : client[d].handle # worker[w].handle
          /\ \A v \in Workers : v # w => worker[v].handle # worker[w].handle
      BY <1>0, <3>2 DEF HandleOK
    <3>4. ~ Released(c)'
      BY <2>2, <3>2
    <3>5. \A d \in Clients : Released(d)' => client'[d].handle \notin DOMAIN dirHandles'
      BY <1>0, <2>0, <2>1, <3>1, <3>3, <3>4 DEF TableOK
    <3>6. \A d \in Clients : client'[d].handle # 0 /\ ~ Released(d)' =>
            /\ client'[d].handle \in DOMAIN dirHandles'
            /\ dirHandles'[client'[d].handle] = client'[d].dir
      BY <1>0, <2>0, <2>1, <3>1, <3>2, <3>3 DEF TableOK
    <3>7. \A v \in Workers : worker'[v].pc = "reply" /\ worker'[v].handle # 0 =>
            /\ worker'[v].handle \in DOMAIN dirHandles'
            /\ dirHandles'[worker'[v].handle] = client'[worker'[v].client].dir
      BY <1>0, <2>0, <3>1, <3>2, <3>3 DEF TableOK
    <3> QED
      BY <3>5, <3>6, <3>7 DEF TableOK
  <2>4. CASE ReleaseDir(w)
    <3>1. /\ worker[w].pc = "releasedir" /\ worker'[w].pc = "reply"
          /\ DOMAIN dirHandles' = DOMAIN dirHandles \ {client[c].handle}
          /\ \A h \in DOMAIN dirHandles' : dirHandles'[h] = dirHandles[h]
      BY <1>0, <2>4 DEF ReleaseDir, Without, WorkerState
    <3>2. /\ client[c].op = "releasedir" /\ client[c].handle # 0
          /\ worker[w].handle = 0 /\ worker'[w].handle = 0
      BY <1>0, <2>0, <3>1 DEF Inv1, PhaseOK, ClientOK
    <3>3. /\ \A d \in Clients : d # c => client[d].handle # client[c].handle
          /\ \A v \in Workers : worker[v].handle # client[c].handle
      BY <1>0, <2>0, <3>2 DEF HandleOK
    <3>4. Released(c)'
      BY <2>0, <3>1, <3>2 DEF Released
    <3>5. \A d \in Clients : Released(d)' => client'[d].handle \notin DOMAIN dirHandles'
      BY <1>0, <2>0, <2>1, <3>1 DEF TableOK
    <3>6. \A d \in Clients : client'[d].handle # 0 /\ ~ Released(d)' =>
            /\ client'[d].handle \in DOMAIN dirHandles'
            /\ dirHandles'[client'[d].handle] = client'[d].dir
      BY <1>0, <2>0, <2>1, <3>1, <3>3, <3>4 DEF TableOK
    <3>7. \A v \in Workers : worker'[v].pc = "reply" /\ worker'[v].handle # 0 =>
            /\ worker'[v].handle \in DOMAIN dirHandles'
            /\ dirHandles'[worker'[v].handle] = client'[worker'[v].client].dir
      BY <1>0, <2>0, <3>1, <3>2, <3>3 DEF TableOK
    <3> QED
      BY <3>5, <3>6, <3>7 DEF TableOK
  <2>5. CASE dirHandles' = dirHandles /\ worker[w].pc \notin {"insert", "releasedir"}
    <3>1. worker'[w].pc = "reply" => worker'[w].handle = 0
      BY <1>0, <2>0, <2>5 DEF Inv1, PhaseOK
    <3>2. client[c].op # "releasedir" \/ worker'[w].pc # "reply"
      BY <1>0, <1>2, <2>5, NotReleased
    <3> QED
      BY <1>0, <2>0, <2>1, <2>2, <2>5, <3>1, <3>2 DEF TableOK
  <2>6. \/ dirHandles' = dirHandles /\ worker[w].pc \notin {"insert", "releasedir"}
        \/ OpenDirInsert(w)
        \/ ReleaseDir(w)
    BY <1>0, <1>2, <2>0, HandlerTable
  <2> QED
    BY <2>3, <2>4, <2>5, <2>6
<1>3. ASSUME NEW w \in Workers, Take(w)
      PROVE  TableOK'
  <2>1. /\ UNCHANGED <<client, dirHandles, main>>
        /\ \A v \in Workers : v # w => worker'[v] = worker[v]
        /\ worker[w].pc # "reply" /\ worker'[w].pc # "reply"
    BY <1>0, <1>3, TakeStep DEF Ops
  <2>2. \A d \in Clients : Released(d)' <=> Released(d)
    BY <2>1 DEF Released
  <2> QED
    BY <1>0, <2>1, <2>2 DEF TableOK, Running
<1>4. ASSUME NEW w \in Workers, Answers(w)
      PROVE  TableOK'
  <2> PICK c \in Clients : c = worker[w].client
    BY <1>0
  <2>0. /\ UNCHANGED <<dirHandles, main>> /\ c \in Clients /\ Running
        /\ worker[w].pc = "reply" /\ worker'[w].pc # "reply"
        /\ \A v \in Workers : v # w => worker'[v] = worker[v]
        /\ \A d \in Clients : d # c => client'[d] = client[d]
        /\ client'[c].op = "none"
    BY <1>0, <1>4, AnswerStep
  <2>1. /\ \A d \in Clients : d # c => (Released(d)' <=> Released(d))
        /\ ~ Released(c)'
    BY <2>0 DEF Released
  <2>2. \/ client'[c].handle = 0
        \/ client'[c].handle = worker[w].handle /\ client'[c].dir = client[c].dir
        \/ /\ client'[c].handle = client[c].handle /\ client'[c].dir = client[c].dir
           /\ client[c].op # "releasedir"
    BY <1>0, <1>4, AnswerStep
  <2>3. \A v \in Workers : v # w /\ worker[v].pc = "reply" => worker[v].client # c
    BY <1>0, <2>0 DEF Inv1, ServeOK, Busy
  <2>4. client[c].op # "releasedir" => ~ Released(c)
    BY DEF Released
  <2>5. client'[c].handle # 0 =>
          /\ client'[c].handle \in DOMAIN dirHandles
          /\ dirHandles[client'[c].handle] = client'[c].dir
    BY <1>0, <2>0, <2>2, <2>4 DEF TableOK
  <2> QED
    BY <1>0, <2>0, <2>1, <2>3, <2>5 DEF TableOK, Running
<1>5. CASE Signal \/ MainStep
  <2>1. CASE ProcessEnds
    <3>1. DOMAIN dirHandles' = {} /\ ~ Running'
      BY <1>0, <2>1, EndStep DEF Inv1
    <3> QED
      BY <3>1 DEF TableOK
  <2>2. CASE UNCHANGED <<client, worker, dirHandles>> /\ Running /\ Running'
    BY <1>0, <2>2 DEF TableOK, Released
  <2> QED
    BY <1>5, <2>1, <2>2, MainSteps
<1> QED
  BY <1>1, <1>2, <1>3, <1>4, <1>5, Steps

LEMMA OwnerInd ==
  ASSUME IInv, Next
  PROVE  OwnerOK'
<1>0. /\ Inv1 /\ HandleOK /\ TableOK /\ OwnerOK
      /\ worker \in [Workers -> WorkerState]
      /\ \A w \in Workers : worker[w].client \in Clients
  BY DEF IInv, Inv1, TypeOK, WorkerState
<1>1. ASSUME NEW c \in Clients, ClientCall(c)
      PROVE  OwnerOK'
  <2>1. /\ UNCHANGED <<worker, dirHandles, lost>>
        /\ \A d \in Clients : client'[d].handle = client[d].handle
    BY <1>0, <1>1, ClientStep
  <2> QED
    BY <1>0, <2>1 DEF OwnerOK, Holds, Sends
<1>2. ASSUME NEW w \in Workers, Handler(w)
      PROVE  OwnerOK'
  <2>0. /\ client' = client /\ lost' = lost /\ worker[w].pc # "reply"
        /\ \A v \in Workers : v # w => worker'[v] = worker[v]
    BY <1>0, <1>2, HandlerStep
  <2>1. \A h : (\E v \in Workers : Sends(v, h)) => \E v \in Workers : Sends(v, h)'
    BY <2>0 DEF Sends
  <2>2. \A h \in DOMAIN dirHandles' : h \in DOMAIN dirHandles \/ Sends(w, h)'
    <3>1. CASE OpenDirInsert(w)
      <4>1. /\ DOMAIN dirHandles' = DOMAIN dirHandles \cup {worker[w].handle}
            /\ worker'[w].pc = "reply" /\ worker'[w].handle = worker[w].handle
        BY <1>0, <3>1 DEF OpenDirInsert, WorkerState
      <4> QED
        BY <4>1 DEF Sends
    <3>2. CASE ReleaseDir(w)
      BY <3>2 DEF ReleaseDir, Without
    <3>3. OpenDirInsert(w) \/ ReleaseDir(w) \/ dirHandles' = dirHandles
      BY <1>0, <1>2, HandlerTable
    <3> QED
      BY <3>1, <3>2, <3>3
  <2> QED
    BY <1>0, <2>0, <2>1, <2>2 DEF OwnerOK, Holds
<1>3. ASSUME NEW w \in Workers, Take(w)
      PROVE  OwnerOK'
  <2>1. /\ UNCHANGED <<client, dirHandles, lost>> /\ worker[w].pc = "get_request"
        /\ \A v \in Workers : v # w => worker'[v] = worker[v]
    BY <1>0, <1>3, TakeStep
  <2>2. \A h : (\E v \in Workers : Sends(v, h)) => \E v \in Workers : Sends(v, h)'
    BY <2>1 DEF Sends
  <2> QED
    BY <1>0, <2>1, <2>2 DEF OwnerOK, Holds
<1>4. ASSUME NEW w \in Workers, Answers(w)
      PROVE  OwnerOK'
  <2> PICK c \in Clients : c = worker[w].client
    BY <1>0
  <2>0. /\ dirHandles' = dirHandles /\ Running
        /\ worker[w].pc = "reply"
        /\ \A v \in Workers : v # w => worker'[v] = worker[v]
        /\ \A d \in Clients : d # c => client'[d] = client[d]
        /\ lost \subseteq lost'
    BY <1>0, <1>4, AnswerStep
  <2>1. \A h \in DOMAIN dirHandles : Holds(c, h) => Holds(c, h)'
    <3>1. client[c].op = "releasedir" => client[c].handle \notin DOMAIN dirHandles
      BY <1>0, <2>0 DEF TableOK, Released
    <3>2. \A h \in DOMAIN dirHandles : h # 0
      BY <1>0 DEF HandleOK
    <3>3. client[c].op = "releasedir" \/ client[c].handle = 0
            \/ client'[c].handle = client[c].handle
      BY <1>0, <1>4, AnswerStep DEF Inv1, ClientOK
    <3> QED
      BY <3>1, <3>2, <3>3 DEF Holds
  <2>2. \A h \in DOMAIN dirHandles : Sends(w, h) => Holds(c, h)' \/ h \in lost'
    <3>1. worker[w].handle # 0 => client[c].op = "opendir"
      BY <1>0 DEF Inv1, PhaseOK
    <3>2. \A h \in DOMAIN dirHandles : h # 0
      BY <1>0 DEF HandleOK
    <3>3. client[c].op = "opendir" /\ worker[w].handle # 0 =>
            client'[c].handle = worker[w].handle \/ worker[w].handle \in lost'
      BY <1>0, <1>4, AnswerStep
    <3> QED
      BY <3>1, <3>2, <3>3 DEF Holds, Sends
  <2>3. \A h : \A d \in Clients : d # c /\ Holds(d, h) => Holds(d, h)'
    BY <2>0 DEF Holds
  <2>4. \A h : \A v \in Workers : v # w /\ Sends(v, h) => Sends(v, h)'
    BY <2>0 DEF Sends
  <2> QED
    BY <1>0, <2>0, <2>1, <2>2, <2>3, <2>4 DEF OwnerOK
<1>5. CASE Signal \/ MainStep
  <2>1. CASE ProcessEnds
    <3>1. DOMAIN dirHandles' = {}
      BY <1>0, <2>1, EndStep DEF Inv1
    <3> QED
      BY <3>1 DEF OwnerOK
  <2>2. CASE UNCHANGED <<client, worker, dirHandles, lost>>
    BY <1>0, <2>2 DEF OwnerOK, Holds, Sends
  <2> QED
    BY <1>5, <2>1, <2>2, MainSteps
<1> QED
  BY <1>1, <1>2, <1>3, <1>4, <1>5, Steps

-----------------------------------------------------------------------------
(* Listings.                                                               *)

LEMMA Appended ==
  ASSUME NEW s \in Seq(STRING), NEW t \in Seq(STRING)
  PROVE  /\ Len(s \o t) = Len(s) + Len(t)
         /\ \A i \in 1 .. Len(s) : (s \o t)[i] = s[i]
         /\ \A i \in 1 .. Len(t) : (s \o t)[Len(s) + i] = t[i]
OBVIOUS

(* A listing of which off entries were seen, and a reply l that continues it.   *)
Continues(all, got, off, l) ==
  /\ all \in Seq(STRING) /\ got \in Seq(STRING) /\ off \in Nat /\ l \in Seq(Listed)
  /\ Len(got) = off
  /\ \A i \in 1 .. off : got[i] = all[i]
  /\ \A i \in 1 .. Len(l) : l[i] = [name |-> all[off + i], off |-> off + i]

NamesIn(l) == [i \in 1 .. Len(l) |-> l[i].name]

Grown(all, got, off, l) ==
  /\ Len(got \o NamesIn(l)) = off + Len(l)
  /\ \A i \in 1 .. off + Len(l) : (got \o NamesIn(l))[i] = all[i]
  /\ (IF l = << >> THEN off ELSE Last(l).off) = off + Len(l)

LEMMA ListingGrows ==
  ASSUME NEW all, NEW got, NEW off, NEW l, Continues(all, got, off, l)
  PROVE  Grown(all, got, off, l)
<1>0. /\ all \in Seq(STRING) /\ got \in Seq(STRING) /\ off \in Nat /\ l \in Seq(Listed)
      /\ Len(got) = off
      /\ \A i \in 1 .. off : got[i] = all[i]
      /\ \A i \in 1 .. Len(l) : l[i] = [name |-> all[off + i], off |-> off + i]
  BY DEF Continues
<1> USE <1>0
<1> PICK names : names = NamesIn(l)
  OBVIOUS
<1> DEFINE n == Len(l)
<1>1. /\ names \in Seq(STRING) /\ Len(names) = n
      /\ \A i \in 1 .. n : names[i] = l[i].name
      /\ l # << >> => n > 0 /\ Last(l) = l[n]
  BY NamesOf DEF NamesIn
<1>2. n \in Nat /\ (l = << >> => n = 0)
  OBVIOUS
<1>3. ASSUME NEW i \in 1 .. n
      PROVE  l[i].name = all[off + i] /\ l[i].off = off + i
  <2>1. l[i] = [name |-> all[off + i], off |-> off + i]
    OBVIOUS
  <2> QED
    BY ONLY <2>1
<1> HIDE DEF n
<1>4. (IF l = << >> THEN off ELSE Last(l).off) = off + n
  <2>1. l # << >> => n \in 1 .. n
    BY <1>1, <1>2
  <2>2. l # << >> => Last(l).off = off + n
    BY ONLY <1>1, <1>3, <2>1
  <2> QED
    BY <1>2, <2>2
<1>5. /\ Len(got \o names) = off + n
      /\ \A i \in 1 .. off : (got \o names)[i] = got[i]
      /\ \A i \in 1 .. n : (got \o names)[off + i] = names[i]
  BY <1>1, Appended
<1> DEFINE g == got \o names
<1> HIDE DEF g
<1>6. \A i \in 1 .. off + n : g[i] = all[i]
  <2> SUFFICES ASSUME NEW i \in 1 .. off + n
               PROVE  g[i] = all[i]
    OBVIOUS
  <2>1. CASE i <= off
    BY <1>2, <1>5, <2>1 DEF g
  <2>2. CASE i > off
    <3>1. i - off \in 1 .. n /\ off + (i - off) = i
      BY <1>2, <2>2
    <3> DEFINE j == i - off
    <3> HIDE DEF j
    <3>2. j \in 1 .. n /\ off + j = i
      BY <3>1 DEF j
    <3>3. g[off + j] = names[j] /\ names[j] = all[off + j]
      BY ONLY <1>1, <1>3, <1>5, <3>2 DEF g
    <3> QED
      BY <3>2, <3>3
  <2> QED
    BY <1>2, <2>1, <2>2
<1> QED
  BY <1>4, <1>5, <1>6 DEF n, g, Grown

LEMMA ReceiveListing ==
  ASSUME NEW k \in ClientState, NEW r \in WorkerState,
         k.op = "readdir", k.handle # 0, r.err = "none",
         Seen(k), Follows(k, r.list)
  PROVE  Seen(Receive(k, r))
<1> DEFINE all == DirEntries[k.dir]
<1> DEFINE got == k.got \o NamesIn(r.list)
           off == IF r.list = << >> THEN k.off ELSE Last(r.list).off
<1>1. Receive(k, r) = [k EXCEPT !.op = "none", !.got = got, !.off = off,
                                !.eof = (r.list = << >>)]
  BY DEF Receive, NamesIn
<1>2. /\ k.got \in Seq(STRING) /\ k.off \in Nat /\ r.list \in Seq(Listed)
      /\ k.dir \in Dirs
  BY DEF ClientState, WorkerState
<1>3. all \in Seq(STRING)
  BY <1>2, ServerAssumption
<1>4. Continues(all, k.got, k.off, r.list)
  BY <1>2, <1>3 DEF Continues, Seen, Follows
<1>5. /\ Len(got) = k.off + Len(r.list)
      /\ \A i \in 1 .. k.off + Len(r.list) : got[i] = all[i]
      /\ off = k.off + Len(r.list)
  <2>1. Grown(all, k.got, k.off, r.list)
    BY <1>4, ListingGrows
  <2> QED
    BY <2>1 DEF Grown
<1>6. r.list = << >> => Len(r.list) = 0
  OBVIOUS
<1>7. LET q == Receive(k, r)
      IN /\ q.dir = k.dir /\ q.off = off /\ q.got = got
         /\ q.eof => r.list = << >>
  <2> HIDE DEF got, off
  <2> QED
    BY <1>1 DEF ClientState
<1> HIDE DEF got, off
<1> QED
  BY <1>2, <1>5, <1>6, <1>7 DEF Seen, Follows

LEMMA FreshSeen ==
  ASSUME NEW k, k.dir \in Dirs, k.off = 0, k.got = << >>, k.eof = FALSE
  PROVE  Seen(k)
<1>1. Len(DirEntries[k.dir]) \in Nat
  BY ServerAssumption
<1>2. Len(<< >>) = 0
  OBVIOUS
<1> QED
  BY <1>1, <1>2 DEF Seen

LEMMA SeenInd ==
  ASSUME IInv, Next
  PROVE  SeenOK'
<1>0. /\ Inv1 /\ SeenOK /\ ReplyOK
      /\ client \in [Clients -> ClientState] /\ worker \in [Workers -> WorkerState]
      /\ \A w \in Workers : worker[w].client \in Clients
      /\ \A c \in Clients : client[c].dir \in Dirs /\ Seen(client[c])
  BY DEF SeenOK, IInv, Inv1, TypeOK, WorkerState, ClientState
<1>1. ASSUME NEW c \in Clients, ClientCall(c)
      PROVE  SeenOK'
  <2>1. \A d \in Clients : d # c => client'[d] = client[d]
    BY <1>0, <1>1, ClientStep
  <2>2. Seen(client'[c])
    <3>1. client'[c].dir \in Dirs
      BY ClientsType, <1>0, <1>1 DEF Inv1, ClientCall, TypeOK, ClientState
    <3>2. CASE /\ client[c].handle # 0 /\ client'[c].dir = client[c].dir
               /\ client'[c].off = client[c].off /\ client'[c].got = client[c].got
               /\ client'[c].eof = client[c].eof
      BY <1>0, <3>2 DEF Seen
    <3>3. CASE client'[c].off = 0 /\ client'[c].got = << >> /\ client'[c].eof = FALSE
      BY <3>1, <3>3, FreshSeen
    <3>4. CASE client'[c].handle = 0 /\ client'[c].op = "stateless"
      BY <3>4 DEF Seen
    <3> QED
      BY <1>0, <1>1, <3>2, <3>3, <3>4, ClientStep
  <2> QED
    BY <1>0, <2>1, <2>2 DEF SeenOK
<1>2. ASSUME NEW w \in Workers, Handler(w) \/ Take(w)
      PROVE  SeenOK'
  <2>1. client' = client
    BY <1>0, <1>2, HandlerStep, TakeStep DEF IInv
  <2> QED
    BY <1>0, <2>1 DEF SeenOK
<1>3. ASSUME NEW w \in Workers, Answers(w)
      PROVE  SeenOK'
  <2> PICK c \in Clients : c = worker[w].client
    BY <1>0
  <2>1. /\ worker[w].pc = "reply" /\ client'[c].op = "none"
        /\ \A d \in Clients : d # c => client'[d] = client[d]
    BY <1>0, <1>3, AnswerStep
  <2>2. client'[c].handle = 0
          \/ /\ client[c].op = "opendir" \/ client'[c].handle = client[c].handle
             /\ client'[c].dir = client[c].dir /\ client'[c].off = client[c].off
             /\ client'[c].got = client[c].got /\ client'[c].eof = client[c].eof
          \/ /\ client[c].op = "readdir" /\ worker[w].err = "none"
             /\ client'[c] = Receive(client[c], worker[w])
    BY <1>0, <1>3, AnswerStep
  <2>3. CASE client'[c].handle = 0
    BY <1>0, <2>1, <2>3 DEF SeenOK, Seen
  <2>4. CASE /\ client[c].op = "opendir" \/ client'[c].handle = client[c].handle
             /\ client'[c].dir = client[c].dir /\ client'[c].off = client[c].off
             /\ client'[c].got = client[c].got /\ client'[c].eof = client[c].eof
    <3> PICK k, q : k = client[c] /\ q = client'[c]
      OBVIOUS
    <3>0. /\ Seen(k) /\ q.op = "none" /\ (k.op = "opendir" \/ q.handle = k.handle)
          /\ q.dir = k.dir /\ q.off = k.off /\ q.got = k.got /\ q.eof = k.eof
      BY <1>0, <2>1, <2>4
    <3>1. Seen(q)
      BY ONLY <3>0 DEF Seen
    <3> QED
      BY <1>0, <2>1, <3>1 DEF SeenOK
  <2>5. CASE /\ client[c].op = "readdir" /\ worker[w].err = "none"
             /\ client'[c] = Receive(client[c], worker[w])
    <3>1. client[c].handle # 0 /\ client[c] \in ClientState
      BY <1>0, <2>5 DEF Inv1, ClientOK
    <3>2. Follows(client[c], worker[w].list)
      BY <1>0, <2>1, <2>5 DEF ReplyOK
    <3>5. Seen(client'[c])
      BY <1>0, <2>5, <3>1, <3>2, ReceiveListing
    <3> QED
      BY <1>0, <2>1, <3>5 DEF SeenOK
  <2> QED
    BY <2>2, <2>3, <2>4, <2>5
<1>4. CASE Signal \/ MainStep
  <2>1. CASE ProcessEnds
    <3>1. ASSUME NEW c \in Clients
          PROVE  Seen(client'[c])
      <4>1. /\ client'[c].op = "none" /\ client'[c].handle = client[c].handle
            /\ client'[c].dir = client[c].dir /\ client'[c].off = client[c].off
            /\ client'[c].got = client[c].got /\ client'[c].eof = client[c].eof
        BY <1>0, <2>1, EndStep DEF Inv1
      <4> QED
        BY <1>0, <4>1 DEF Seen
    <3> QED
      BY <3>1 DEF SeenOK
  <2>2. CASE client' = client
    BY <1>0, <2>2 DEF SeenOK
  <2> QED
    BY <1>4, <2>1, <2>2, MainSteps
<1> QED
  BY <1>1, <1>2, <1>3, <1>4, Steps

(* The handlers of the other calls say nothing of a listing.                 *)
LEMMA OtherCall ==
  ASSUME Inv1, NEW w \in Workers, Handler(w), ~ ReadDirHandle(w), ~ ReadDirEntries(w)
  PROVE  worker'[w].pc # "entries" /\ client[worker[w].client].op # "readdir"
<1>1. worker \in [Workers -> WorkerState]
  BY DEF Inv1, TypeOK
<1>2. worker[w].pc \in {"opendir", "insert", "releasedir", "stateless"}
  BY DEF Handler, OpenDirCounter, OpenDirInsert, ReleaseDir, StatelessOp
<1>3. worker'[w].pc # "entries"
  BY <1>1 DEF Handler, OpenDirCounter, OpenDirInsert, ReleaseDir, StatelessOp, WorkerState
<1> QED
  BY <1>2, <1>3 DEF Inv1, PhaseOK

LEMMA ReplyInd ==
  ASSUME IInv, Next
  PROVE  ReplyOK'
<1>0. /\ Inv1 /\ ReplyOK /\ TableOK /\ SeenOK
      /\ client \in [Clients -> ClientState] /\ worker \in [Workers -> WorkerState]
      /\ \A w \in Workers : worker[w].client \in Clients
  BY DEF IInv, Inv1, TypeOK, WorkerState
<1>1. ASSUME NEW c \in Clients, ClientCall(c)
      PROVE  ReplyOK'
  <2>1. /\ worker' = worker /\ ~ Waiting(c)
        /\ \A d \in Clients : d # c => client'[d] = client[d]
    BY <1>0, <1>1, ClientStep
  <2>2. \A w \in Workers : worker[w].pc \in {"entries", "reply"} => worker[w].client # c
    BY <1>0, <2>1, Idle DEF Busy
  <2> QED
    BY <1>0, <2>1, <2>2 DEF ReplyOK
<1>2. ASSUME NEW w \in Workers, Handler(w)
      PROVE  ReplyOK'
  <2> PICK c \in Clients : c = worker[w].client
    BY <1>0
  <2>0. /\ client' = client /\ worker[w].pc # "reply"
        /\ \A v \in Workers : v # w => worker'[v] = worker[v]
        /\ worker'[w].client = c
    BY <1>0, <1>2, HandlerStep
  <2>1. CASE ReadDirHandle(w)
    <3>1. /\ client[c].handle \in DOMAIN dirHandles
          /\ dirHandles[client[c].handle] = client[c].dir
      BY <1>0, <2>1, HandleFound DEF ReadDirHandle
    <3>2. worker' = [worker EXCEPT ![w].pc = "entries", ![w].dir = client[c].dir]
      BY <2>1, <3>1 DEF ReadDirHandle
    <3>3. worker'[w].pc = "entries" /\ worker'[w].dir = client[c].dir
      BY <1>0, <3>2 DEF WorkerState
    <3> QED
      BY <1>0, <2>0, <3>3 DEF ReplyOK
  <2>2. CASE ReadDirEntries(w)
    <3> PICK k, all : k = client[c] /\ all = DirEntries[k.dir]
      OBVIOUS
    <3>0. worker[w].dir = k.dir /\ k.handle # 0
      BY <1>0, <2>2 DEF ReplyOK, ReadDirEntries, Inv1, PhaseOK, ClientOK
    <3>1. k.off <= Len(all) /\ Len(all) \in Nat
      BY <1>0, <3>0 DEF SeenOK, Seen
    <3>2. PICK n \in Nat :
            /\ k.off \in Nat /\ all \in Seq(STRING)
            /\ k.off + n <= Len(all) /\ (n = 0 => k.off >= Len(all))
            /\ worker' = [worker EXCEPT ![w].pc = "reply", ![w].list = Batch(all, k.off, n)]
      <4>1. /\ TypeOK /\ k = client[worker[w].client]
            /\ all = DirEntries[worker[w].dir]
        BY <1>0, <3>0 DEF Inv1
      <4> QED
        BY ONLY <4>1, <2>2, w \in Workers, EntriesStep
    <3> PICK off, b : off = k.off /\ b = Batch(all, off, n)
      OBVIOUS
    <3>7. off \in Nat /\ n \in Nat /\ all \in Seq(STRING) /\ off + n <= Len(all)
      BY <3>2
    <3>8. /\ Len(Batch(all, off, n)) = n
          /\ \A i \in 1 .. n :
               Batch(all, off, n)[i] = [name |-> all[off + i], off |-> off + i]
      BY ONLY <3>7, BatchOf
    <3>3. Len(b) = n /\ \A i \in 1 .. n : b[i] = [name |-> all[k.off + i], off |-> k.off + i]
      BY <3>8
    <3>4. k.off + n <= Len(all) /\ (n = 0 => k.off = Len(all))
      <4>1. /\ k.off \in Nat /\ k.off + n <= Len(all)
            /\ (n = 0 => k.off >= Len(all))
        BY <3>2
      <4> QED
        BY ONLY <4>1, <3>1
    <3>5. Follows(k, b)
      BY ONLY <3>3, <3>4, all = DirEntries[k.dir] DEF Follows
    <3>6. worker'[w].pc = "reply" /\ worker'[w].list = b
      BY <1>0, <3>2 DEF WorkerState
    <3> QED
      BY <1>0, <2>0, <3>5, <3>6 DEF ReplyOK
  <2>3. CASE ~ ReadDirHandle(w) /\ ~ ReadDirEntries(w)
    <3>1. worker'[w].pc # "entries" /\ client[c].op # "readdir"
      BY <1>0, <2>3, <1>2, OtherCall
    <3> QED
      BY <1>0, <2>0, <3>1 DEF ReplyOK
  <2> QED
    BY <2>1, <2>2, <2>3
<1>3. ASSUME NEW w \in Workers, Take(w)
      PROVE  ReplyOK'
  <2>1. /\ client' = client /\ \A v \in Workers : v # w => worker'[v] = worker[v]
        /\ worker'[w].pc \notin {"entries", "reply"}
    BY <1>0, <1>3, TakeStep DEF Ops
  <2> QED
    BY <1>0, <2>1 DEF ReplyOK
<1>4. ASSUME NEW w \in Workers, Answers(w)
      PROVE  ReplyOK'
  <2> PICK c \in Clients : c = worker[w].client
    BY <1>0
  <2>1. /\ worker[w].pc = "reply" /\ worker'[w].pc \notin {"entries", "reply"}
        /\ \A v \in Workers : v # w => worker'[v] = worker[v]
        /\ \A d \in Clients : d # c => client'[d] = client[d]
    BY <1>0, <1>4, AnswerStep
  <2>2. \A v \in Workers : v # w /\ worker[v].pc \in {"entries", "reply"} =>
                             worker[v].client # c
    BY <1>0, <2>1 DEF Inv1, ServeOK, Busy
  <2> QED
    BY <1>0, <2>1, <2>2 DEF ReplyOK
<1>5. CASE Signal \/ MainStep
  <2>1. CASE ProcessEnds
    <3>1. \A w \in Workers : worker'[w].pc = "exited"
      BY <1>0, <2>1, EndStep DEF Inv1
    <3> QED
      BY <3>1 DEF ReplyOK
  <2>2. CASE UNCHANGED <<client, worker>>
    BY <1>0, <2>2 DEF ReplyOK
  <2> QED
    BY <1>5, <2>1, <2>2, MainSteps
<1> QED
  BY <1>1, <1>2, <1>3, <1>4, <1>5, Steps

-----------------------------------------------------------------------------
(* The theorems.                                                           *)

LEMMA InitInv == Init => IInv
<1> SUFFICES ASSUME Init
             PROVE  IInv
  OBVIOUS
<1>1. TypeOK
  BY InitType
<1>2. /\ queue = << >> /\ Len(<< >>) = 0 /\ DOMAIN dirHandles = {}
      /\ nextDirHandle = 1 /\ lost = {} /\ Running
  BY Empty DEF Init, Running
<1>3. \A c \in Clients : client[c].op = "none" /\ client[c].handle = 0
                           /\ client[c].err = "none"
  BY DEF Init, NoStream
<1>4. \A w \in Workers : worker[w].pc = "get_request" /\ worker[w].handle = 0
                           /\ worker[w].err = "none"
  BY DEF Init, IdleWorker
<1>5. QueueOK /\ ServeOK /\ PhaseOK /\ ClientOK /\ DownOK
  BY <1>2, <1>3, <1>4 DEF QueueOK, Queued, ServeOK, Busy, PhaseOK, ClientOK, DownOK
<1>6. HandleOK /\ TableOK /\ OwnerOK
  BY <1>2, <1>3, <1>4 DEF HandleOK, TableOK, Released, OwnerOK
<1>7. SeenOK /\ ReplyOK
  BY <1>3, <1>4 DEF SeenOK, Seen, ReplyOK
<1> QED
  BY <1>1, <1>5, <1>6, <1>7 DEF IInv, Inv1

LEMMA NextInv ==
  ASSUME IInv, [Next]_vars
  PROVE  IInv'
<1>1. CASE Next
  <2>1. Inv1'
    BY <1>1, Steps, ClientInv1, HandlerInv1, TakeInv1, AnswerInv1, MainInv1 DEF IInv
  <2> QED
    BY <1>1, <2>1, HandleInd, TableInd, OwnerInd, SeenInd, ReplyInd DEF IInv
<1>2. CASE UNCHANGED vars
  BY <1>2 DEF vars, IInv, Inv1, TypeOK, QueueOK, Queued, Waiting, ServeOK, Busy,
     PhaseOK, ClientOK, DownOK, Running, Exited, HandleOK, TableOK, Released,
     OwnerOK, Holds, Sends, SeenOK, ReplyOK
<1> QED
  BY <1>1, <1>2

LEMMA Invariance == Spec => []IInv
<1>1. Init => IInv
  BY InitInv
<1>2. IInv /\ [Next]_vars => IInv'
  BY NextInv
<1> QED
  BY <1>1, <1>2, PTL DEF Spec

(* The daemon's variables always have their types: a handle is a number that     *)
(* next_dir_handle has passed, a worker is at a line of the code.              *)
THEOREM ServerTypeCorrect == Spec => []TypeOK
<1>1. IInv => TypeOK
  BY DEF IInv, Inv1
<1> QED
  BY <1>1, Invariance, PTL

(* From the reply of opendir to releasedir a stream's handle is in the table,   *)
(* for its directory, and no call on it is refused, whatever the other clients  *)
(* and the other workers do between the fetch_add, the mutexes and the replies.  *)
THEOREM StreamsKeepTheirHandle == Spec => []StreamHasHandle
<1>1. IInv => StreamHasHandle
  BY DEF IInv, Inv1, ClientOK, TableOK, Released, StreamHasHandle
<1> QED
  BY <1>1, Invariance, PTL

(* Each entry of dir_handles has one owner: the client that has the handle, the  *)
(* worker that is about to send it, or an opendir whose reply was lost.         *)
THEOREM HandlesHaveOneOwner == Spec => []HandleHasOneOwner
<1>1. IInv => HandleHasOneOwner
  <2> SUFFICES ASSUME IInv, NEW h \in DOMAIN dirHandles
               PROVE  /\ \/ h \in lost
                         \/ \E c \in Clients : Holds(c, h)
                         \/ \E w \in Workers : Sends(w, h)
                      /\ \A c \in Clients :
                           Holds(c, h) => /\ h \notin lost
                                          /\ \A d \in Clients : Holds(d, h) => c = d
                                          /\ \A w \in Workers : ~ Sends(w, h)
                      /\ \A w \in Workers :
                           Sends(w, h) => /\ h \notin lost
                                          /\ \A v \in Workers : Sends(v, h) => v = w
    BY DEF HandleHasOneOwner
  <2>1. HandleOK /\ OwnerOK /\ h # 0
    BY DEF IInv, HandleOK
  <2>2. ASSUME NEW c \in Clients, Holds(c, h)
        PROVE  /\ h \notin lost
               /\ \A d \in Clients : Holds(d, h) => c = d
               /\ \A w \in Workers : ~ Sends(w, h)
    BY <2>1, <2>2 DEF HandleOK, Holds, Sends
  <2>3. ASSUME NEW w \in Workers, Sends(w, h)
        PROVE  /\ h \notin lost
               /\ \A v \in Workers : Sends(v, h) => v = w
    BY <2>1, <2>3 DEF HandleOK, Sends
  <2> QED
    BY <2>1, <2>2, <2>3 DEF OwnerOK
<1> QED
  BY <1>1, Invariance, PTL

(* A client has seen the entries of its directory up to its offset, in order,    *)
(* and all of them at the end of the stream, however the replies cut them.      *)
THEOREM ListingsExact == Spec => []ListingExact
<1>1. IInv => ListingExact
  <2> SUFFICES ASSUME IInv, NEW c \in Clients, client[c].handle # 0
               PROVE  LET all == DirEntries[client[c].dir]
                      IN /\ client[c].got = SubSeq(all, 1, client[c].off)
                         /\ client[c].eof => client[c].got = all
    BY DEF ListingExact
  <2> DEFINE k == client[c]
             all == DirEntries[k.dir]
  <2>1. k \in ClientState /\ Seen(k)
    BY DEF IInv, Inv1, TypeOK, SeenOK
  <2>2. k.got \in Seq(STRING) /\ all \in Seq(STRING) /\ k.off \in Nat
    BY <2>1, ServerAssumption DEF ClientState
  <2>3. /\ k.off <= Len(all) /\ Len(k.got) = k.off
        /\ \A i \in 1 .. k.off : k.got[i] = all[i]
        /\ k.eof => k.off = Len(all)
    BY <2>1 DEF Seen
  <2> HIDE DEF k, all
  <2>4. k.got = SubSeq(all, 1, k.off)
    BY <2>2, <2>3
  <2>5. k.eof => k.got = all
    BY <2>2, <2>3
  <2> QED
    BY <2>4, <2>5 DEF k, all
<1> QED
  BY <1>1, Invariance, PTL
-----------------------------------------------------------------------------

-----------------------------------------------------------------------------
(* The handlers that only read, which the workers run between the request and   *)
(* the reply: the theorems of FuseOps, for every image whose NIDs tell its       *)
(* files apart.  Inode numbers name one file for the life of the mount, and      *)
(* replies are about the file that was asked for.                             *)

(* What the kernel knows of a file is the number of its NID.                  *)
Rightly(k) == k.ino = ToIno(image.nid[k.node])

OpsInv ==
  /\ image \in Images
  /\ known \subseteq [ino : Nat \ {0}, node : Nodes]
  /\ \A k \in known : Rightly(k)
  /\ last.at \in known
  /\ last.ino = last.at.ino /\ last.node = last.at.node
  /\ last.size \in 0 .. MaxBuf

-----------------------------------------------------------------------------
(* Numbers and NIDs.                                                       *)

LEMMA ImageFacts ==
  ASSUME image \in Images
  PROVE  ImageOK(image)
BY OpsAssumption

(* to_nid undoes to_ino on every NID of the image, whatever the root's is.     *)
LEMMA NidOfIno ==
  ASSUME image \in Images, NEW n \in Nodes
  PROVE  /\ ToIno(image.nid[n]) \in Nat \ {0}
         /\ ToNid(ToIno(image.nid[n])) = image.nid[n]
         /\ NodesAt(image.nid[n]) = {n}
<1>1. /\ image.nid[n] \in Nat /\ image.nid[image.root] \in Nat
      /\ image.nid[n] = 0 => n = image.root
      /\ \A m \in Nodes : image.nid[m] = image.nid[n] => m = n
  BY ImageFacts DEF ImageOK
<1>2. ToIno(image.nid[n]) \in Nat \ {0}
  BY <1>1 DEF ToIno, FUSE_ROOT_ID
<1>3. ToNid(ToIno(image.nid[n])) = image.nid[n]
  BY <1>1 DEF ToIno, ToNid, FUSE_ROOT_ID
<1>4. NodesAt(image.nid[n]) = {n}
  BY <1>1 DEF NodesAt
<1> QED
  BY <1>2, <1>3, <1>4

(* A file that the kernel knows is the one that its number leads to.          *)
LEMMA KnownLeadsHome ==
  ASSUME OpsInv, NEW k \in known
  PROVE  /\ k.node \in Nodes /\ k.ino \in Nat \ {0}
         /\ ToNid(k.ino) = image.nid[k.node]
         /\ NodesAt(ToNid(k.ino)) = {k.node}
         /\ k.ino = ToIno(image.nid[k.node])
BY NidOfIno DEF OpsInv, Rightly

-----------------------------------------------------------------------------
(* The invariant.                                                          *)

LEMMA InitOps == OpsInit => OpsInv
<1> SUFFICES ASSUME OpsInit
             PROVE  OpsInv
  OBVIOUS
<1> DEFINE k == [ino |-> FUSE_ROOT_ID, node |-> image.root]
<1>1. image \in Images /\ known = {k} /\ last.at = k /\ last.ino = k.ino
      /\ last.node = k.node /\ last.size = 0
  BY DEF OpsInit, Called
<1>2. image.root \in Nodes
  BY <1>1, ImageFacts DEF ImageOK
<1>3. Rightly(k)
  BY DEF Rightly, ToIno
<1>4. k \in [ino : Nat \ {0}, node : Nodes]
  BY <1>2 DEF FUSE_ROOT_ID
<1>5. 0 \in 0 .. MaxBuf
  BY OpsAssumption
<1> QED
  BY <1>1, <1>3, <1>4, <1>5 DEF OpsInv

(* A call that tells the kernel only what is right, and whose reply is about   *)
(* a file that the kernel knows, keeps the invariant.                        *)
LEMMA StepKeeps ==
  ASSUME OpsInv, image' = image,
         known \subseteq known',
         \A j \in known' : j \in known \/ (\E n \in Nodes :
                             j = [ino |-> ToIno(image.nid[n]), node |-> n]),
         last'.at \in known', last'.ino = last'.at.ino,
         last'.node = last'.at.node, last'.size \in 0 .. MaxBuf
  PROVE  OpsInv'
<1>1. ASSUME NEW j \in known'
      PROVE  j \in [ino : Nat \ {0}, node : Nodes] /\ Rightly(j)'
  <2>1. CASE j \in known
    BY <2>1 DEF OpsInv, Rightly, ToIno
  <2>2. CASE \E n \in Nodes : j = [ino |-> ToIno(image.nid[n]), node |-> n]
    <3> PICK n \in Nodes : j = [ino |-> ToIno(image.nid[n]), node |-> n]
      BY <2>2
    <3>1. ToIno(image.nid[n]) \in Nat \ {0}
      BY NidOfIno DEF OpsInv
    <3> QED
      BY <3>1 DEF Rightly, ToIno
  <2> QED
    BY <1>1, <2>1, <2>2
<1> QED
  BY <1>1 DEF OpsInv

LEMMA ErrorKeeps ==
  ASSUME OpsInv, NEW k \in known, NEW op, NEW errno, Error(op, k, errno)
  PROVE  OpsInv'
<1>1. /\ image' = image /\ known' = known /\ last'.at = k
      /\ last'.ino = k.ino /\ last'.node = k.node /\ last'.size = 0
  BY DEF Error, Called
<1>2. 0 \in 0 .. MaxBuf
  BY OpsAssumption
<1> QED
  BY <1>1, <1>2, StepKeeps

(* A reply that tells nothing new.                                          *)
LEMMA ReplyKeeps ==
  ASSUME OpsInv, NEW k \in known, NEW op, Replied(op, k, k.ino, k.node),
         known' = known
  PROVE  OpsInv'
<1>1. /\ image' = image /\ last'.at = k
      /\ last'.ino = k.ino /\ last'.node = k.node /\ last'.size = 0
  BY DEF Replied, Called
<1>2. 0 \in 0 .. MaxBuf
  BY OpsAssumption
<1> QED
  BY <1>1, <1>2, StepKeeps

LEMMA LookupKeeps ==
  ASSUME OpsInv, NEW k \in known, NEW name \in Names, Lookup(k, name)
  PROVE  OpsInv'
<1>1. LookupIn(k, k.node, name)
  BY KnownLeadsHome DEF Lookup
<1>2. CASE name \notin DOMAIN image.entries[k.node]
  BY <1>1, <1>2, ErrorKeeps DEF LookupIn
<1>3. CASE name \in DOMAIN image.entries[k.node]
  <2> DEFINE child == image.entries[k.node][name]
             pair == [ino |-> ToIno(image.nid[child]), node |-> child]
  <2>1. child \in Nodes
    BY <1>3, KnownLeadsHome, ImageFacts DEF OpsInv, ImageOK
  <2>2. NodesAt(image.nid[child]) = {child}
    BY <2>1, NidOfIno DEF OpsInv
  <2>3. /\ known' = known \cup {pair}
        /\ Replied("lookup", pair, StatIno(image.nid[child]), child)
    BY <1>1, <1>3, <2>2 DEF LookupIn
  <2>4. /\ image' = image /\ last'.at = pair /\ last'.ino = pair.ino
        /\ last'.node = pair.node /\ last'.size = 0
    BY <2>3 DEF Replied, Called, StatIno
  <2>5. 0 \in 0 .. MaxBuf
    BY OpsAssumption
  <2>6. \A j \in known' : j \in known \/ (\E n \in Nodes :
                             j = [ino |-> ToIno(image.nid[n]), node |-> n])
    BY <2>1, <2>3
  <2>7. known \subseteq known' /\ last'.at \in known'
    BY <2>3, <2>4
  <2> HIDE DEF pair
  <2> QED
    BY <2>4, <2>5, <2>6, <2>7, StepKeeps
<1> QED
  BY <1>2, <1>3

LEMMA ReaddirplusKeeps ==
  ASSUME OpsInv, NEW k \in known, Readdirplus(k)
  PROVE  OpsInv'
<1> DEFINE n == k.node
           told == {[ino  |-> ToIno(image.nid[image.entries[n][name]]),
                     node |-> image.entries[n][name]] :
                       name \in DOMAIN image.entries[n]}
<1>1. NodesAt(ToNid(k.ino)) = {n}
  BY KnownLeadsHome
<1>2. CASE image.kind[n] # "dir"
  BY <1>1, <1>2, ErrorKeeps DEF Readdirplus
<1>3. CASE image.kind[n] = "dir"
  <2>1. known' = known \cup told /\ Replied("readdirplus", k, k.ino, n)
    BY <1>1, <1>3 DEF Readdirplus
  <2>2. /\ image' = image /\ last'.at = k /\ last'.ino = k.ino
        /\ last'.node = k.node /\ last'.size = 0
    BY <2>1 DEF Replied, Called
  <2>3. 0 \in 0 .. MaxBuf
    BY OpsAssumption
  <2>4. \A name \in DOMAIN image.entries[n] : image.entries[n][name] \in Nodes
    BY KnownLeadsHome, ImageFacts DEF OpsInv, ImageOK
  <2>5. \A j \in told : \E m \in Nodes :
          j = [ino |-> ToIno(image.nid[m]), node |-> m]
    BY <2>4
  <2> HIDE DEF told
  <2> QED
    BY <2>1, <2>2, <2>3, <2>5, StepKeeps
<1> QED
  BY <1>2, <1>3

LEMMA AnswerKeeps ==
  ASSUME OpsInv, NEW k \in known, NEW op, NEW size \in 0 .. MaxBuf,
         NEW length, NEW got, Answer(op, k, k.node, size, length, got)
  PROVE  OpsInv'
<1>1. /\ image' = image /\ known' = known /\ last'.at = k
      /\ last'.ino = k.ino /\ last'.node = k.node /\ last'.size = size
  BY DEF Answer, Called
<1> QED
  BY <1>1, StepKeeps

LEMMA NextOps == OpsInv /\ [OpsNext]_opsVars => OpsInv'
<1> SUFFICES ASSUME OpsInv, [OpsNext]_opsVars
             PROVE  OpsInv'
  OBVIOUS
<1>1. CASE UNCHANGED opsVars
  BY <1>1 DEF opsVars, OpsInv, Rightly, ToIno
<1>2. ASSUME NEW k \in known, NEW name \in Names, Lookup(k, name)
      PROVE  OpsInv'
  BY <1>2, LookupKeeps
<1>3. ASSUME NEW k \in known, Readdirplus(k)
      PROVE  OpsInv'
  BY <1>3, ReaddirplusKeeps
<1>4. ASSUME NEW k \in known, Getattr(k)
      PROVE  OpsInv'
  <2>1. StatIno(ToNid(k.ino)) = k.ino
    BY KnownLeadsHome DEF StatIno
  <2>2. Replied("getattr", k, k.ino, k.node) /\ known' = known
    BY <1>4, <2>1, KnownLeadsHome DEF Getattr
  <2> QED
    BY <2>2, ReplyKeeps
<1>5. ASSUME NEW k \in known, Readlink(k)
      PROVE  OpsInv'
  <2>1. Replied("readlink", k, k.ino, k.node) /\ known' = known
    BY <1>5, KnownLeadsHome DEF Readlink
  <2> QED
    BY <2>1, ReplyKeeps
<1>6. ASSUME NEW k \in known, NEW forWrite \in BOOLEAN, OpenAndRead(k, forWrite)
      PROVE  OpsInv'
  <2>1. \/ \E errno : Error("open", k, errno)
        \/ Replied("read", k, k.ino, k.node) /\ known' = known
    BY <1>6, KnownLeadsHome DEF OpenAndRead
  <2> QED
    BY <2>1, ReplyKeeps, ErrorKeeps
<1>7. ASSUME NEW k \in known, NEW name \in Attrs, NEW size \in 0 .. MaxBuf,
             Getxattr(k, name, size)
      PROVE  OpsInv'
  <2>1. \/ Error(name, k, "ENODATA")
        \/ \E length, got : Answer(name, k, k.node, size, length, got)
    BY <1>7, KnownLeadsHome DEF Getxattr
  <2> QED
    BY <2>1, ErrorKeeps, AnswerKeeps
<1>8. ASSUME NEW k \in known, NEW size \in 0 .. MaxBuf, Listxattr(k, size)
      PROVE  OpsInv'
  <2>1. \E length, got : Answer("list", k, k.node, size, length, got)
    BY <1>8, KnownLeadsHome DEF Listxattr
  <2> QED
    BY <2>1, AnswerKeeps
<1> QED
  BY <1>1, <1>2, <1>3, <1>4, <1>5, <1>6, <1>7, <1>8 DEF OpsNext

LEMMA OpsInvariance == OpsSpec => []OpsInv
BY InitOps, NextOps, PTL DEF OpsSpec

-----------------------------------------------------------------------------
(* The theorems.                                                           *)

(* What the kernel is told are inode numbers of files, for every image.        *)
THEOREM OpsTypeCorrect == OpsSpec => []OpsTypeOK
<1>1. OpsInv => OpsTypeOK
  <2> SUFFICES ASSUME OpsInv
               PROVE  OpsTypeOK
    OBVIOUS
  <2>1. last.at.node \in Nodes /\ last.at.ino \in Nat
    BY KnownLeadsHome DEF OpsInv
  <2> QED
    BY <2>1 DEF OpsInv, OpsTypeOK
<1> QED
  BY <1>1, OpsInvariance, PTL

(* A number never stands for two files of the mounted tree, nor a file for two *)
(* numbers: to_ino and to_nid are inverse to each other on every image whose    *)
(* root is at NID 0 or that has nothing there.                               *)
THEOREM InosNameOneFile == OpsSpec => []InoNamesOneFile
<1>1. OpsInv => InoNamesOneFile
  <2> SUFFICES ASSUME OpsInv, NEW j \in known, NEW k \in known
               PROVE  j.ino = k.ino <=> j.node = k.node
    BY DEF InoNamesOneFile
  <2>1. j.node = k.node => j.ino = k.ino
    BY KnownLeadsHome
  <2>2. j.ino = k.ino => {j.node} = {k.node}
    BY KnownLeadsHome
  <2> QED
    BY <2>1, <2>2
<1> QED
  BY <1>1, OpsInvariance, PTL

(* Every reply is about the file that the caller meant and carries the number   *)
(* that the kernel asked for.                                                *)
THEOREM RepliesAreRight == OpsSpec => []RepliesAboutAskedFile
<1>1. OpsInv => RepliesAboutAskedFile
  BY DEF OpsInv, RepliesAboutAskedFile
<1> QED
  BY <1>1, OpsInvariance, PTL

-----------------------------------------------------------------------------
(* Sizes of extended attributes.                                             *)

(* What getxattr or listxattr has to return of a file.                        *)
LengthOf(op, n) ==
  IF op = "list" THEN ListLen(image.xattrs[n])
  ELSE Len(image.xattrs[n][Min(Named(n, op))].value)

Stores(n, name, value) ==
  \E i \in DOMAIN image.xattrs[n] :
    image.xattrs[n][i] = [name |-> name, value |-> value]

(* Callers were told the lengths, and are refused for no other reason.        *)
Sized ==
  /\ \A s \in sizes : s.length = LengthOf(s.op, s.node)
  /\ last.errno = "ERANGE" => last.size < LengthOf(last.op, last.node)
  /\ last.op \in Attrs /\ last.errno = "none" /\ last.size > 0 =>
       Stores(last.node, last.op, last.got)

LEMMA LeastOf ==
  ASSUME NEW T \in SUBSET Nat, T # {}
  PROVE  Min(T) \in T
<1>1. \E x \in T : \A y \in T : ~ (<<y, x>> \in OpToRel(<, Nat))
  BY NatLessThanWellFounded, WFMin
<1>2. PICK n \in T : \A y \in T : ~ (<<y, n>> \in OpToRel(<, Nat))
  BY <1>1
<1>3. \A m \in T : m < n => <<m, n>> \in OpToRel(<, Nat)
  BY DEF OpToRel
<1>4. \A m \in T : m \in Nat /\ n \in Nat /\ ~ (m < n)
  BY <1>2, <1>3
<1>5. \A m \in T : n <= m
  BY ONLY <1>4
<1> QED
  BY <1>5 DEF Min

(* The loop of getxattr finds a stored value of the name.                     *)
LEMMA FirstIsStored ==
  ASSUME image \in Images, NEW n \in Nodes, NEW name \in Attrs,
         Named(n, name) # {}
  PROVE  Stores(n, name, image.xattrs[n][Min(Named(n, name))].value)
<1> DEFINE xs == image.xattrs[n]
           i == Min(Named(n, name))
<1>1. xs \in Seq([name : Attrs, value : Seq(Nat)])
  BY ImageFacts DEF ImageOK
<1>2. /\ DOMAIN xs \in SUBSET Nat
      /\ \A j \in DOMAIN xs : xs[j] \in [name : Attrs, value : Seq(Nat)]
  <2> DEFINE S == [name : Attrs, value : Seq(Nat)]
  <2>1. xs \in Seq(S)
    BY ONLY <1>1
  <2> HIDE DEF S, xs
  <2>2. Len(xs) \in Nat /\ DOMAIN xs = 1 .. Len(xs)
    BY ONLY <2>1, LenProperties
  <2>3. \A j \in 1 .. Len(xs) : xs[j] \in S
    BY ONLY <2>1, ElementOfSeq
  <2> QED
    BY ONLY <2>2, <2>3 DEF S
<1>3. i \in Named(n, name)
  BY <1>2, LeastOf DEF Named
<1>4. i \in DOMAIN xs /\ xs[i].name = name
  BY <1>3 DEF Named
<1>5. xs[i] = [name |-> name, value |-> xs[i].value]
  BY ONLY <1>2, <1>4
<1> QED
  BY <1>4, <1>5 DEF Stores

LEMMA InitSized == OpsInit => Sized
<1> SUFFICES ASSUME OpsInit
             PROVE  Sized
  OBVIOUS
<1>1. sizes = {} /\ last.errno = "none" /\ last.size = 0
  BY DEF OpsInit, Called
<1> QED
  BY <1>1 DEF Sized

(* A call that tells no size.                                                *)
LEMMA OthersKeep ==
  ASSUME Sized, UNCHANGED <<image, sizes>>, last'.size = 0,
         last'.errno # "ERANGE"
  PROVE  Sized'
<1>1. \A o, n : LengthOf(o, n)' = LengthOf(o, n)
  BY DEF LengthOf, Named
<1>2. ~ (last'.size > 0)
  OBVIOUS
<1> QED
  BY ONLY Sized, <1>1, <1>2, last'.errno # "ERANGE", UNCHANGED sizes DEF Sized

LEMMA AnswerKeepsSizes ==
  ASSUME Sized, NEW op, NEW k, NEW size \in 0 .. MaxBuf, NEW got,
         Answer(op, k, k.node, size, LengthOf(op, k.node), got),
         op \in Attrs => Stores(k.node, op, got)
  PROVE  Sized'
<1> DEFINE length == LengthOf(op, k.node)
           told == [op |-> op, node |-> k.node, length |-> length]
<1>1. image' = image
  BY DEF Answer
<1>2. \A o, n : LengthOf(o, n)' = LengthOf(o, n)
  BY ONLY <1>1 DEF LengthOf, Named
<1>3. \A n, o, g : Stores(n, o, g)' <=> Stores(n, o, g)
  BY ONLY <1>1 DEF Stores
<1>4. told.length = LengthOf(told.op, told.node)
  OBVIOUS
<1>5. last'.op = op /\ last'.node = k.node /\ last'.size = size
  BY DEF Answer, Called
<1>6. sizes' = sizes \/ sizes' = sizes \cup {told}
  BY DEF Answer
<1>7. last'.errno = "ERANGE" => size < length
  BY DEF Answer, Called, TooSmall
<1>8. last'.errno = "none" /\ size > 0 => last'.got = got
  BY DEF Answer, Called
<1> HIDE DEF told, length
<1>9. \A s \in sizes' : s.length = LengthOf(s.op, s.node)
  BY ONLY <1>4, <1>6, Sized DEF Sized
<1> QED
  BY ONLY <1>2, <1>3, <1>5, <1>7, <1>8, <1>9,
          op \in Attrs => Stores(k.node, op, got) DEF Sized, length

LEMMA NextSized == OpsInv /\ Sized /\ [OpsNext]_opsVars => Sized'
<1> SUFFICES ASSUME OpsInv, Sized, [OpsNext]_opsVars
             PROVE  Sized'
  OBVIOUS
<1>1. CASE UNCHANGED opsVars
  BY <1>1 DEF opsVars, Sized, LengthOf, Named, Stores
<1>2. ASSUME NEW op, NEW k, NEW ino, NEW node, Replied(op, k, ino, node)
      PROVE  Sized'
  <2>1. UNCHANGED <<image, sizes>> /\ last'.size = 0 /\ last'.errno = "none"
    BY <1>2 DEF Replied, Called
  <2> QED
    BY <2>1, OthersKeep
<1>3. ASSUME NEW op, NEW k, NEW errno, errno # "ERANGE", Error(op, k, errno)
      PROVE  Sized'
  <2>1. UNCHANGED <<image, sizes>> /\ last'.size = 0 /\ last'.errno = errno
    BY <1>3 DEF Error, Called
  <2> QED
    BY <1>3, <2>1, OthersKeep
<1>4. ASSUME NEW k \in known, NEW name \in Names, Lookup(k, name)
      PROVE  Sized'
  BY <1>2, <1>3, <1>4 DEF Lookup, LookupIn
<1>5. ASSUME NEW k \in known,
             \/ Readdirplus(k) \/ Getattr(k) \/ Readlink(k)
             \/ \E forWrite \in BOOLEAN : OpenAndRead(k, forWrite)
      PROVE  Sized'
  BY <1>2, <1>3, <1>5 DEF Readdirplus, Getattr, Readlink, OpenAndRead
<1>6. ASSUME NEW k \in known, NEW name \in Attrs, NEW size \in 0 .. MaxBuf,
             Getxattr(k, name, size)
      PROVE  Sized'
  <2> DEFINE n == k.node
             value == image.xattrs[n][Min(Named(n, name))].value
  <2>1. n \in Nodes /\ NodesAt(ToNid(k.ino)) = {n} /\ image \in Images
    BY KnownLeadsHome DEF OpsInv
  <2>2. CASE Named(n, name) = {}
    BY <1>3, <1>6, <2>1, <2>2 DEF Getxattr
  <2>3. CASE Named(n, name) # {}
    <3>1. Answer(name, k, n, size, Len(value), value)
      BY <1>6, <2>1, <2>3 DEF Getxattr
    <3>2. Len(value) = LengthOf(name, n)
      BY OpsAssumption DEF LengthOf
    <3>3. Stores(n, name, value)
      BY <2>1, <2>3, FirstIsStored
    <3> HIDE DEF value
    <3> QED
      BY <3>1, <3>2, <3>3, AnswerKeepsSizes
  <2> QED
    BY <2>2, <2>3
<1>7. ASSUME NEW k \in known, NEW size \in 0 .. MaxBuf, Listxattr(k, size)
      PROVE  Sized'
  <2> DEFINE n == k.node
             got == [i \in DOMAIN image.xattrs[n] |-> image.xattrs[n][i].name]
  <2>1. NodesAt(ToNid(k.ino)) = {n}
    BY KnownLeadsHome
  <2>2. Answer("list", k, n, size, ListLen(image.xattrs[n]), got)
    BY <1>7, <2>1 DEF Listxattr
  <2>3. ListLen(image.xattrs[n]) = LengthOf("list", n)
    BY DEF LengthOf
  <2> HIDE DEF got
  <2> QED
    BY <2>2, <2>3, AnswerKeepsSizes, OpsAssumption
<1> QED
  BY <1>1, <1>4, <1>5, <1>6, <1>7 DEF OpsNext

(* The size that getxattr and listxattr give is enough for the same call, for   *)
(* ever, and a value that is returned is one that is stored under the name.     *)
THEOREM SizesAreEnough == OpsSpec => []SizeIsEnough
<1>1. Sized => SizeIsEnough
  BY Zenon DEF Sized, SizeIsEnough, Stores
<1>2. OpsSpec => []Sized
  BY OpsInvariance, InitSized, NextSized, PTL DEF OpsSpec
<1> QED
  BY <1>1, <1>2, PTL
=============================================================================
