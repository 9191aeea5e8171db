----------------------------- MODULE FuseServer -----------------------------
(***************************************************************************)
(* erofs-fuse at run time: the worker threads and the main thread of        *)
(* bin/erofs-fuse.rs, the directory handle table of ErofsFs (fs/fuse.rs),   *)
(* and the kernel that queues requests on /dev/fuse for all the workers.    *)
(*                                                                         *)
(* A client is a process with at most one call in the kernel: it opens a    *)
(* directory, reads it in as many calls as it likes, rewinds, closes.        *)
(* `stateless` stands for the calls that only consult the mapped image       *)
(* (lookup, getattr, read, readlink, getxattr ...).  The file system library *)
(* and the kernel are external: a reply or a get_request may fail.           *)
(***************************************************************************)
EXTENDS Naturals, Sequences, SequencesExt

CONSTANTS
  Clients, Workers,
  Dirs,         (* directories of the image                                *)
  DirEntries,   (* what read_dir_cached returns for each of them            *)
  BadDirs,      (* directories of which read_dir_cached fails               *)
  MaxBatch,     (* the most entries that fit in one reply                   *)
  MaxOpens,     (* bound on the opendir calls of a run                      *)
  MaxFailures   (* bound on failed replies and failed get_requests          *)

ASSUME ServerAssumption ==
  /\ Clients # {} /\ Dirs # {}
  /\ BadDirs \subseteq Dirs
  /\ DirEntries \in [Dirs -> Seq(STRING)]
  /\ MaxBatch \in Nat \ {0}
  /\ MaxOpens \in Nat /\ MaxFailures \in Nat

VARIABLES
  client,         (* what each client is doing, and what it has seen         *)
  queue,          (* clients with a request that no worker has taken         *)
  worker,         (* each worker thread: program counter and locals          *)
  dirHandles,     (* ErofsFs::dir_handles: handle to the directory listed    *)
  nextDirHandle,  (* ErofsFs::next_dir_handle                                *)
  main,           (* where the main thread is                                *)
  woken,          (* FuseSession::wake was called                            *)
  opens, failures,
  lost            (* handles whose opendir reply did not reach the client    *)

vars == <<client, queue, worker, dirHandles, nextDirHandle, main, woken,
          opens, failures, lost>>

(* A client: `op` is the request it waits for ("none" when it waits for      *)
(* nothing), `handle` the directory stream it holds (0: none), `off` the     *)
(* offset of the last entry seen, `got` the entries seen since the start.    *)
NoStream == [op |-> "none", handle |-> 0, dir |-> CHOOSE d \in Dirs : TRUE,
             off |-> 0, got |-> << >>, eof |-> FALSE, err |-> "none"]

IdleWorker == [pc |-> "get_request", client |-> CHOOSE c \in Clients : TRUE,
               handle |-> 0, dir |-> CHOOSE d \in Dirs : TRUE,
               list |-> << >>, err |-> "none"]

Waiting(c) == client[c].op # "none"
Exited(w) == worker[w].pc = "exited"
Running == main # "exited"

Init ==
  /\ client = [c \in Clients |-> NoStream]
  /\ queue = << >>
  /\ worker = [w \in Workers |-> IdleWorker]
  /\ dirHandles = << >>
  /\ nextDirHandle = 1
  /\ main = "signals"
  /\ woken = FALSE
  /\ opens = 0
  /\ failures = 0
  /\ lost = {}

-----------------------------------------------------------------------------
(* Clients, through the kernel.                                            *)

Request(c) ==
  /\ Running
  /\ ~ Waiting(c)
  /\ queue' = Append(queue, c)
  /\ UNCHANGED <<worker, dirHandles, nextDirHandle, main, woken, failures,
                 lost>>

OpenDir(c) ==
  /\ client[c].handle = 0
  /\ opens < MaxOpens
  /\ opens' = opens + 1
  /\ \E d \in Dirs : client' = [client EXCEPT
                       ![c] = [NoStream EXCEPT !.op = "opendir", !.dir = d]]
  /\ Request(c)

ReadDir(c) ==
  /\ client[c].handle # 0
  /\ ~ client[c].eof
  /\ client' = [client EXCEPT ![c].op = "readdir"]
  /\ Request(c)
  /\ UNCHANGED opens

(* lseek(fd, 0): the kernel does not ask the server. *)
Rewind(c) ==
  /\ Running
  /\ ~ Waiting(c)
  /\ client[c].handle # 0
  /\ client' = [client EXCEPT ![c].off = 0, ![c].got = << >>, ![c].eof = FALSE]
  /\ UNCHANGED <<queue, worker, dirHandles, nextDirHandle, main, woken, opens,
                 failures, lost>>

CloseDir(c) ==
  /\ client[c].handle # 0
  /\ client' = [client EXCEPT ![c].op = "releasedir"]
  /\ Request(c)
  /\ UNCHANGED opens

Stateless(c) ==
  /\ client[c].handle = 0
  /\ client' = [client EXCEPT ![c].op = "stateless"]
  /\ Request(c)
  /\ UNCHANGED opens

-----------------------------------------------------------------------------
(* Worker threads.                                                         *)

(* get_request gives the oldest request to this worker. *)
GetRequest(w) ==
  /\ worker[w].pc = "get_request"
  /\ queue # << >>
  /\ queue' = Tail(queue)
  /\ worker' = [worker EXCEPT ![w] =
                  [IdleWorker EXCEPT !.pc = client[Head(queue)].op,
                                     !.client = Head(queue)]]
  /\ UNCHANGED <<client, dirHandles, nextDirHandle, main, woken, opens,
                 failures, lost>>

(* Faulty variants, for mutation: the counter is not advanced; the table is   *)
(* cleared; an entry carries its own offset, not the next one's.             *)
LoadOnly(n) == n
NoneLeft(h) == << >>
OwnOffset(idx) == idx

FetchAdd(n) == n + 1
Without(h) == [g \in DOMAIN dirHandles \ {h} |-> dirHandles[g]]
EntryOffset(idx) == idx + 1

(* create_dir_handle up to the fetch_add: the directory is read first, and   *)
(* an error leaves neither a handle nor a gap in the counter.               *)
OpenDirCounter(w) ==
  LET d == client[worker[w].client].dir
  IN /\ worker[w].pc = "opendir"
     /\ IF d \in BadDirs
          THEN /\ worker' = [worker EXCEPT ![w].pc = "reply", ![w].err = "EIO"]
               /\ UNCHANGED nextDirHandle
          ELSE /\ worker' = [worker EXCEPT ![w].pc = "insert",
                                           ![w].handle = nextDirHandle]
               /\ nextDirHandle' = FetchAdd(nextDirHandle)
     /\ UNCHANGED <<client, queue, dirHandles, main, woken, opens, failures,
                    lost>>

(* The insertion, under the mutex. *)
OpenDirInsert(w) ==
  /\ worker[w].pc = "insert"
  /\ dirHandles' = [h \in DOMAIN dirHandles \cup {worker[w].handle} |->
                      IF h = worker[w].handle
                        THEN client[worker[w].client].dir
                        ELSE dirHandles[h]]
  /\ worker' = [worker EXCEPT ![w].pc = "reply"]
  /\ UNCHANGED <<client, queue, nextDirHandle, main, woken, opens, failures,
                 lost>>

(* get_dir_handle, under the mutex; the entries are shared after that. *)
ReadDirHandle(w) ==
  LET h == client[worker[w].client].handle
  IN /\ worker[w].pc = "readdir"
     /\ worker' = IF h \in DOMAIN dirHandles
                    THEN [worker EXCEPT ![w].pc = "entries",
                                        ![w].dir = dirHandles[h]]
                    ELSE [worker EXCEPT ![w].pc = "reply", ![w].err = "EBADF"]
     /\ UNCHANGED <<client, queue, dirHandles, nextDirHandle, main, woken,
                    opens, failures, lost>>

(* The loop of readdir and readdirplus: entries from the offset on, until    *)
(* add_entry finds no room; at least one fits in an empty reply.             *)
ReadDirEntries(w) ==
  LET start == client[worker[w].client].off
      all   == DirEntries[worker[w].dir]
  IN /\ worker[w].pc = "entries"
     /\ \E n \in 0 .. MaxBatch :
          /\ start + n <= Len(all)
          /\ n = 0 => start >= Len(all)
          /\ worker' = [worker EXCEPT ![w].pc = "reply",
               ![w].list = [i \in 1 .. n |->
                              [name |-> all[start + i],
                               off  |-> EntryOffset(start + i - 1)]]]
     /\ UNCHANGED <<client, queue, dirHandles, nextDirHandle, main, woken,
                    opens, failures, lost>>

ReleaseDir(w) ==
  /\ worker[w].pc = "releasedir"
  /\ dirHandles' = Without(client[worker[w].client].handle)
  /\ worker' = [worker EXCEPT ![w].pc = "reply"]
  /\ UNCHANGED <<client, queue, nextDirHandle, main, woken, opens, failures,
                 lost>>

(* Faulty variant, for mutation: the handler waits for what never comes.      *)
Blocks(w) == worker[w].pc = "stateless" /\ UNCHANGED vars

StatelessOp(w) ==
  /\ worker[w].pc = "stateless"
  /\ worker' = [worker EXCEPT ![w].pc = "reply"]
  /\ UNCHANGED <<client, queue, dirHandles, nextDirHandle, main, woken, opens,
                 failures, lost>>

(* What a reply is to the client that waits for it. *)
Receive(c, r) ==
  IF r.err # "none" THEN [c EXCEPT !.op = "none", !.err = r.err]
  ELSE CASE c.op = "opendir"    -> [c EXCEPT !.op = "none", !.handle = r.handle]
         [] c.op = "readdir"    ->
              [c EXCEPT !.op  = "none",
                        !.got = @ \o [i \in 1 .. Len(r.list) |-> r.list[i].name],
                        !.off = IF r.list = << >> THEN @ ELSE Last(r.list).off,
                        !.eof = (r.list = << >>)]
         [] c.op = "releasedir" -> NoStream
         [] c.op = "stateless"  -> [c EXCEPT !.op = "none"]

(* handle_message returns Ok, or an error that is not EncodeMessage, after   *)
(* the reply: the worker loops.                                            *)
NoLoop(w) == [IdleWorker EXCEPT !.pc = "done"]   (* faulty variant *)
AfterReply(w) == IdleWorker

Reply(w) ==
  LET c == worker[w].client
  IN /\ worker[w].pc = "reply"
     /\ client' = [client EXCEPT ![c] = Receive(@, worker[w])]
     /\ worker' = [worker EXCEPT ![w] = AfterReply(w)]
     /\ UNCHANGED <<queue, dirHandles, nextDirHandle, main, woken, opens,
                    failures, lost>>

(* EncodeMessage: the kernel does not take the reply, and the worker leaves  *)
(* its loop.  The caller gets an error.                                    *)
ReplyFails(w) ==
  LET c == worker[w].client
  IN /\ worker[w].pc = "reply"
     /\ failures < MaxFailures
     /\ failures' = failures + 1
     /\ client' = [client EXCEPT ![c] =
                     [(IF @.op = "releasedir" THEN NoStream ELSE @)
                        EXCEPT !.op = "none", !.err = "ECONNABORTED"]]
     /\ lost' = IF client[c].op = "opendir" /\ worker[w].handle # 0
                  THEN lost \cup {worker[w].handle} ELSE lost
     /\ worker' = [worker EXCEPT ![w] = [IdleWorker EXCEPT !.pc = "exited"]]
     /\ UNCHANGED <<queue, dirHandles, nextDirHandle, main, woken, opens>>

(* get_request fails, or finds that the session was woken: the worker ends. *)
GetRequestFails(w) ==
  /\ worker[w].pc = "get_request"
  /\ failures < MaxFailures
  /\ failures' = failures + 1
  /\ worker' = [worker EXCEPT ![w].pc = "exited"]
  /\ UNCHANGED <<client, queue, dirHandles, nextDirHandle, main, woken, opens,
                 lost>>

GetRequestWoken(w) ==
  /\ worker[w].pc = "get_request"
  /\ woken
  /\ worker' = [worker EXCEPT ![w].pc = "exited"]
  /\ UNCHANGED <<client, queue, dirHandles, nextDirHandle, main, woken, opens,
                 failures, lost>>

-----------------------------------------------------------------------------
(* The main thread.                                                        *)

(* A termination signal arrives. *)
Signal ==
  /\ main = "signals"
  /\ main' = "umount"
  /\ UNCHANGED <<client, queue, worker, dirHandles, nextDirHandle, woken,
                 opens, failures, lost>>

Umount ==
  /\ main = "umount"
  /\ main' = "wake"
  /\ UNCHANGED <<client, queue, worker, dirHandles, nextDirHandle, woken,
                 opens, failures, lost>>

(* The process ends with its threads, wherever they are; the kernel aborts   *)
(* the connection and fails every call that waits.                          *)
ProcessEnds ==
  /\ main' = "exited"
  /\ worker' = [w \in Workers |-> [IdleWorker EXCEPT !.pc = "exited"]]
  /\ queue' = << >>
  /\ client' = [c \in Clients |->
                  IF Waiting(c)
                    THEN [client[c] EXCEPT !.op = "none", !.err = "ENOTCONN"]
                    ELSE client[c]]
  /\ dirHandles' = << >>
  /\ UNCHANGED <<nextDirHandle, woken, opens, failures, lost>>

(* Faulty variant: the error is logged and main waits for another signal. *)
WaitAgain ==
  /\ main = "umount"
  /\ main' = "signals"
  /\ UNCHANGED <<client, queue, worker, dirHandles, nextDirHandle, woken,
                 opens, failures, lost>>

(* se.umount()? fails: main returns the error. *)
UmountFails ==
  /\ main = "umount"
  /\ ProcessEnds

Wake ==
  /\ main = "wake"
  /\ main' = "return"
  /\ woken' = TRUE
  /\ UNCHANGED <<client, queue, worker, dirHandles, nextDirHandle, opens,
                 failures, lost>>

(* se.wake()? fails: the same. *)
WakeFails ==
  /\ main = "wake"
  /\ ProcessEnds

(* main returns without joining the workers. *)
Return ==
  /\ main = "return"
  /\ ProcessEnds

WorkerStep(w) ==
  \/ GetRequest(w)
  \/ OpenDirCounter(w) \/ OpenDirInsert(w)
  \/ ReadDirHandle(w) \/ ReadDirEntries(w)
  \/ ReleaseDir(w) \/ StatelessOp(w)
  \/ Reply(w)

MainStep == Umount \/ UmountFails \/ Wake \/ WakeFails \/ Return

Next ==
  \/ \E c \in Clients :
       OpenDir(c) \/ ReadDir(c) \/ Rewind(c) \/ CloseDir(c) \/ Stateless(c)
  \/ \E w \in Workers :
       WorkerStep(w) \/ ReplyFails(w) \/ GetRequestFails(w)
         \/ GetRequestWoken(w)
  \/ Signal
  \/ MainStep

(* The operating system runs every thread; nothing makes a client call, a    *)
(* signal arrive, or a reply fail.                                          *)
Fairness ==
  /\ \A w \in Workers : WF_vars(WorkerStep(w))
  /\ WF_vars(MainStep)

Spec == Init /\ [][Next]_vars /\ Fairness

-----------------------------------------------------------------------------
(* Properties.                                                             *)

Ops == {"opendir", "readdir", "releasedir", "stateless"}
Listed == [name : STRING, off : Nat]

ClientState ==
  [op : Ops \cup {"none"}, handle : Nat, dir : Dirs, off : Nat,
   got : Seq(STRING), eof : BOOLEAN,
   err : {"none", "EIO", "EBADF", "ECONNABORTED", "ENOTCONN"}]

WorkerState ==
  [pc : Ops \cup {"get_request", "insert", "entries", "reply", "exited"},
   client : Clients, handle : Nat, dir : Dirs, list : Seq(Listed),
   err : {"none", "EIO", "EBADF"}]

(* The variables have the types that the code gives them.                    *)
TypeOK ==
  /\ client \in [Clients -> ClientState]
  /\ queue \in Seq(Clients)
  /\ worker \in [Workers -> WorkerState]
  /\ dirHandles \in [DOMAIN dirHandles -> Dirs]
  /\ DOMAIN dirHandles \subseteq Nat
  /\ nextDirHandle \in Nat \ {0}
  /\ main \in {"signals", "umount", "wake", "return", "exited"}
  /\ woken \in BOOLEAN
  /\ opens \in 0 .. MaxOpens
  /\ failures \in 0 .. MaxFailures
  /\ lost \subseteq Nat

(* A directory stream survives everything the other clients and workers do:  *)
(* from the reply of opendir to releasedir its handle is in the table, for   *)
(* the directory that was opened.                                          *)
StreamHasHandle ==
  Running =>
    \A c \in Clients :
      client[c].handle # 0 /\ client[c].op # "releasedir" =>
        /\ client[c].handle \in DOMAIN dirHandles
        /\ dirHandles[client[c].handle] = client[c].dir
        /\ client[c].err # "EBADF"

(* Nothing leaks: each entry of the table has one owner, a client that has   *)
(* the handle, a worker about to send it, or an opendir whose reply was      *)
(* lost (which nobody will release).                                        *)
Holds(c, h) == client[c].handle = h
Sends(w, h) == worker[w].pc = "reply" /\ worker[w].handle = h

HandleHasOneOwner ==
  \A h \in DOMAIN dirHandles :
    /\ \/ h \in lost
       \/ \E c \in Clients : Holds(c, h)
       \/ \E w \in Workers : Sends(w, h)
    /\ \A c \in Clients :
         Holds(c, h) => /\ h \notin lost
                        /\ \A d \in Clients : Holds(d, h) => c = d
                        /\ \A w \in Workers : ~ Sends(w, h)
    /\ \A w \in Workers :
         Sends(w, h) => /\ h \notin lost
                        /\ \A v \in Workers : Sends(v, h) => v = w

(* However the buffers cut a listing and however other streams interleave,   *)
(* a client has seen exactly the entries up to its offset, in order, and at  *)
(* the end of the stream all of them.                                       *)
ListingExact ==
  \A c \in Clients :
    LET all == DirEntries[client[c].dir]
    IN client[c].handle # 0 =>
         /\ client[c].got = SubSeq(all, 1, client[c].off)
         /\ client[c].eof => client[c].got = all

(* As long as one worker lives, every call is answered.  A failed reply or    *)
(* get_request ends a worker for good, and main does not notice when the     *)
(* last one is gone: then, and only then, a call can wait for ever.          *)
AnsweredWhileAWorkerLives ==
  \A c \in Clients :
    Waiting(c) ~> (~ Waiting(c) \/ \A w \in Workers : Exited(w))

(* A termination signal sets every client free, those included that wait     *)
(* for workers that are gone.                                               *)
SignalFreesClients ==
  (main = "umount") ~> (\A c \in Clients : ~ Waiting(c))

=============================================================================
