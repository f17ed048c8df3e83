---------------------------- MODULE MessageQueue ----------------------------
(***************************************************************************)
(* The shared-memory broadcast queue over which the engine sends its RPCs  *)
(* to the workers (shm_broadcast.py): ShmRingBuffer, a ring of chunks with *)
(* one "written" byte and one "read" byte per reader for each chunk;       *)
(* SpinCondition, the wake-up of idle readers; and MessageQueue, whose     *)
(* enqueue and dequeue use both, with a publish-subscribe socket for       *)
(* objects too large for a chunk and another for readers on other nodes.   *)
(*                                                                         *)
(* The processes share memory without a lock, so every load and store of a *)
(* metadata byte, and the filling of a chunk, is a step of its own.  The   *)
(* code puts a memory fence around these accesses: the model's memory is   *)
(* sequentially consistent.  The writer's sum over the read bytes is one   *)
(* step: while it waits, those bytes only go from 0 to 1.                  *)
(*                                                                         *)
(* Objects are numbered by their enqueue calls.  Time is not modelled: a   *)
(* reader that has to wait either spins or goes idle.                      *)
(***************************************************************************)
EXTENDS Integers, Sequences

CONSTANTS
  Readers,         \* local readers: they share the ring with the writer
  RemoteReaders,   \* readers on other nodes
  TimedReaders,    \* local readers that pass dequeue a timeout
  MaxChunks,       \* max_chunks
  MaxOutstanding,  \* RPCs the engine sends ahead of the workers' replies
  Large,           \* objects that do not fit a chunk
  OutOfBand,       \* objects with buffers of 1MiB or more, pickled out of band
  MaxMsgs,         \* bound: objects enqueued
  CanCrash         \* whether the writer's process may die

ASSUME QueueAssumption ==
  /\ MaxChunks \in Nat \ {0}
  /\ MaxOutstanding \in Nat \ {0}
  /\ MaxMsgs \in Nat
  /\ Large \subseteq Nat \ {0}
  /\ OutOfBand \subseteq Nat \ {0}
  /\ Readers \cap RemoteReaders = {}
  /\ TimedReaders \subseteq Readers
  /\ CanCrash \in BOOLEAN

VARIABLES
  written, flag, data,     \* the ring: metadata[c][0], metadata[c][r], chunk c
  alive,                   \* the writer's process is running
  wpc, widx, todo, sent,   \* the writer: where it is in enqueue, current_idx,
                           \* the read flags it has to reset, objects published
  rpc, ridx, rflag, obj,   \* readers: where r is in dequeue, current_idx, the
                           \* read flag as check() loaded it, what it has read
  shutting_down,           \* r's queue has been shut down
  notified,                \* a notification waits in r's conflating socket
  local, remote,           \* objects in r's overflow or remote socket
  got, last                \* how many objects r has dequeued, and the last one

ringVars == <<written, flag, data>>
writerVars == <<alive, wpc, widx, todo, sent>>
readerVars == <<rpc, ridx, rflag, obj>>
vars == <<ringVars, writerVars, readerVars, shutting_down, notified, local,
          remote, got, last>>

Chunks == 0 .. MaxChunks - 1
AllReaders == Readers \cup RemoteReaders

Torn == -1       \* a chunk that is only partly filled
Overflow == -2   \* a chunk whose first byte is 1: the object is in the socket

Init ==
  /\ written = [c \in Chunks |-> FALSE]
  /\ flag = [c \in Chunks |-> [r \in Readers |-> FALSE]]
  /\ data = [c \in Chunks |-> Torn]
  /\ alive = TRUE
  /\ wpc = "idle"
  /\ widx = 0
  /\ todo = {}
  /\ sent = 0
  /\ rpc = [r \in Readers |-> "use"]
  /\ ridx = [r \in Readers |-> 0]
  /\ rflag = [r \in Readers |-> FALSE]
  /\ obj = [r \in Readers |-> Torn]
  /\ shutting_down = [r \in Readers |-> FALSE]
  /\ notified = [r \in Readers |-> FALSE]
  /\ local = [r \in Readers |-> <<>>]
  /\ remote = [r \in RemoteReaders |-> <<>>]
  /\ got = [r \in AllReaders |-> 0]
  /\ last = [r \in AllReaders |-> 0]

\* self.current_idx = (self.current_idx + 1) % self.buffer.max_chunks
NextIdx(c) == IF c + 1 = MaxChunks THEN 0 ELSE c + 1

-----------------------------------------------------------------------------
(***************************************************************************)
(* The writer.                                                             *)
(***************************************************************************)

\* The objects a worker is done with: all it has dequeued but the one it is
\* executing.
Done(r) == IF rpc[r] = "use" /\ got[r] > 0 THEN got[r] - 1 ELSE got[r]

\* Mutant: one RPC too many.
EnqueueCall_OneMore ==
  /\ alive
  /\ wpc = "idle"
  /\ sent < MaxMsgs
  /\ \A r \in Readers : sent - Done(r) =< MaxOutstanding
  /\ wpc' = "check"
  /\ UNCHANGED <<ringVars, alive, widx, todo, sent, readerVars, shutting_down,
                 notified, local, remote, got, last>>

\* The engine sends the next RPC.  It keeps a bounded number of batches, and
\* so of RPCs the workers have not finished.
EnqueueCall ==
  /\ alive
  /\ wpc = "idle"
  /\ sent < MaxMsgs
  /\ \A r \in Readers : sent - Done(r) < MaxOutstanding
  /\ wpc' = "check"
  /\ UNCHANGED <<ringVars, alive, widx, todo, sent, readerVars, shutting_down,
                 notified, local, remote, got, last>>

\* check() of acquire_write: the chunk is unwritten, or all have read it.
CanWrite(c) == written[c] => \A r \in Readers : flag[c][r]

\* acquire_write finds its chunk free and marks it as not written.
AcquireWrite ==
  /\ alive
  /\ wpc = "check"
  /\ CanWrite(widx)
  /\ written' = [written EXCEPT ![widx] = FALSE]
  /\ wpc' = "acquired"
  /\ UNCHANGED <<flag, data, alive, widx, todo, sent, readerVars,
                 shutting_down, notified, local, remote, got, last>>

\* enqueue starts to copy the object into the chunk.
BeginFill ==
  /\ alive
  /\ wpc = "acquired"
  /\ data' = [data EXCEPT ![widx] = Torn]
  /\ wpc' = "fill"
  /\ UNCHANGED <<written, flag, alive, widx, todo, sent, readerVars,
                 shutting_down, notified, local, remote, got, last>>

\* What enqueue leaves in the chunk for object n.
Payload(n) == IF n \in Large THEN Overflow ELSE n

EndFill ==
  /\ alive
  /\ wpc = "fill"
  /\ data' = [data EXCEPT ![widx] = Payload(sent + 1)]
  /\ wpc' = "reset"
  /\ todo' = Readers
  /\ UNCHANGED <<written, flag, alive, widx, sent, readerVars, shutting_down,
                 notified, local, remote, got, last>>

\* One turn of the loop that sets the read flags to 0.
ResetFlag(r) ==
  /\ alive
  /\ wpc = "reset"
  /\ r \in todo
  /\ flag' = [flag EXCEPT ![widx][r] = FALSE]
  /\ todo' = todo \ {r}
  /\ UNCHANGED <<written, data, alive, wpc, widx, sent, readerVars,
                 shutting_down, notified, local, remote, got, last>>

\* The chunk is marked as written and the writer moves to the next one.
Publish ==
  /\ alive
  /\ wpc = "reset"
  /\ todo = {}
  /\ written' = [written EXCEPT ![widx] = TRUE]
  /\ widx' = NextIdx(widx)
  /\ sent' = sent + 1
  /\ wpc' = IF sent + 1 \in Large THEN "send" ELSE "notify"
  /\ UNCHANGED <<flag, data, alive, todo, readerVars, shutting_down, notified,
                 local, remote, got, last>>

\* The object itself follows over the socket when the chunk only says that it
\* overflowed.
SendOverflow ==
  /\ alive
  /\ wpc = "send"
  /\ local' = [r \in Readers |-> Append(local[r], sent)]
  /\ wpc' = "notify"
  /\ UNCHANGED <<ringVars, alive, widx, todo, sent, readerVars, shutting_down,
                 notified, remote, got, last>>

\* Mutant: the idle readers are not notified.
Notify_Nobody ==
  /\ alive
  /\ wpc = "notify"
  /\ wpc' = "remote"
  /\ UNCHANGED <<ringVars, alive, widx, todo, sent, readerVars, shutting_down,
                 notified, local, remote, got, last>>

\* SpinCondition.notify.  The readers' sockets conflate: one is kept.
Notify ==
  /\ alive
  /\ wpc = "notify"
  /\ notified' = [r \in Readers |-> TRUE]
  /\ wpc' = "remote"
  /\ UNCHANGED <<ringVars, alive, widx, todo, sent, readerVars, shutting_down,
                 local, remote, got, last>>

SendRemote ==
  /\ alive
  /\ wpc = "remote"
  /\ remote' = [r \in RemoteReaders |-> Append(remote[r], sent)]
  /\ wpc' = "idle"
  /\ UNCHANGED <<ringVars, alive, widx, todo, sent, readerVars, shutting_down,
                 notified, local, got, last>>

\* The writer's process dies in the middle of an enqueue.  (One that dies between
\* two of them is one that enqueues no more, followed by Shutdown.)
WriterDies ==
  /\ CanCrash
  /\ alive
  /\ wpc # "idle"
  /\ alive' = FALSE
  /\ UNCHANGED <<ringVars, wpc, widx, todo, sent, readerVars, shutting_down,
                 notified, local, remote, got, last>>

WriterStep ==
  \/ AcquireWrite
  \/ BeginFill
  \/ EndFill
  \/ \E r \in Readers : ResetFlag(r)
  \/ Publish
  \/ SendOverflow
  \/ Notify
  \/ SendRemote

-----------------------------------------------------------------------------
(***************************************************************************)
(* The readers.                                                            *)
(***************************************************************************)

\* Reader r leaves the metadata and the sockets alone and goes on to pc.
Goto(r, pc) ==
  /\ rpc' = [rpc EXCEPT ![r] = pc]
  /\ UNCHANGED <<ringVars, writerVars, ridx, obj, shutting_down, local,
                 remote, got, last>>

\* The worker has executed its last RPC and calls dequeue, or it has waited.
\* check() of acquire_read loads the reader's own flag first ...
LoadReadFlag(r) ==
  /\ rpc[r] \in {"use", "flag"}
  /\ Goto(r, "written")
  /\ rflag' = [rflag EXCEPT ![r] = flag[ridx[r]][r]]
  /\ UNCHANGED notified

\* Mutant: a chunk that r has read already is taken for a new one.
LoadWrittenFlag_Only(r) ==
  /\ rpc[r] = "written"
  /\ Goto(r, IF written[ridx[r]] THEN "read" ELSE "wait")
  /\ UNCHANGED <<rflag, notified>>

\* ... and then the written flag.
LoadWrittenFlag(r) ==
  /\ rpc[r] = "written"
  /\ Goto(r, IF written[ridx[r]] /\ ~rflag[r] THEN "read" ELSE "wait")
  /\ UNCHANGED <<rflag, notified>>

\* Mutant: a reader that wakes up does not look whether it was cancelled.
Woken_CheckAgain(r) == "flag"

\* After a wait: give up if the queue was shut down, or else check again.
Woken(r) == IF shutting_down[r] THEN "stopped" ELSE "flag"

\* SpinCondition.wait of a reader that has read something lately.
WaitBusy(r) ==
  /\ rpc[r] = "wait"
  /\ Goto(r, Woken(r))
  /\ UNCHANGED <<rflag, notified>>

\* ... and of one that has not: it polls its notify and cancel sockets.
WaitIdle(r) ==
  /\ rpc[r] = "wait"
  /\ Goto(r, "poll")
  /\ UNCHANGED <<rflag, notified>>

\* The poll returns: by a cancel, which leaves the notification where it is,
\* by a notification, which it takes, or by the timeout.
PollReturns(r) ==
  /\ rpc[r] = "poll"
  /\ \/ shutting_down[r] /\ UNCHANGED notified
     \/ /\ ~shutting_down[r]
        /\ notified[r]
        /\ notified' = [notified EXCEPT ![r] = FALSE]
     \/ /\ ~shutting_down[r]
        /\ r \in TimedReaders
        /\ UNCHANGED notified
  /\ Goto(r, Woken(r))
  /\ UNCHANGED rflag

\* timeout_ms() is past the deadline: TimeoutError, with nothing consumed, and
\* the next dequeue starts over.
ReadTimeout(r) ==
  /\ rpc[r] = "wait"
  /\ r \in TimedReaders
  /\ Goto(r, "flag")
  /\ UNCHANGED <<rflag, notified>>

\* dequeue unpickles what is in the chunk.
ReadData(r) ==
  /\ rpc[r] = "read"
  /\ obj' = [obj EXCEPT ![r] = data[ridx[r]]]
  /\ rpc' = [rpc EXCEPT ![r] = "mark"]
  /\ UNCHANGED <<ringVars, writerVars, ridx, rflag, shutting_down, notified,
                 local, remote, got, last>>

\* dequeue returns object n.
Return(r, n) ==
  /\ got' = [got EXCEPT ![r] = @ + 1]
  /\ last' = [last EXCEPT ![r] = n]

\* acquire_read marks the chunk as read and moves on.  An object that did not
\* overflow is returned.
MarkRead(r) ==
  /\ rpc[r] = "mark"
  /\ flag' = [flag EXCEPT ![ridx[r]][r] = TRUE]
  /\ ridx' = [ridx EXCEPT ![r] = NextIdx(@)]
  /\ \/ /\ obj[r] = Overflow
        /\ rpc' = [rpc EXCEPT ![r] = "recv"]
        /\ UNCHANGED <<got, last>>
     \/ /\ obj[r] # Overflow
        /\ rpc' = [rpc EXCEPT ![r] = "use"]
        /\ Return(r, obj[r])
  /\ UNCHANGED <<written, data, writerVars, rflag, obj, shutting_down,
                 notified, local, remote>>

\* MessageQueue.recv on the local socket.  Only the socket wakes it up.
RecvOverflow(r) ==
  /\ rpc[r] = "recv"
  /\ local[r] # <<>>
  /\ Return(r, Head(local[r]))
  /\ local' = [local EXCEPT ![r] = Tail(@)]
  /\ rpc' = [rpc EXCEPT ![r] = "use"]
  /\ UNCHANGED <<ringVars, writerVars, ridx, rflag, obj, shutting_down,
                 notified, remote>>

\* TimeoutError out of recv: the chunk is consumed and its object is not.  The
\* caller (get_response) reports the RPC as failed.
RecvTimeout(r) ==
  /\ rpc[r] = "recv"
  /\ r \in TimedReaders
  /\ Goto(r, "failed")
  /\ UNCHANGED <<rflag, notified>>

RecvRemote(r) ==
  /\ remote[r] # <<>>
  /\ Return(r, Head(remote[r]))
  /\ remote' = [remote EXCEPT ![r] = Tail(@)]
  /\ UNCHANGED <<ringVars, writerVars, readerVars, shutting_down, notified,
                 local>>

\* MessageQueue.shutdown, called by the death-pipe monitor of a worker: the
\* parent closed the pipe or died.
Shutdown(r) ==
  /\ r \notin TimedReaders
  /\ ~shutting_down[r]
  /\ shutting_down' = [shutting_down EXCEPT ![r] = TRUE]
  /\ UNCHANGED <<ringVars, writerVars, readerVars, notified, local, remote,
                 got, last>>

ReaderStep(r) ==
  \/ LoadReadFlag(r)
  \/ LoadWrittenFlag(r)
  \/ WaitBusy(r)
  \/ WaitIdle(r)
  \/ PollReturns(r)
  \/ ReadTimeout(r)
  \/ ReadData(r)
  \/ MarkRead(r)
  \/ RecvOverflow(r)
  \/ RecvTimeout(r)

Next ==
  \/ EnqueueCall
  \/ WriterStep
  \/ WriterDies
  \/ \E r \in Readers : ReaderStep(r) \/ Shutdown(r)
  \/ \E r \in RemoteReaders : RecvRemote(r)

Spec == Init /\ [][Next]_vars

(***************************************************************************)
(* The writer finishes the enqueue it is in unless it dies or has to wait  *)
(* for a reader; a worker's busy loop always comes back to dequeue; the    *)
(* end of the parent reaches every worker through its death pipe.  Nothing *)
(* obliges the engine to enqueue.                                          *)
(***************************************************************************)
Fairness ==
  /\ WF_vars(WriterStep)
  /\ \A r \in Readers : WF_vars(ReaderStep(r))
  /\ \A r \in Readers \ TimedReaders : WF_vars(~alive /\ Shutdown(r))

FairSpec == Spec /\ Fairness
-----------------------------------------------------------------------------
(***************************************************************************)
(* Properties.                                                             *)
(***************************************************************************)

BQ == INSTANCE BroadcastQueue WITH Readers <- AllReaders

\* Every reader dequeues the objects of the enqueue calls in order, each once
\* and whole: no chunk is read while it is refilled, read twice, or skipped,
\* and the object of an overflowed chunk is the next one in the socket.
ImplementsBroadcast == BQ!Spec

\* The chunk r read last.
PrevIdx(c) == IF c = 0 THEN MaxChunks - 1 ELSE c - 1

\* While a worker executes an RPC whose object has out-of-band buffers, their
\* bytes do not change.  pickle.loads gets them as views of the chunk, which
\* dequeue gives back before the worker has used them, so this rests on how far
\* the engine runs ahead.
HeldObjectIntact ==
  \A r \in Readers :
    rpc[r] = "use" /\ last[r] \in OutOfBand \ Large
      => data[PrevIdx(ridx[r])] = last[r]

\* A worker that is behind the writer catches up with it (the writer enqueues
\* MaxMsgs objects at most), unless its queue is shut down: it never sleeps
\* through the notification of a chunk that is ready, and never waits for an
\* overflow object that is not sent.
EveryMessageDelivered ==
  \A r \in Readers \ TimedReaders :
    got[r] < sent ~> got[r] = sent \/ shutting_down[r]

\* A worker whose queue is shut down leaves its loop, once no chunk is ready.
\* The exception is a reader waiting in recv for an object the writer did not
\* live to send: nothing wakes it.
ShutdownStops ==
  \A r \in Readers \ TimedReaders :
    shutting_down[r] ~>
      \/ rpc[r] = "stopped"
      \/ rpc[r] = "recv" /\ local[r] = <<>> /\ ~alive
=============================================================================
