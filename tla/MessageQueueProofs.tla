------------------------- MODULE MessageQueueProofs -------------------------
(***************************************************************************)
(* The shared-memory queue is correct for any number of readers, chunks    *)
(* and messages.  The invariant says, for each reader, what every chunk of *)
(* the ring is to it: the chunks from its index up to the writer's hold,   *)
(* in order, the objects it has not read, and no other chunk looks ready.  *)
(* Distances around the ring are kept as differences of indices, so that   *)
(* no proof needs modular arithmetic.                                      *)
(***************************************************************************)
EXTENDS MessageQueue, TLAPS

\* The objects whose chunk r has marked as read.
Taken(r) == IF rpc[r] \in {"recv", "failed"} THEN got[r] + 1 ELSE got[r]

\* How many published objects r has still to take.
Lag(r) == sent - Taken(r)

\* How far chunk c is ahead of index i.
Dist(i, c) == IF i =< c THEN c - i ELSE c - i + MaxChunks

\* The index d chunks ahead of index i.
At(i, d) == IF i + d < MaxChunks THEN i + d ELSE i + d - MaxChunks

\* What a chunk at distance d is to reader r: one of the next objects, or none.
ChunkInv(r, c) ==
  LET d == Dist(ridx[r], c)
  IN IF d < Lag(r)
     THEN written[c] /\ ~flag[c][r] /\ data[c] = Payload(Taken(r) + d + 1)
     ELSE ~written[c] \/ flag[c][r]

TypeInv ==
  /\ written \in [Chunks -> BOOLEAN]
  /\ flag \in [Chunks -> [Readers -> BOOLEAN]]
  /\ data \in [Chunks -> Int]
  /\ alive \in BOOLEAN
  /\ wpc \in {"idle", "check", "acquired", "fill", "reset", "send", "notify",
              "remote"}
  /\ widx \in Chunks
  /\ todo \in SUBSET Readers
  /\ sent \in Nat
  /\ rpc \in [Readers -> {"use", "flag", "written", "wait", "poll", "read",
                          "mark", "recv", "failed", "stopped"}]
  /\ ridx \in [Readers -> Chunks]
  /\ rflag \in [Readers -> BOOLEAN]
  /\ obj \in [Readers -> Int]
  /\ shutting_down \in [Readers -> BOOLEAN]
  /\ notified \in [Readers -> BOOLEAN]
  /\ local \in [Readers -> Seq(Nat)]
  /\ remote \in [RemoteReaders -> Seq(Nat)]
  /\ got \in [AllReaders -> Nat]
  /\ last \in [AllReaders -> Int]

\* The chunk the writer fills is nobody's, and complete before it is published.
WriterInv ==
  /\ wpc \in {"acquired", "fill", "reset"} => ~written[widx]
  /\ wpc = "reset" => data[widx] = Payload(sent + 1)
  /\ wpc \in {"send", "notify", "remote"} => sent > 0
  /\ wpc = "send" => sent \in Large

RingInv(r) ==
  /\ Lag(r) \in 0 .. MaxChunks
  /\ widx = At(ridx[r], Lag(r))
  /\ wpc \in {"acquired", "fill", "reset"} => Lag(r) < MaxChunks
  /\ wpc = "reset" /\ r \notin todo => ~flag[widx][r]
  /\ \A c \in Chunks : ChunkInv(r, c)

\* What r knows of the chunk it is about to read.
ReaderInv(r) ==
  /\ rpc[r] = "written" /\ ~rflag[r] => ~flag[ridx[r]][r]
  /\ rpc[r] \in {"read", "mark"} => Lag(r) > 0
  /\ rpc[r] = "mark" => obj[r] = Payload(Taken(r) + 1)
  /\ rpc[r] \in {"recv", "failed"} => got[r] + 1 \in Large
  /\ last[r] = got[r]

\* The overflow socket of r holds the large objects that r has not returned and
\* the writer has sent, in order.
SentLocal == IF wpc = "send" THEN sent - 1 ELSE sent

LocalInv(r) ==
  LET q == local[r]
  IN /\ got[r] =< SentLocal
     /\ \A i \in 1 .. Len(q) : q[i] \in Large /\ got[r] < q[i] /\ q[i] =< SentLocal
     /\ \A i, j \in 1 .. Len(q) : i < j => q[i] < q[j]
     /\ \A n \in Large : got[r] < n /\ n =< SentLocal =>
          \E i \in 1 .. Len(q) : q[i] = n

\* The remote socket of r holds every object the writer has sent it.
SentRemote == IF wpc \in {"send", "notify", "remote"} THEN sent - 1 ELSE sent

RemoteInv(r) ==
  /\ got[r] + Len(remote[r]) = SentRemote
  /\ \A i \in 1 .. Len(remote[r]) : remote[r][i] = got[r] + i
  /\ last[r] = got[r]

IInv ==
  /\ TypeInv
  /\ WriterInv
  /\ \A r \in Readers : RingInv(r) /\ ReaderInv(r) /\ LocalInv(r)
  /\ \A r \in RemoteReaders : RemoteInv(r)

\* An engine that bounds the RPCs it has in flight by MaxOutstanding never fills
\* the chunk a worker still uses.
OutstandingInv ==
  \A r \in Readers :
    /\ wpc \in {"check", "acquired", "fill", "reset"}
         => sent - Done(r) < MaxOutstanding
    /\ rpc[r] = "use" /\ got[r] > 0 /\ got[r] \notin Large
         => data[PrevIdx(ridx[r])] = got[r]
-----------------------------------------------------------------------------
(* Types.                                                                  *)

\* Indices stay in the ring, and a chunk's content is a number.
LEMMA IndexFacts ==
  /\ \A c \in Chunks : c \in Int /\ NextIdx(c) \in Chunks /\ PrevIdx(c) \in Chunks
  /\ 0 \in Chunks
  /\ \A n \in Nat : Payload(n) \in Int
BY QueueAssumption DEF Chunks, NextIdx, PrevIdx, Payload, Overflow

\* Going around the ring by a distance, and one chunk further or less.
LEMMA RingFacts ==
  ASSUME NEW i \in Chunks
  PROVE  /\ Dist(i, i) = 0 /\ At(i, 0) = i /\ At(i, MaxChunks) = i
         /\ Dist(i, PrevIdx(i)) = MaxChunks - 1
         /\ PrevIdx(NextIdx(i)) = i
         /\ Dist(NextIdx(i), i) = MaxChunks - 1
         /\ \A c \in Chunks : Dist(i, c) \in Nat /\ Dist(i, c) < MaxChunks
         /\ \A c \in Chunks \ {i} : Dist(NextIdx(i), c) = Dist(i, c) - 1
BY QueueAssumption DEF Chunks, NextIdx, PrevIdx, Dist, At

\* ... and the index at a distance.
LEMMA AtFacts ==
  ASSUME NEW i \in Chunks, NEW d \in Nat, d < MaxChunks
  PROVE  /\ Dist(i, At(i, d)) = d
         /\ \A c \in Chunks : Dist(i, c) = d => c = At(i, d)
         /\ At(i, d + 1) = NextIdx(At(i, d))
         /\ At(NextIdx(i), d) = At(i, d + 1)
BY QueueAssumption DEF Chunks, NextIdx, Dist, At

\* Every variable keeps its type in a step of the writer.
LEMMA WriterType ==
  ASSUME TypeInv, EnqueueCall \/ WriterStep \/ WriterDies
  PROVE  TypeInv'
<1> USE QueueAssumption, IndexFacts DEF TypeInv, ringVars, readerVars
<1>1. CASE EnqueueCall
  BY <1>1 DEF EnqueueCall
<1>2. CASE AcquireWrite
  BY <1>2 DEF AcquireWrite
<1>3. CASE BeginFill
  BY <1>3 DEF BeginFill, Torn
<1>4. CASE EndFill
  <2>1. Payload(sent + 1) \in Int
    OBVIOUS
  <2> QED BY <1>4, <2>1 DEF EndFill
<1>5. ASSUME NEW r \in Readers, ResetFlag(r)
      PROVE  TypeInv'
  BY <1>5 DEF ResetFlag
<1>6. CASE Publish
  BY <1>6 DEF Publish
<1>7. CASE SendOverflow
  <2>1. local' \in [Readers -> Seq(Nat)]
    BY <1>7 DEF SendOverflow
  <2> QED BY <1>7, <2>1 DEF SendOverflow
<1>8. CASE Notify
  BY <1>8 DEF Notify
<1>9. CASE SendRemote
  <2>1. remote' \in [RemoteReaders -> Seq(Nat)]
    BY <1>9 DEF SendRemote
  <2> QED BY <1>9, <2>1 DEF SendRemote
<1>10. CASE WriterDies
  BY <1>10 DEF WriterDies
<1> QED
  BY <1>1, <1>2, <1>3, <1>4, <1>5, <1>6, <1>7, <1>8, <1>9, <1>10 DEF WriterStep

\* A step that only moves a reader within dequeue.
Moves(r) ==
  \/ LoadReadFlag(r)
  \/ LoadWrittenFlag(r)
  \/ WaitBusy(r)
  \/ WaitIdle(r)
  \/ PollReturns(r)
  \/ ReadTimeout(r)
  \/ RecvTimeout(r)

\* What such a step leaves alone, and where it leads.
LEMMA MovesFrame ==
  ASSUME TypeInv, NEW r \in Readers, Moves(r)
  PROVE  /\ UNCHANGED <<written, flag, data, alive, wpc, widx, todo, sent, ridx,
                        obj, shutting_down, local, remote, got, last>>
         /\ \A s \in Readers \ {r} : rpc'[s] = rpc[s] /\ rflag'[s] = rflag[s]
         /\ rpc' \in [Readers -> {"use", "flag", "written", "wait", "poll", "read",
                                  "mark", "recv", "failed", "stopped"}]
         /\ rflag' \in [Readers -> BOOLEAN]
         /\ notified' \in [Readers -> BOOLEAN]
         /\ rpc'[r] \notin {"use", "mark", "recv"}
         /\ rpc[r] = "recv" <=> rpc'[r] = "failed"
         /\ rpc[r] # "failed"
         /\ rpc'[r] = "written" => rflag'[r] = flag[ridx[r]][r]
         /\ rpc'[r] = "read" => /\ rpc[r] = "written"
                                /\ written[ridx[r]] /\ ~rflag[r]
<1> USE DEF TypeInv, Goto, ringVars, writerVars
<1>1. CASE LoadReadFlag(r)
  BY <1>1 DEF LoadReadFlag
<1>2. CASE LoadWrittenFlag(r)
  BY <1>2 DEF LoadWrittenFlag
<1>3. CASE WaitBusy(r)
  BY <1>3 DEF WaitBusy, Woken
<1>4. CASE WaitIdle(r)
  BY <1>4 DEF WaitIdle
<1>5. CASE PollReturns(r)
  BY <1>5 DEF PollReturns, Woken
<1>6. CASE ReadTimeout(r)
  BY <1>6 DEF ReadTimeout
<1>7. CASE RecvTimeout(r)
  BY <1>7 DEF RecvTimeout
<1> QED BY <1>1, <1>2, <1>3, <1>4, <1>5, <1>6, <1>7 DEF Moves

\* What dequeue returns is recorded for r alone.
LEMMA ReturnFrame ==
  ASSUME TypeInv, NEW r \in AllReaders, NEW n \in Int, Return(r, n)
  PROVE  /\ got' \in [AllReaders -> Nat] /\ last' \in [AllReaders -> Int]
         /\ got'[r] = got[r] + 1 /\ last'[r] = n
         /\ \A s \in AllReaders \ {r} : got'[s] = got[s] /\ last'[s] = last[s]
BY DEF TypeInv, Return

\* The head and the tail of a socket's queue.
LEMMA QueueFacts ==
  ASSUME NEW q \in Seq(Nat), q # <<>>
  PROVE  /\ Head(q) \in Nat /\ Tail(q) \in Seq(Nat)
         /\ Len(q) \in Nat /\ Len(q) > 0
         /\ Head(q) = q[1] /\ Len(Tail(q)) = Len(q) - 1
         /\ \A i \in 1 .. Len(q) - 1 : Tail(q)[i] = q[i + 1]
OBVIOUS

\* Every variable keeps its type in a step of a reader.
LEMMA ReaderType ==
  ASSUME TypeInv, NEW r \in Readers, ReaderStep(r) \/ Shutdown(r)
  PROVE  TypeInv'
<1> USE QueueAssumption, IndexFacts DEF TypeInv, ringVars, writerVars, readerVars
<1>1. CASE Moves(r)
  BY <1>1, MovesFrame
<1>2. CASE ReadData(r)
  BY <1>2 DEF ReadData
<1>3. CASE MarkRead(r)
  <2>1. got' \in [AllReaders -> Nat] /\ last' \in [AllReaders -> Int]
    BY <1>3, ReturnFrame DEF MarkRead, AllReaders
  <2> QED BY <1>3, <2>1 DEF MarkRead
<1>4. CASE RecvOverflow(r)
  <2>1. local[r] \in Seq(Nat) /\ local[r] # <<>>
    BY <1>4 DEF RecvOverflow
  <2>2. Head(local[r]) \in Int /\ Tail(local[r]) \in Seq(Nat)
    BY <2>1, QueueFacts
  <2>3. got' \in [AllReaders -> Nat] /\ last' \in [AllReaders -> Int]
    BY <1>4, <2>2, ReturnFrame DEF RecvOverflow, AllReaders
  <2> QED BY <1>4, <2>2, <2>3 DEF RecvOverflow
<1>5. CASE Shutdown(r)
  BY <1>5 DEF Shutdown
<1> QED BY <1>1, <1>2, <1>3, <1>4, <1>5 DEF ReaderStep, Moves

\* ... and of a reader on another node.
LEMMA RemoteType ==
  ASSUME TypeInv, NEW r \in RemoteReaders, RecvRemote(r)
  PROVE  TypeInv'
<1>1. remote[r] \in Seq(Nat) /\ remote[r] # <<>> /\ r \in AllReaders
  BY DEF TypeInv, RecvRemote, AllReaders
<1>2. Head(remote[r]) \in Int /\ Tail(remote[r]) \in Seq(Nat)
  BY <1>1, QueueFacts
<1>3. got' \in [AllReaders -> Nat] /\ last' \in [AllReaders -> Int]
  BY <1>1, <1>2, ReturnFrame DEF RecvRemote
<1>4. remote' \in [RemoteReaders -> Seq(Nat)]
  BY <1>2 DEF TypeInv, RecvRemote
<1> QED
  BY <1>3, <1>4 DEF TypeInv, ringVars, writerVars, readerVars, RecvRemote
-----------------------------------------------------------------------------
(* The ring.                                                               *)

\* What is said of the chunk being filled.
LEMMA WriterKept ==
  ASSUME TypeInv, WriterInv, Next
  PROVE  WriterInv'
<1> USE DEF TypeInv, WriterInv, ringVars, writerVars
<1>1. CASE EnqueueCall \/ WriterDies \/ SendOverflow \/ Notify \/ SendRemote
  BY <1>1 DEF EnqueueCall, WriterDies, SendOverflow, Notify, SendRemote
<1>2. CASE AcquireWrite \/ BeginFill \/ EndFill
  BY <1>2 DEF AcquireWrite, BeginFill, EndFill
<1>3. ASSUME NEW r \in Readers, ResetFlag(r)
      PROVE  WriterInv'
  BY <1>3 DEF ResetFlag
<1>4. CASE Publish
  BY <1>4 DEF Publish
<1>5. ASSUME NEW r \in Readers, ReaderStep(r) \/ Shutdown(r)
      PROVE  WriterInv'
  <2>1. CASE Moves(r)
    BY <2>1, MovesFrame
  <2>2. CASE ReadData(r) \/ MarkRead(r) \/ RecvOverflow(r) \/ Shutdown(r)
    BY <2>2 DEF ReadData, MarkRead, RecvOverflow, Shutdown
  <2> QED BY <1>5, <2>1, <2>2 DEF ReaderStep, Moves
<1>6. ASSUME NEW r \in RemoteReaders, RecvRemote(r)
      PROVE  WriterInv'
  BY <1>6 DEF RecvRemote
<1> QED BY <1>1, <1>2, <1>3, <1>4, <1>5, <1>6 DEF Next, WriterStep

\* One chunk closer, and one object further, is the same object.
LEMMA Closer ==
  ASSUME NEW t \in Nat, NEW d \in Nat, NEW n \in Nat
  PROVE  /\ d - 1 < n - 1 <=> d < n
         /\ (t + 1) + (d - 1) + 1 = t + d + 1
         /\ ~(d < 0)
         /\ n =< MaxChunks => ~(MaxChunks - 1 < n - 1)
         /\ n - (t + 1) = (n - t) - 1 /\ (n + 1) - t = (n - t) + 1
BY QueueAssumption

\* Numbers next to each other.
LEMMA NatOrder ==
  ASSUME NEW a \in Nat, NEW b \in Nat
  PROVE  /\ b # a + 1 => (a < b <=> a + 1 < b)
         /\ a + 1 < b => a < b /\ b # a + 1
         /\ a =< b - 1 => a =< b
         /\ b - a > 0 => a + 1 =< b /\ a < b
         /\ \A c \in Nat : a + b = c - 1 => a + (b + 1) = c
OBVIOUS

\* What a reader has taken and what it has not make up what is published.
LEMMA CountFacts ==
  ASSUME TypeInv, NEW r \in Readers
  PROVE  Taken(r) \in Nat /\ Lag(r) \in Int /\ Taken(r) + Lag(r) = sent
BY DEF TypeInv, Taken, Lag, AllReaders

\* A step that leaves the ring, the writer's position and r's alone.
RingSame(r) ==
  /\ UNCHANGED <<written, flag, data, widx, todo, sent>>
  /\ wpc' \in {"acquired", "fill", "reset"} => wpc' = wpc
  /\ ridx'[r] = ridx[r]
  /\ Taken(r)' = Taken(r)

\* Such a step leaves what every chunk is to r.
LEMMA RingFrame ==
  ASSUME NEW r \in Readers, RingInv(r), RingSame(r)
  PROVE  RingInv(r)'
<1>1. Lag(r)' = Lag(r)
  BY DEF RingSame, Lag
<1>2. ASSUME NEW c \in Chunks
      PROVE  ChunkInv(r, c)'
  BY <1>1 DEF RingInv, RingSame, ChunkInv, Dist
<1> QED BY <1>1, <1>2 DEF RingInv, RingSame

\* Where the writer is from a reader that has room before it: the chunk it fills
\* is the only one at that distance.
LEMMA WriterAhead ==
  ASSUME TypeInv, NEW r \in Readers, RingInv(r), Lag(r) < MaxChunks
  PROVE  /\ Dist(ridx[r], widx) = Lag(r)
         /\ \A c \in Chunks : Dist(ridx[r], c) = Lag(r) => c = widx
<1>1. ridx[r] \in Chunks /\ widx = At(ridx[r], Lag(r)) /\ Lag(r) \in Nat
  BY DEF TypeInv, RingInv
<1> QED BY <1>1, AtFacts

\* A reader whose objects fill the ring is waited for.
LEMMA FullWaits ==
  ASSUME TypeInv, NEW r \in Readers, RingInv(r), CanWrite(widx)
  PROVE  Lag(r) < MaxChunks
<1>1. SUFFICES ASSUME Lag(r) = MaxChunks
               PROVE  FALSE
  BY QueueAssumption DEF RingInv
<1>2. widx = ridx[r] /\ ChunkInv(r, widx)
  BY <1>1, RingFacts DEF RingInv, TypeInv
<1>3. Dist(ridx[r], widx) = 0
  BY <1>2, RingFacts DEF TypeInv
<1>4. written[widx] /\ ~flag[widx][r]
  <2>1. 0 < Lag(r)
    BY <1>1, QueueAssumption
  <2> QED BY ONLY <1>2, <1>3, <2>1 DEF ChunkInv
<1> QED BY <1>4 DEF CanWrite

\* The writer's steps on its chunk leave every other one alone.
LEMMA RingWriter ==
  ASSUME TypeInv, WriterInv, NEW r \in Readers, RingInv(r),
         EnqueueCall \/ WriterStep \/ WriterDies
  PROVE  RingInv(r)'
<1> USE DEF TypeInv, ringVars, readerVars
<1>1. CASE EnqueueCall \/ WriterDies \/ SendOverflow \/ Notify \/ SendRemote
  <2>1. RingSame(r)
    BY <1>1 DEF RingSame, Taken, EnqueueCall, WriterDies, SendOverflow, Notify,
                SendRemote
  <2> QED BY <2>1, RingFrame
<1>2. CASE AcquireWrite
  <2>1. Lag(r) < MaxChunks
    BY <1>2, FullWaits DEF AcquireWrite
  <2>2. Lag(r)' = Lag(r) /\ Taken(r)' = Taken(r)
    BY <1>2 DEF AcquireWrite, Lag, Taken
  <2>3. ASSUME NEW c \in Chunks
        PROVE  ChunkInv(r, c)'
    <3>1. c = widx => Dist(ridx[r], c) = Lag(r)
      BY <2>1, WriterAhead
    <3>2. /\ c # widx => written'[c] = written[c]
          /\ c = widx => ~written'[c]
          /\ UNCHANGED <<flag, data, ridx>>
      BY <1>2 DEF AcquireWrite
    <3>3. ChunkInv(r, c) /\ Lag(r) \in Nat
      BY DEF RingInv
    <3>4. Dist(ridx[r], c)' = Dist(ridx[r], c)
      BY <3>2 DEF Dist
    <3>5. c = widx => ~(Dist(ridx[r], c) < Lag(r))
      BY ONLY <3>1, <3>3
    <3> QED BY ONLY <2>2, <3>2, <3>3, <3>4, <3>5 DEF ChunkInv
  <2> QED BY <1>2, <2>1, <2>2, <2>3 DEF AcquireWrite, RingInv
<1>3. CASE BeginFill \/ EndFill
  <2>1. Lag(r) < MaxChunks
    BY <1>3 DEF BeginFill, EndFill, RingInv
  <2>2. Lag(r)' = Lag(r) /\ Taken(r)' = Taken(r)
    BY <1>3 DEF BeginFill, EndFill, Lag, Taken
  <2>3. ASSUME NEW c \in Chunks
        PROVE  ChunkInv(r, c)'
    <3>1. c = widx => Dist(ridx[r], c) = Lag(r)
      BY <2>1, WriterAhead
    <3>2. c # widx => data'[c] = data[c]
      BY <1>3 DEF BeginFill, EndFill
    <3>3. UNCHANGED <<written, flag, ridx>>
      BY <1>3 DEF BeginFill, EndFill
    <3>4. ChunkInv(r, c) /\ Lag(r) \in Nat
      BY DEF RingInv
    <3>5. Dist(ridx[r], c)' = Dist(ridx[r], c)
      BY <3>3 DEF Dist
    <3>6. c = widx => ~(Dist(ridx[r], c) < Lag(r))
      BY ONLY <3>1, <3>4
    <3> QED BY ONLY <2>2, <3>2, <3>3, <3>4, <3>5, <3>6 DEF ChunkInv
  <2> QED BY <1>3, <2>1, <2>2, <2>3 DEF BeginFill, EndFill, RingInv
<1>4. ASSUME NEW s \in Readers, ResetFlag(s)
      PROVE  RingInv(r)'
  <2>1. Lag(r) < MaxChunks /\ ~written[widx]
    BY <1>4 DEF ResetFlag, RingInv, WriterInv
  <2>2. Lag(r)' = Lag(r) /\ Taken(r)' = Taken(r)
    BY <1>4 DEF ResetFlag, Lag, Taken
  <2>3. ASSUME NEW c \in Chunks
        PROVE  ChunkInv(r, c)'
    <3>1. c # widx => flag'[c] = flag[c]
      BY <1>4 DEF ResetFlag
    <3> QED BY <1>4, <2>1, <2>2, <3>1 DEF ResetFlag, RingInv, ChunkInv, Dist
  <2> QED BY <1>4, <2>1, <2>2, <2>3 DEF ResetFlag, RingInv
<1>5. CASE Publish
  <2>1. Lag(r) < MaxChunks
    BY <1>5 DEF Publish, RingInv
  <2>2. Lag(r) \in Nat /\ Taken(r) \in Nat
    BY CountFacts DEF RingInv
  <2>3. Lag(r)' = Lag(r) + 1 /\ Taken(r)' = Taken(r)
    <3>1. Taken(r)' = Taken(r)
      BY <1>5 DEF Publish, Taken
    <3> QED BY <1>5, <2>2, <3>1 DEF Publish, Lag
  <2>4. ASSUME NEW c \in Chunks
        PROVE  ChunkInv(r, c)'
    <3>1. CASE c = widx
      <4>1. Dist(ridx[r], c) = Lag(r)
        BY <2>1, <3>1, WriterAhead
      <4>2. written'[c] /\ ~flag[c][r] /\ data[c] = Payload(Taken(r) + Lag(r) + 1)
        BY <1>5, <2>2, <2>3, <3>1 DEF Publish, RingInv, WriterInv, Lag
      <4> QED BY <1>5, <2>2, <2>3, <4>1, <4>2 DEF Publish, ChunkInv, Dist
    <3>2. CASE c # widx
      <4>1. Dist(ridx[r], c) # Lag(r) /\ Dist(ridx[r], c) \in Int
        <5>1. ridx[r] \in Chunks
          OBVIOUS
        <5> HIDE DEF TypeInv
        <5> QED BY <2>1, <3>2, <5>1, WriterAhead, RingFacts
      <4>2. Dist(ridx[r], c) < Lag(r) <=> Dist(ridx[r], c) < Lag(r) + 1
        BY <2>2, <2>3, <4>1
      <4> QED BY <1>5, <2>2, <2>3, <3>2, <4>2 DEF Publish, ChunkInv, Dist, RingInv
    <3> QED BY <3>1, <3>2
  <2>5. widx' = At(ridx[r], Lag(r) + 1)
    BY <1>5, <2>1, <2>2, <2>3, AtFacts DEF Publish, RingInv
  <2>6. (widx = At(ridx[r], Lag(r)))'
    BY <1>5, <2>2, <2>3, <2>5 DEF Publish, At
  <2> QED BY <1>5, <2>1, <2>2, <2>3, <2>4, <2>6, QueueAssumption DEF Publish, RingInv
<1> QED BY <1>1, <1>2, <1>3, <1>4, <1>5 DEF WriterStep

\* What the steps of another reader leave alone for r.
LEMMA OtherFrame ==
  ASSUME TypeInv, NEW s \in Readers, ReaderStep(s) \/ Shutdown(s),
         NEW r \in Readers, r # s
  PROVE  /\ UNCHANGED <<written, data, alive, wpc, widx, todo, sent, remote>>
         /\ rpc'[r] = rpc[r] /\ ridx'[r] = ridx[r] /\ rflag'[r] = rflag[r]
         /\ obj'[r] = obj[r] /\ local'[r] = local[r]
         /\ got'[r] = got[r] /\ last'[r] = last[r]
         /\ \A c \in Chunks : flag'[c][r] = flag[c][r]
<1> USE DEF TypeInv, ringVars, writerVars, readerVars, AllReaders
<1>1. CASE Moves(s)
  BY <1>1, MovesFrame
<1>2. CASE ReadData(s) \/ Shutdown(s)
  BY <1>2 DEF ReadData, Shutdown
<1>3. CASE MarkRead(s)
  BY <1>3 DEF MarkRead, Return
<1>4. CASE RecvOverflow(s)
  BY <1>4 DEF RecvOverflow, Return
<1> QED BY <1>1, <1>2, <1>3, <1>4 DEF ReaderStep, Moves

\* Marking a chunk moves all the others one closer.
LEMMA RingMark ==
  ASSUME TypeInv, NEW r \in Readers, RingInv(r), ReaderInv(r), MarkRead(r)
  PROVE  RingInv(r)' /\ Taken(r)' = Taken(r) + 1
<1>1. Taken(r) \in Nat /\ Lag(r) \in Nat /\ Lag(r) > 0 /\ Lag(r) =< MaxChunks
  BY CountFacts DEF MarkRead, RingInv, ReaderInv
<1>2. Taken(r)' = Taken(r) + 1
  BY DEF TypeInv, MarkRead, Return, Taken, AllReaders
<1>3. Lag(r)' = Lag(r) - 1
  <2>1. sent' = sent /\ sent \in Nat
    BY DEF TypeInv, MarkRead, writerVars
  <2> QED BY ONLY <1>1, <1>2, <2>1, Closer DEF Lag
<1>4. /\ UNCHANGED <<written, data, wpc, widx, todo, sent>>
      /\ ridx[r] \in Chunks /\ ridx'[r] = NextIdx(ridx[r])
      /\ flag'[ridx[r]][r]
      /\ \A c \in Chunks \ {ridx[r]} : flag'[c][r] = flag[c][r]
  BY DEF TypeInv, MarkRead, writerVars
<1>5. ASSUME NEW c \in Chunks
      PROVE  ChunkInv(r, c)'
  <2>1. ChunkInv(r, c)
    BY DEF RingInv
  <2>2. CASE c = ridx[r]
    <3>1. ~(Dist(ridx'[r], c) < Lag(r)')
      <4>1. Dist(ridx'[r], c) = MaxChunks - 1
        BY <1>4, <2>2, RingFacts
      <4> QED BY ONLY <1>1, <1>3, <4>1, Closer
    <3>2. flag'[c][r]
      BY <1>4, <2>2
    <3> QED BY <3>1, <3>2 DEF ChunkInv, Dist
  <2>3. CASE c # ridx[r]
    <3>1. Dist(ridx'[r], c) = Dist(ridx[r], c) - 1 /\ Dist(ridx[r], c) \in Nat
      BY <1>4, <2>3, RingFacts
    <3>2. /\ Dist(ridx'[r], c) < Lag(r)' <=> Dist(ridx[r], c) < Lag(r)
          /\ Taken(r)' + Dist(ridx'[r], c) + 1 = Taken(r) + Dist(ridx[r], c) + 1
      <4>1. /\ Dist(ridx[r], c) - 1 < Lag(r) - 1 <=> Dist(ridx[r], c) < Lag(r)
            /\ (Taken(r) + 1) + (Dist(ridx[r], c) - 1) + 1
                 = Taken(r) + Dist(ridx[r], c) + 1
        BY ONLY <1>1, <3>1, Closer
      <4> QED BY ONLY <1>2, <1>3, <3>1, <4>1
    <3>3. flag'[c][r] = flag[c][r]
      BY <1>4, <2>3
    <3>4. Dist(ridx[r], c)' = Dist(ridx'[r], c)
      BY DEF Dist
    <3> QED BY <1>4, <2>1, <3>2, <3>3, <3>4 DEF ChunkInv
  <2> QED BY <2>2, <2>3
<1>6. widx = At(NextIdx(ridx[r]), Lag(r) - 1)
  <2>1. Lag(r) - 1 \in Nat /\ Lag(r) - 1 < MaxChunks /\ (Lag(r) - 1) + 1 = Lag(r)
    BY <1>1, QueueAssumption
  <2>2. At(NextIdx(ridx[r]), Lag(r) - 1) = At(ridx[r], (Lag(r) - 1) + 1)
    BY <1>4, <2>1, AtFacts
  <2> QED BY <2>1, <2>2 DEF RingInv
<1>7. (widx = At(ridx[r], Lag(r)))'
  BY <1>3, <1>4, <1>6 DEF At
<1>8. wpc = "reset" /\ r \notin todo => ~flag'[widx][r]
  <2>1. wpc = "reset" => Lag(r) < MaxChunks
    BY DEF RingInv
  <2>2. wpc = "reset" => widx # ridx[r]
    <3>1. wpc = "reset" => Dist(ridx[r], widx) = Lag(r)
      BY <2>1, WriterAhead
    <3>2. Dist(ridx[r], ridx[r]) = 0
      BY <1>4, RingFacts
    <3> QED BY ONLY <1>1, <3>1, <3>2
  <2> QED BY <1>4, <2>2 DEF RingInv, TypeInv
<1>9. Lag(r)' \in 0 .. MaxChunks /\ Lag(r)' < MaxChunks
  BY <1>1, <1>3, QueueAssumption
<1> QED BY <1>2, <1>4, <1>5, <1>7, <1>8, <1>9 DEF RingInv

\* The readers' steps keep what the chunks are to a reader.
LEMMA RingReader ==
  ASSUME TypeInv, NEW s \in Readers, ReaderStep(s) \/ Shutdown(s),
         NEW r \in Readers, RingInv(r), ReaderInv(r)
  PROVE  RingInv(r)'
<1>1. CASE r # s
  <2>1. Taken(r)' = Taken(r) /\ Lag(r)' = Lag(r)
    BY <1>1, OtherFrame DEF Taken, Lag
  <2>2. ASSUME NEW c \in Chunks
        PROVE  ChunkInv(r, c)'
    <3>1. /\ written' = written /\ data' = data /\ ridx'[r] = ridx[r]
          /\ flag'[c][r] = flag[c][r]
      BY <1>1, OtherFrame
    <3>2. Dist(ridx[r], c)' = Dist(ridx[r], c)
      BY <3>1 DEF Dist
    <3> QED BY <2>1, <3>1, <3>2 DEF RingInv, ChunkInv
  <2>3. flag'[widx][r] = flag[widx][r]
    BY <1>1, OtherFrame DEF TypeInv
  <2>4. (widx = At(ridx[r], Lag(r)))'
    BY <1>1, <2>1, OtherFrame DEF RingInv, At
  <2> QED BY <1>1, <2>1, <2>2, <2>3, <2>4, OtherFrame DEF RingInv
<1>2. CASE r = s
  <2>1. CASE MarkRead(r)
    BY <2>1, RingMark
  <2>2. CASE Moves(r)
    <3>1. RingSame(r)
      BY <2>2, MovesFrame DEF RingSame, Taken
    <3> QED BY <3>1, RingFrame
  <2>3. CASE ReadData(r) \/ Shutdown(r)
    <3>1. RingSame(r)
      BY <2>3 DEF TypeInv, RingSame, Taken, ReadData, Shutdown, ringVars, writerVars,
                  readerVars
    <3> QED BY <3>1, RingFrame
  <2>4. CASE RecvOverflow(r)
    <3>1. Taken(r)' = Taken(r)
      BY <2>4 DEF TypeInv, RecvOverflow, Return, Taken, AllReaders
    <3>2. RingSame(r)
      BY <2>4, <3>1 DEF RingSame, RecvOverflow, ringVars, writerVars
    <3> QED BY <3>2, RingFrame
  <2> QED BY <1>2, <2>1, <2>2, <2>3, <2>4 DEF ReaderStep, Moves
<1> QED BY <1>1, <1>2
-----------------------------------------------------------------------------
(* What a reader knows, and what it returns.                               *)

\* The chunk at a reader's index holds its next object, if it looks ready.
LEMMA ReadyChunk ==
  ASSUME TypeInv, NEW r \in Readers, RingInv(r)
  PROVE  /\ written[ridx[r]] /\ ~flag[ridx[r]][r] => Lag(r) > 0
         /\ Lag(r) > 0 => data[ridx[r]] = Payload(Taken(r) + 1)
<1>1. Dist(ridx[r], ridx[r]) = 0 /\ ChunkInv(r, ridx[r]) /\ Lag(r) \in Nat
  BY RingFacts DEF TypeInv, RingInv
<1>2. Lag(r) > 0 <=> 0 < Lag(r)
  BY ONLY <1>1
<1>3. Taken(r) + 0 + 1 = Taken(r) + 1
  BY CountFacts
<1> QED BY ONLY <1>1, <1>2, <1>3 DEF ChunkInv

\* The next object of the overflow socket is the one whose chunk was read.
LEMMA HeadIsNext ==
  ASSUME TypeInv, NEW r \in Readers, ReaderInv(r), LocalInv(r),
         rpc[r] = "recv", local[r] # <<>>
  PROVE  Head(local[r]) = got[r] + 1 /\ got[r] + 1 =< SentLocal
<1> DEFINE q == local[r]
<1>1. q \in Seq(Nat) /\ got[r] \in Nat /\ SentLocal \in Int
  BY DEF TypeInv, AllReaders, SentLocal
<1>2. Head(q) = q[1] /\ 1 \in 1 .. Len(q) /\ Len(q) \in Nat
  <2>1. q # <<>>
    OBVIOUS
  <2> HIDE DEF q
  <2>2. Head(q) = q[1] /\ Len(q) \in Nat /\ Len(q) > 0
    BY ONLY <1>1, <2>1, QueueFacts
  <2> QED BY ONLY <2>2
<1>3. q[1] \in Nat /\ got[r] < q[1] /\ q[1] =< SentLocal
  BY <1>1, <1>2 DEF LocalInv
<1>4. got[r] + 1 \in Large /\ got[r] < got[r] + 1 /\ got[r] + 1 =< SentLocal
  BY <1>1, <1>3 DEF ReaderInv
<1>5. PICK i \in 1 .. Len(q) : q[i] = got[r] + 1
  BY <1>4 DEF LocalInv
<1>6. i # 1 => q[1] < q[i]
  BY <1>2 DEF LocalInv
<1>7. i = 1
  <2>1. got[r] \in Int /\ q[1] \in Int /\ ~(q[1] < got[r] + 1)
    BY <1>1, <1>3
  <2> QED BY ONLY <1>5, <1>6, <2>1
<1> QED BY ONLY <1>2, <1>4, <1>5, <1>7

\* An object that did not overflow is the next one.
LEMMA InlineIsNext ==
  ASSUME TypeInv, NEW r \in Readers, ReaderInv(r), rpc[r] = "mark"
  PROVE  /\ obj[r] = Overflow => got[r] + 1 \in Large
         /\ obj[r] # Overflow => obj[r] = got[r] + 1 /\ got[r] + 1 \notin Large
<1>1. got[r] \in Nat /\ obj[r] = Payload(got[r] + 1)
  BY DEF TypeInv, AllReaders, ReaderInv, Taken
<1> QED BY <1>1 DEF Payload, Overflow

\* The writer's steps keep what a reader knows: they only publish, and reset
\* flags.
LEMMA ReaderWriter ==
  ASSUME TypeInv, NEW r \in Readers, RingInv(r), ReaderInv(r),
         EnqueueCall \/ WriterStep \/ WriterDies
  PROVE  ReaderInv(r)'
<1>1. /\ UNCHANGED <<rpc, ridx, rflag, obj, got, last>>
      /\ sent' = sent \/ sent' = sent + 1
      /\ ~flag[ridx[r]][r] => ~flag'[ridx[r]][r]
  <2> USE DEF TypeInv, ringVars, readerVars
  <2>1. ASSUME NEW s \in Readers, ResetFlag(s)
        PROVE  UNCHANGED <<rpc, ridx, rflag, obj, got, last, sent>> /\
               (~flag[ridx[r]][r] => ~flag'[ridx[r]][r])
    BY <2>1 DEF ResetFlag
  <2> QED BY <2>1 DEF WriterStep, EnqueueCall, WriterDies, AcquireWrite, BeginFill,
                      EndFill, Publish, SendOverflow, Notify, SendRemote
<1>2. Taken(r)' = Taken(r)
  BY <1>1 DEF Taken
<1>3. Lag(r) > 0 => Lag(r)' > 0
  <2>1. Taken(r) \in Nat /\ sent \in Nat
    BY CountFacts DEF TypeInv
  <2>2. sent' = sent => Lag(r)' = Lag(r)
    BY ONLY <1>2 DEF Lag
  <2>3. sent' = sent + 1 => Lag(r)' = Lag(r) + 1 /\ Lag(r) \in Int
    BY ONLY <1>2, <2>1, Closer DEF Lag
  <2> QED BY ONLY <1>1, <2>2, <2>3
<1> QED BY <1>1, <1>2, <1>3 DEF ReaderInv

\* A reader's own steps keep what it knows, and return the next object.
LEMMA ReaderOwn ==
  ASSUME TypeInv, NEW r \in Readers, RingInv(r), ReaderInv(r), LocalInv(r),
         ReaderStep(r) \/ Shutdown(r)
  PROVE  ReaderInv(r)'
<1>1. CASE Moves(r)
  <2>1. Taken(r)' = Taken(r) /\ Lag(r)' = Lag(r)
    BY <1>1, MovesFrame DEF Taken, Lag
  <2>2. rpc'[r] = "read" => Lag(r) > 0
    BY <1>1, MovesFrame, ReadyChunk DEF ReaderInv
  <2> QED BY <1>1, <2>1, <2>2, MovesFrame DEF ReaderInv
<1>2. CASE ReadData(r)
  <2>1. Lag(r) > 0 /\ data[ridx[r]] = Payload(Taken(r) + 1)
    BY <1>2, ReadyChunk DEF ReadData, ReaderInv
  <2>2. /\ rpc'[r] = "mark" /\ obj'[r] = data[ridx[r]] /\ rpc[r] = "read"
        /\ UNCHANGED <<got, last, sent>>
    BY <1>2 DEF TypeInv, ReadData, writerVars
  <2>3. Taken(r)' = Taken(r) /\ Lag(r)' = Lag(r)
    BY <2>2 DEF Taken, Lag
  <2> QED BY <2>1, <2>2, <2>3 DEF ReaderInv
<1>3. CASE MarkRead(r)
  <2>1. CASE obj[r] = Overflow
    <3>1. rpc'[r] = "recv" /\ UNCHANGED <<got, last>>
      BY <1>3, <2>1 DEF TypeInv, MarkRead
    <3>2. got[r] + 1 \in Large
      BY <1>3, <2>1, InlineIsNext DEF MarkRead
    <3> QED BY <3>1, <3>2 DEF ReaderInv
  <2>2. CASE obj[r] # Overflow
    <3>1. rpc'[r] = "use" /\ got'[r] = got[r] + 1 /\ last'[r] = obj[r]
      BY <1>3, <2>2 DEF TypeInv, MarkRead, Return, AllReaders
    <3>2. obj[r] = got[r] + 1
      BY <1>3, <2>2, InlineIsNext DEF MarkRead
    <3> QED BY <3>1, <3>2 DEF ReaderInv
  <2> QED BY <2>1, <2>2
<1>4. CASE RecvOverflow(r)
  <2>1. Head(local[r]) = got[r] + 1
    BY <1>4, HeadIsNext DEF RecvOverflow
  <2>2. rpc'[r] = "use" /\ got'[r] = got[r] + 1 /\ last'[r] = Head(local[r])
    BY <1>4 DEF TypeInv, RecvOverflow, Return, AllReaders
  <2> QED BY <2>1, <2>2 DEF ReaderInv
<1>5. CASE Shutdown(r)
  BY <1>5 DEF Shutdown, ReaderInv, Taken, Lag, ringVars, writerVars, readerVars
<1> QED BY <1>1, <1>2, <1>3, <1>4, <1>5 DEF ReaderStep, Moves

\* So do the steps of all readers.
LEMMA ReaderReader ==
  ASSUME TypeInv, NEW s \in Readers, ReaderStep(s) \/ Shutdown(s),
         NEW r \in Readers, RingInv(r), ReaderInv(r), LocalInv(r)
  PROVE  ReaderInv(r)'
<1>1. CASE r # s
  <2>1. Taken(r)' = Taken(r) /\ Lag(r)' = Lag(r)
    BY <1>1, OtherFrame DEF Taken, Lag
  <2>2. flag'[ridx[r]][r] = flag[ridx[r]][r]
    BY <1>1, OtherFrame DEF TypeInv
  <2> QED BY <1>1, <2>1, <2>2, OtherFrame DEF ReaderInv
<1> QED BY <1>1, ReaderOwn
-----------------------------------------------------------------------------
(* The sockets.                                                            *)

\* Appending to a queue.
LEMMA AppendFacts ==
  ASSUME NEW q \in Seq(Nat), NEW n \in Nat
  PROVE  /\ Append(q, n) \in Seq(Nat)
         /\ Len(q) \in Nat /\ Len(Append(q, n)) = Len(q) + 1
         /\ Append(q, n)[Len(q) + 1] = n
         /\ \A i \in 1 .. Len(q) : Append(q, n)[i] = q[i]
OBVIOUS

\* What the socket of r holds depends on these alone.
LEMMA LocalFrame ==
  ASSUME NEW r \in Readers, LocalInv(r), local'[r] = local[r], got'[r] = got[r],
         SentLocal' = SentLocal
  PROVE  LocalInv(r)'
BY DEF LocalInv

\* The writer sends an object to the socket exactly when its chunk says that it
\* overflowed.
LEMMA LocalWriter ==
  ASSUME TypeInv, WriterInv, NEW r \in Readers, LocalInv(r),
         EnqueueCall \/ WriterStep \/ WriterDies
  PROVE  LocalInv(r)'
<1>1. CASE SendOverflow
  <2> DEFINE q == local[r]
             p == local'[r]
  <2>1. /\ q \in Seq(Nat) /\ p = Append(q, sent) /\ sent \in Nat /\ got' = got
        /\ SentLocal = sent - 1 /\ SentLocal' = sent /\ sent \in Large
        /\ got[r] \in Nat
    BY <1>1 DEF TypeInv, WriterInv, SendOverflow, SentLocal, AllReaders
  <2>2. /\ Len(q) \in Nat /\ Len(p) = Len(q) + 1 /\ p[Len(q) + 1] = sent
        /\ \A i \in 1 .. Len(q) : p[i] = q[i] /\ q[i] \in Nat
    <3>1. \A i \in 1 .. Len(q) : q[i] \in Nat
      BY ONLY <2>1
    <3>2. /\ Len(q) \in Nat /\ Len(Append(q, sent)) = Len(q) + 1
          /\ Append(q, sent)[Len(q) + 1] = sent
          /\ \A i \in 1 .. Len(q) : Append(q, sent)[i] = q[i]
      BY ONLY <2>1, AppendFacts
    <3> QED BY ONLY <2>1, <3>1, <3>2
  <2>3. /\ got[r] =< sent - 1
        /\ \A i \in 1 .. Len(q) : q[i] \in Large /\ got[r] < q[i] /\ q[i] =< sent - 1
    BY <2>1 DEF LocalInv
  <2>4. \A i \in 1 .. Len(p) : p[i] \in Large /\ got[r] < p[i] /\ p[i] =< sent
    <3>1. TAKE i \in 1 .. Len(p)
    <3>2. i \in 1 .. Len(q) \/ i = Len(q) + 1
      BY <2>2
    <3> HIDE DEF q, p
    <3> QED BY <2>1, <2>2, <2>3, <3>2
  <2>5. \A i, j \in 1 .. Len(p) : i < j => p[i] < p[j]
    <3>1. TAKE i, j \in 1 .. Len(p)
    <3>2. HAVE i < j
    <3>3. i \in 1 .. Len(q) /\ (j \in 1 .. Len(q) \/ j = Len(q) + 1)
      BY <2>2, <3>2
    <3>4. j \in 1 .. Len(q) => q[i] < q[j]
      BY <3>2, <3>3 DEF LocalInv
    <3> HIDE DEF q, p
    <3> QED BY <2>1, <2>2, <2>3, <3>3, <3>4
  <2>6. \A n \in Large : got[r] < n /\ n =< sent => \E i \in 1 .. Len(p) : p[i] = n
    <3>1. TAKE n \in Large
    <3>2. HAVE got[r] < n /\ n =< sent
    <3>3. n \in Nat
      BY QueueAssumption
    <3>4. CASE n = sent
      BY <2>2, <3>4
    <3>5. CASE n # sent
      <4>1. n =< SentLocal
        BY <2>1, <3>2, <3>3, <3>5
      <4>2. PICK i \in 1 .. Len(q) : q[i] = n
        BY <3>2, <4>1 DEF LocalInv
      <4> QED BY <2>2, <4>2
    <3> QED BY <3>4, <3>5
  <2>7. got[r] =< sent
    <3>1. got[r] \in Nat /\ sent \in Nat /\ got[r] =< sent - 1
      BY ONLY <2>1, <2>3
    <3> QED BY ONLY <3>1, NatOrder
  <2> QED BY <2>1, <2>4, <2>5, <2>6, <2>7 DEF LocalInv
<1>2. CASE Publish
  <2>1. /\ local'[r] = local[r] /\ got' = got /\ got[r] \in Nat /\ sent \in Nat
        /\ SentLocal = sent
        /\ SentLocal' = IF sent + 1 \in Large THEN sent ELSE sent + 1
    BY <1>2 DEF TypeInv, Publish, SentLocal, AllReaders
  <2>2. SentLocal' \in Nat /\ SentLocal =< SentLocal' /\ SentLocal \in Nat
    BY <2>1
  <2>3. \A n \in Large : n =< SentLocal' => n \in Nat /\ n =< SentLocal
    <3>1. TAKE n \in Large
    <3>2. n \in Nat
      BY QueueAssumption
    <3>3. sent + 1 \notin Large => n # sent + 1
      OBVIOUS
    <3> QED BY <2>1, <3>2, <3>3
  <2>4. \A i \in 1 .. Len(local[r]) : local[r][i] \in Nat
    BY DEF TypeInv
  <2>5. got[r] =< SentLocal /\ SentLocal =< SentLocal' => got[r] =< SentLocal'
    BY ONLY <2>1, <2>2
  <2>6. \A i \in 1 .. Len(local[r]) :
          local[r][i] =< SentLocal => local[r][i] =< SentLocal'
    BY ONLY <2>2, <2>4
  <2> QED BY <2>1, <2>2, <2>3, <2>5, <2>6 DEF LocalInv
<1>3. CASE Notify
  BY <1>3, LocalFrame DEF Notify, SentLocal
<1>4. CASE SendRemote
  BY <1>4, LocalFrame DEF SendRemote, SentLocal
<1>5. CASE EnqueueCall \/ WriterDies
  BY <1>5, LocalFrame DEF EnqueueCall, WriterDies, SentLocal
<1>6. CASE AcquireWrite \/ BeginFill \/ EndFill
  BY <1>6, LocalFrame DEF AcquireWrite, BeginFill, EndFill, SentLocal
<1>7. ASSUME NEW s \in Readers, ResetFlag(s)
      PROVE  LocalInv(r)'
  BY <1>7, LocalFrame DEF ResetFlag, SentLocal
<1> QED BY <1>1, <1>2, <1>3, <1>4, <1>5, <1>6, <1>7 DEF WriterStep

\* A reader takes from its socket what its chunks announced.
LEMMA LocalReader ==
  ASSUME TypeInv, WriterInv, NEW s \in Readers, ReaderStep(s) \/ Shutdown(s),
         NEW r \in Readers, RingInv(r), ReaderInv(r), LocalInv(r)
  PROVE  LocalInv(r)'
<1> DEFINE q == local[r]
<1>1. /\ SentLocal \in Int /\ q \in Seq(Nat) /\ got[r] \in Nat
      /\ \A i \in 1 .. Len(q) : q[i] \in Nat
  <2>1. SentLocal \in Int
    BY DEF TypeInv, SentLocal
  <2>2. q \in Seq(Nat) /\ got[r] \in Nat
    BY DEF TypeInv, AllReaders
  <2> HIDE DEF q
  <2>3. \A i \in 1 .. Len(q) : q[i] \in Nat
    BY ONLY <2>2
  <2> QED BY ONLY <2>1, <2>2, <2>3
<1>2. CASE r # s
  BY <1>2, OtherFrame, LocalFrame DEF SentLocal
<1>3. CASE Moves(r)
  BY <1>3, MovesFrame, LocalFrame DEF SentLocal
<1>4. CASE ReadData(r) \/ Shutdown(r)
  BY <1>4, LocalFrame DEF ReadData, Shutdown, writerVars, SentLocal
<1>5. CASE MarkRead(r)
  <2>1. local' = local /\ SentLocal' = SentLocal
    BY <1>5 DEF MarkRead, writerVars, SentLocal
  <2>2. CASE obj[r] = Overflow
    BY <1>5, <2>1, <2>2, LocalFrame DEF MarkRead
  <2>3. CASE obj[r] # Overflow
    <3>1. got'[r] = got[r] + 1 /\ got[r] + 1 \notin Large
      BY <1>5, <2>3, InlineIsNext DEF TypeInv, MarkRead, Return, AllReaders
    <3>2. got[r] + 1 =< sent
      <4>1. Taken(r) = got[r] /\ Lag(r) > 0 /\ sent \in Nat
        BY <1>5 DEF MarkRead, ReaderInv, Taken, TypeInv
      <4>2. sent - got[r] > 0 /\ got[r] \in Nat
        BY ONLY <1>1, <4>1 DEF Lag
      <4> QED BY ONLY <4>1, <4>2, NatOrder
    <3>3. got[r] + 1 =< SentLocal
      BY <1>1, <3>1, <3>2 DEF SentLocal, WriterInv, TypeInv
    <3>4. \A n \in Large : n \in Nat /\ (got[r] < n <=> got[r] + 1 < n)
      <4>1. TAKE n \in Large
      <4>2. n \in Nat /\ n # got[r] + 1
        BY <3>1, QueueAssumption
      <4>3. got[r] \in Nat
        BY ONLY <1>1
      <4> QED BY ONLY <4>2, <4>3, NatOrder
    <3> QED BY <1>1, <2>1, <3>1, <3>3, <3>4 DEF LocalInv
  <2> QED BY <2>2, <2>3
<1>6. CASE RecvOverflow(r)
  <2>1. Head(q) = got[r] + 1 /\ got[r] + 1 =< SentLocal
    BY <1>6, HeadIsNext DEF RecvOverflow
  <2>2. /\ got'[r] = got[r] + 1 /\ local'[r] = Tail(q) /\ SentLocal' = SentLocal
        /\ q # <<>>
    BY <1>6 DEF TypeInv, RecvOverflow, Return, writerVars, AllReaders, SentLocal
  <2>3. /\ Len(q) \in Nat /\ Len(q) > 0 /\ q[1] = got[r] + 1
        /\ Len(Tail(q)) = Len(q) - 1
        /\ \A i \in 1 .. Len(q) - 1 : Tail(q)[i] = q[i + 1]
    BY <1>1, <2>1, <2>2, QueueFacts
  <2> DEFINE p == local'[r]
  <2>4. /\ Len(p) = Len(q) - 1
        /\ \A i \in 1 .. Len(p) : i + 1 \in 1 .. Len(q) /\ p[i] = q[i + 1]
    BY <2>2, <2>3
  <2>5. \A i \in 1 .. Len(p) : p[i] \in Large /\ got[r] + 1 < p[i] /\ p[i] =< SentLocal
    <3>1. TAKE i \in 1 .. Len(p)
    <3>2. 1 \in 1 .. Len(q) /\ i + 1 \in 1 .. Len(q) /\ 1 < i + 1
      BY ONLY <2>3, <2>4
    <3>3. q[i + 1] \in Large /\ q[i + 1] =< SentLocal /\ q[1] < q[i + 1]
      BY <3>2 DEF LocalInv
    <3> QED BY <2>3, <2>4, <3>3
  <2>6. \A i, j \in 1 .. Len(p) : i < j => p[i] < p[j]
    <3>1. TAKE i, j \in 1 .. Len(p)
    <3>2. HAVE i < j
    <3>3. i + 1 \in 1 .. Len(q) /\ j + 1 \in 1 .. Len(q) /\ i + 1 < j + 1
      BY ONLY <2>4, <3>2
    <3>4. q[i + 1] < q[j + 1]
      BY <3>3 DEF LocalInv
    <3> QED BY <2>4, <3>4
  <2>7. \A n \in Large : got[r] + 1 < n /\ n =< SentLocal =>
          \E i \in 1 .. Len(p) : p[i] = n
    <3>1. TAKE n \in Large
    <3>2. HAVE got[r] + 1 < n /\ n =< SentLocal
    <3>3. n \in Nat /\ got[r] < n /\ n # got[r] + 1
      <4>1. n \in Nat
        BY QueueAssumption
      <4>2. got[r] \in Nat /\ got[r] + 1 < n
        BY ONLY <1>1, <3>2
      <4> QED BY ONLY <4>1, <4>2, NatOrder
    <3>4. PICK i \in 1 .. Len(q) : q[i] = n
      BY <3>2, <3>3 DEF LocalInv
    <3>5. i # 1
      BY <2>3, <3>3, <3>4
    <3>6. i - 1 \in 1 .. Len(p) /\ (i - 1) + 1 = i
      BY ONLY <2>3, <2>4, <3>5
    <3> QED BY <2>4, <3>4, <3>6
  <2> HIDE DEF p, q
  <2> QED BY <2>1, <2>2, <2>5, <2>6, <2>7 DEF LocalInv, p
<1> QED BY <1>2, <1>3, <1>4, <1>5, <1>6 DEF ReaderStep, Moves

\* One more here is one less there.
LEMMA ShiftOne ==
  ASSUME NEW a \in Int, NEW b \in Int
  PROVE  /\ (a + 1) + (b - 1) = a + b
         /\ (a + 1) + b = a + (b + 1)
OBVIOUS

\* A remote reader's queue depends on these alone.
LEMMA RemoteFrame ==
  ASSUME NEW r \in RemoteReaders, RemoteInv(r), remote'[r] = remote[r],
         got'[r] = got[r], last'[r] = last[r], SentRemote' = SentRemote
  PROVE  RemoteInv(r)'
BY DEF RemoteInv

\* Every object goes to the readers on other nodes, in order.
LEMMA RemoteWriter ==
  ASSUME TypeInv, NEW r \in RemoteReaders, RemoteInv(r),
         EnqueueCall \/ WriterStep \/ WriterDies
  PROVE  RemoteInv(r)'
<1>1. CASE SendRemote
  <2>1. /\ remote[r] \in Seq(Nat) /\ remote'[r] = Append(remote[r], sent)
        /\ sent \in Nat /\ got' = got /\ last' = last /\ got[r] \in Nat
        /\ SentRemote = sent - 1 /\ SentRemote' = sent
    BY <1>1 DEF TypeInv, SendRemote, SentRemote, AllReaders
  <2>2. /\ Len(remote[r]) \in Nat /\ Len(remote'[r]) = Len(remote[r]) + 1
        /\ remote'[r][Len(remote[r]) + 1] = sent
        /\ \A i \in 1 .. Len(remote[r]) : remote'[r][i] = remote[r][i]
    BY <2>1, AppendFacts
  <2>3. got[r] + Len(remote[r]) = sent - 1
    BY <2>1 DEF RemoteInv
  <2>4. \A i \in 1 .. Len(remote'[r]) : remote'[r][i] = got[r] + i
    <3>1. TAKE i \in 1 .. Len(remote'[r])
    <3>2. i \in 1 .. Len(remote[r]) \/ i = Len(remote[r]) + 1
      BY <2>2
    <3>3. \A j \in 1 .. Len(remote[r]) : remote[r][j] = got[r] + j
      BY DEF RemoteInv
    <3>4. got[r] + (Len(remote[r]) + 1) = sent
      <4>1. /\ got[r] \in Nat /\ Len(remote[r]) \in Nat /\ sent \in Nat
            /\ got[r] + Len(remote[r]) = sent - 1
        BY ONLY <2>1, <2>2, <2>3
      <4> QED BY ONLY <4>1, NatOrder
    <3> QED BY ONLY <2>2, <3>2, <3>3, <3>4
  <2>5. got[r] + Len(remote'[r]) = sent /\ last[r] = got[r]
    <3>1. got[r] + (Len(remote[r]) + 1) = sent
      <4>1. /\ got[r] \in Nat /\ Len(remote[r]) \in Nat /\ sent \in Nat
            /\ got[r] + Len(remote[r]) = sent - 1
        BY ONLY <2>1, <2>2, <2>3
      <4> QED BY ONLY <4>1, NatOrder
    <3> QED BY <2>2, <3>1 DEF RemoteInv
  <2> QED BY <2>1, <2>4, <2>5 DEF RemoteInv
<1>2. CASE Publish
  <2>1. SentRemote' = SentRemote
    BY <1>2 DEF TypeInv, Publish, SentRemote
  <2> QED BY <1>2, <2>1, RemoteFrame DEF Publish
<1>3. CASE SendOverflow
  BY <1>3, RemoteFrame DEF SendOverflow, SentRemote
<1>4. CASE Notify
  BY <1>4, RemoteFrame DEF Notify, SentRemote
<1>5. CASE EnqueueCall \/ WriterDies
  BY <1>5, RemoteFrame DEF EnqueueCall, WriterDies, SentRemote
<1>6. CASE AcquireWrite \/ BeginFill \/ EndFill
  BY <1>6, RemoteFrame DEF AcquireWrite, BeginFill, EndFill, SentRemote
<1>7. ASSUME NEW s \in Readers, ResetFlag(s)
      PROVE  RemoteInv(r)'
  BY <1>7, RemoteFrame DEF ResetFlag, SentRemote
<1> QED BY <1>1, <1>2, <1>3, <1>4, <1>5, <1>6, <1>7 DEF WriterStep

\* The local readers leave the remote ones alone.
LEMMA RemoteReader ==
  ASSUME TypeInv, NEW s \in Readers, ReaderStep(s) \/ Shutdown(s),
         NEW r \in RemoteReaders, RemoteInv(r)
  PROVE  RemoteInv(r)'
<1> USE QueueAssumption DEF writerVars, SentRemote
<1>1. CASE Moves(s)
  BY <1>1, MovesFrame, RemoteFrame
<1>2. CASE ReadData(s) \/ Shutdown(s)
  BY <1>2, RemoteFrame DEF ReadData, Shutdown
<1>3. r \in AllReaders \ {s} /\ s \in AllReaders
  BY DEF AllReaders
<1>4. CASE MarkRead(s)
  <2>1. got'[r] = got[r] /\ last'[r] = last[r]
    <3>1. obj[s] \in Int
      BY DEF TypeInv
    <3> QED BY <1>4, <1>3, <3>1, ReturnFrame DEF MarkRead
  <2> QED BY <1>4, <2>1, RemoteFrame DEF MarkRead
<1>5. CASE RecvOverflow(s)
  <2>1. got'[r] = got[r] /\ last'[r] = last[r]
    <3>1. local[s] \in Seq(Nat) /\ local[s] # <<>>
      BY <1>5 DEF TypeInv, RecvOverflow
    <3>2. Head(local[s]) \in Int
      BY ONLY <3>1, QueueFacts
    <3> QED BY <1>5, <1>3, <3>2, ReturnFrame DEF RecvOverflow
  <2> QED BY <1>5, <2>1, RemoteFrame DEF RecvOverflow
<1> QED BY <1>1, <1>2, <1>4, <1>5 DEF ReaderStep, Moves

\* The next object a remote reader receives is the one it needs.
LEMMA RemoteHead ==
  ASSUME TypeInv, NEW r \in RemoteReaders, RemoteInv(r), remote[r] # <<>>
  PROVE  /\ Head(remote[r]) = got[r] + 1 /\ got[r] \in Nat
         /\ got[r] + 1 =< SentRemote /\ SentRemote \in Int /\ SentRemote =< sent
<1>1. remote[r] \in Seq(Nat) /\ got[r] \in Nat
  BY DEF TypeInv, AllReaders
<1>2. Head(remote[r]) = remote[r][1] /\ Len(remote[r]) \in Nat /\ Len(remote[r]) > 0
  BY <1>1, QueueFacts
<1>3. SentRemote \in Int /\ SentRemote =< sent
  BY DEF TypeInv, SentRemote
<1> QED BY <1>1, <1>2, <1>3 DEF RemoteInv

\* A remote reader takes the head of its queue.
LEMMA RemoteRecv ==
  ASSUME TypeInv, NEW s \in RemoteReaders, RecvRemote(s),
         NEW r \in RemoteReaders, RemoteInv(r), RemoteInv(s)
  PROVE  RemoteInv(r)'
<1>1. SentRemote' = SentRemote
  BY DEF RecvRemote, writerVars, SentRemote
<1>2. CASE r # s
  <2>1. got'[r] = got[r] /\ last'[r] = last[r] /\ remote'[r] = remote[r]
    BY <1>2 DEF TypeInv, RecvRemote, Return, AllReaders
  <2> QED BY <1>1, <2>1, RemoteFrame
<1>3. CASE r = s
  <2>1. Head(remote[r]) = got[r] + 1 /\ got[r] \in Nat
    BY <1>3, RemoteHead DEF RecvRemote
  <2>2. /\ got'[r] = got[r] + 1 /\ last'[r] = Head(remote[r])
        /\ remote'[r] = Tail(remote[r])
    BY <1>3 DEF TypeInv, RecvRemote, Return, AllReaders
  <2>3. remote[r] \in Seq(Nat) /\ remote[r] # <<>>
    BY <1>3 DEF TypeInv, RecvRemote
  <2>4. /\ Len(remote[r]) \in Nat /\ Len(remote[r]) > 0
        /\ Len(remote'[r]) = Len(remote[r]) - 1
        /\ \A i \in 1 .. Len(remote[r]) - 1 : remote'[r][i] = remote[r][i + 1]
    BY <2>2, <2>3, QueueFacts
  <2>5. /\ got[r] + Len(remote[r]) = SentRemote
        /\ \A i \in 1 .. Len(remote[r]) : remote[r][i] = got[r] + i
    BY DEF RemoteInv
  <2>6. \A i \in 1 .. Len(remote'[r]) : remote'[r][i] = (got[r] + 1) + i
    <3>1. TAKE i \in 1 .. Len(remote'[r])
    <3>2. i + 1 \in 1 .. Len(remote[r]) /\ i \in 1 .. Len(remote[r]) - 1
      BY <2>4
    <3>3. remote[r][i + 1] = got[r] + (i + 1)
      BY <2>5, <3>2
    <3>4. (got[r] + 1) + i = got[r] + (i + 1)
      <4>1. got[r] \in Int /\ i \in Int
        BY <2>1, <3>2
      <4> QED BY ONLY <4>1, ShiftOne
    <3> QED BY <2>4, <3>2, <3>3, <3>4
  <2>7. (got[r] + 1) + Len(remote'[r]) = SentRemote
    <3>1. (got[r] + 1) + (Len(remote[r]) - 1) = got[r] + Len(remote[r])
      <4>1. got[r] \in Int /\ Len(remote[r]) \in Int
        BY <2>1, <2>4
      <4> QED BY ONLY <4>1, ShiftOne
    <3> QED BY <2>4, <2>5, <3>1
  <2> QED BY <1>1, <2>1, <2>2, <2>6, <2>7 DEF RemoteInv
<1> QED BY <1>2, <1>3
-----------------------------------------------------------------------------
(* The invariant, and the refinement.                                      *)

\* The queue starts with an empty ring and empty sockets.
LEMMA InitIInv == Init => IInv
<1> SUFFICES ASSUME Init
             PROVE  IInv
  OBVIOUS
<1> USE QueueAssumption DEF Init
<1>1. TypeInv
  <2>1. data \in [Chunks -> Int] /\ obj \in [Readers -> Int] /\ widx \in Chunks
    BY IndexFacts DEF Torn
  <2>2. ridx \in [Readers -> Chunks] /\ local \in [Readers -> Seq(Nat)]
    BY IndexFacts
  <2> QED BY <2>1, <2>2 DEF TypeInv
<1>2. WriterInv
  BY DEF WriterInv
<1>3. ASSUME NEW r \in Readers
      PROVE  RingInv(r) /\ ReaderInv(r) /\ LocalInv(r)
  <2>1. Taken(r) = 0 /\ Lag(r) = 0 /\ got[r] = 0 /\ last[r] = 0
    BY DEF Taken, Lag, AllReaders
  <2>2. widx = At(ridx[r], Lag(r))
    BY <2>1, IndexFacts, RingFacts
  <2>3. \A c \in Chunks : ChunkInv(r, c)
    <3>1. TAKE c \in Chunks
    <3>2. ridx[r] \in Chunks /\ ~written[c]
      BY IndexFacts
    <3>3. ~(Dist(ridx[r], c) < Lag(r))
      <4>1. Dist(ridx[r], c) \in Nat
        BY <3>2, RingFacts
      <4>2. ~(Dist(ridx[r], c) < 0)
        BY ONLY <4>1
      <4> QED BY ONLY <2>1, <4>2
    <3> QED BY ONLY <3>2, <3>3 DEF ChunkInv
  <2>4. LocalInv(r)
    <3>1. Len(local[r]) = 0 /\ SentLocal = 0
      BY DEF SentLocal
    <3>2. \A n \in Large : ~(n =< 0)
      OBVIOUS
    <3>3. 1 .. 0 = {} /\ 0 =< 0
      OBVIOUS
    <3> QED BY ONLY <2>1, <3>1, <3>2, <3>3 DEF LocalInv
  <2>5. RingInv(r)
    <3>1. 0 \in 0 .. MaxChunks
      OBVIOUS
    <3>2. wpc = "idle"
      OBVIOUS
    <3> QED BY ONLY <2>1, <2>2, <2>3, <3>1, <3>2 DEF RingInv
  <2>6. ReaderInv(r)
    BY <2>1 DEF ReaderInv
  <2> QED BY <2>4, <2>5, <2>6
<1>4. ASSUME NEW r \in RemoteReaders
      PROVE  RemoteInv(r)
  BY DEF RemoteInv, SentRemote, AllReaders
<1> QED BY <1>1, <1>2, <1>3, <1>4 DEF IInv

\* Every step keeps the invariant.
LEMMA NextIInv == IInv /\ [Next]_vars => IInv'
<1> SUFFICES ASSUME IInv, [Next]_vars
             PROVE  IInv'
  OBVIOUS
<1>1. CASE EnqueueCall \/ WriterStep \/ WriterDies
  BY <1>1, WriterType, WriterKept, RingWriter, ReaderWriter, LocalWriter, RemoteWriter
     DEF IInv, Next
<1>2. ASSUME NEW s \in Readers, ReaderStep(s) \/ Shutdown(s)
      PROVE  IInv'
  BY <1>2, ReaderType, WriterKept, RingReader, ReaderReader, LocalReader, RemoteReader
     DEF IInv, Next
<1>3. ASSUME NEW s \in RemoteReaders, RecvRemote(s)
      PROVE  IInv'
  <2>1. TypeInv' /\ WriterInv' /\ \A r \in RemoteReaders : RemoteInv(r)'
    BY <1>3, RemoteType, WriterKept, RemoteRecv DEF IInv, Next
  <2>2. ASSUME NEW r \in Readers
        PROVE  RingInv(r)' /\ ReaderInv(r)' /\ LocalInv(r)'
    <3>1. /\ got'[r] = got[r] /\ last'[r] = last[r]
          /\ UNCHANGED <<ringVars, writerVars, readerVars, local>>
      BY <1>3, QueueAssumption DEF IInv, TypeInv, RecvRemote, Return, AllReaders
    <3>2. RingSame(r) /\ Lag(r)' = Lag(r)
      BY <3>1 DEF RingSame, Taken, Lag, ringVars, writerVars, readerVars
    <3>3. LocalInv(r)'
      BY <3>1, LocalFrame DEF IInv, SentLocal, writerVars
    <3>4. ReaderInv(r)'
      BY <3>1, <3>2 DEF IInv, ReaderInv, RingSame, readerVars, ringVars
    <3> QED BY <3>2, <3>3, <3>4, RingFrame DEF IInv
  <2> QED BY <2>1, <2>2 DEF IInv
<1>4. CASE UNCHANGED vars
  <2>1. UNCHANGED <<written, flag, data, alive, wpc, widx, todo, sent, rpc, ridx, rflag,
                    obj, shutting_down, notified, local, remote, got, last>>
    BY <1>4 DEF vars, ringVars, writerVars, readerVars
  <2>2. TypeInv' /\ WriterInv'
    BY <2>1 DEF IInv, TypeInv, WriterInv
  <2>3. ASSUME NEW r \in Readers
        PROVE  RingInv(r)' /\ ReaderInv(r)' /\ LocalInv(r)'
    <3>1. RingSame(r) /\ SentLocal' = SentLocal
      BY <2>1 DEF RingSame, Taken, SentLocal
    <3>2. ReaderInv(r)'
      BY <2>1 DEF IInv, ReaderInv, Taken, Lag
    <3> QED BY <2>1, <3>1, <3>2, RingFrame, LocalFrame DEF IInv
  <2>4. ASSUME NEW r \in RemoteReaders
        PROVE  RemoteInv(r)'
    BY <2>1, RemoteFrame DEF IInv, SentRemote
  <2> QED BY <2>2, <2>3, <2>4 DEF IInv
<1> QED BY <1>1, <1>2, <1>3, <1>4 DEF Next

\* The invariant holds throughout.
LEMMA Invariance == Spec => []IInv
BY InitIInv, NextIInv, PTL DEF Spec

\* A step of the queue is an enqueue, a dequeue of the next object by one reader,
\* or neither.
LEMMA StepRefines ==
  ASSUME IInv, [Next]_vars
  PROVE  [BQ!Next]_BQ!vars
<1>1. CASE EnqueueCall \/ WriterStep \/ WriterDies
  BY <1>1 DEF WriterStep, EnqueueCall, WriterDies, AcquireWrite, BeginFill, EndFill,
     ResetFlag, Publish, SendOverflow, Notify, SendRemote, BQ!Next, BQ!Enqueue, BQ!vars
<1>2. ASSUME NEW r \in Readers, ReaderStep(r) \/ Shutdown(r)
      PROVE  [BQ!Next]_BQ!vars
  <2>1. TypeInv /\ WriterInv /\ RingInv(r) /\ ReaderInv(r) /\ LocalInv(r)
    BY DEF IInv
  <2>2. got[r] \in Nat /\ sent \in Nat /\ r \in AllReaders
    BY <2>1 DEF TypeInv, AllReaders
  <2>3. CASE Moves(r)
    BY <2>1, <2>3, MovesFrame DEF BQ!vars
  <2>4. CASE ReadData(r) \/ Shutdown(r)
    BY <2>4 DEF ReadData, Shutdown, writerVars, BQ!vars
  <2>5. CASE MarkRead(r)
    <3>1. CASE obj[r] = Overflow
      BY <2>5, <3>1 DEF MarkRead, writerVars, BQ!vars
    <3>2. CASE obj[r] # Overflow
      <4>1. obj[r] = got[r] + 1
        BY <2>1, <2>5, <3>2, InlineIsNext DEF MarkRead
      <4>2. got[r] < sent
        <5>1. Taken(r) = got[r] /\ Lag(r) > 0
          BY <2>1, <2>5 DEF MarkRead, ReaderInv, Taken
        <5> QED BY <2>2, <5>1 DEF Lag
      <4>3. sent' = sent /\ Return(r, got[r] + 1)
        BY <2>5, <3>2, <4>1 DEF MarkRead, writerVars
      <4> QED BY <2>2, <4>2, <4>3 DEF Return, BQ!Next, BQ!Dequeue
    <3> QED BY <3>1, <3>2
  <2>6. CASE RecvOverflow(r)
    <3>1. Head(local[r]) = got[r] + 1 /\ got[r] + 1 =< SentLocal
      BY <2>1, <2>6, HeadIsNext DEF RecvOverflow
    <3>2. got[r] < sent
      BY <2>2, <3>1 DEF SentLocal
    <3>3. sent' = sent /\ Return(r, got[r] + 1)
      BY <2>6, <3>1 DEF RecvOverflow, writerVars
    <3> QED BY <2>2, <3>2, <3>3 DEF Return, BQ!Next, BQ!Dequeue
  <2> QED BY <1>2, <2>3, <2>4, <2>5, <2>6 DEF ReaderStep, Moves
<1>3. ASSUME NEW r \in RemoteReaders, RecvRemote(r)
      PROVE  [BQ!Next]_BQ!vars
  <2>1. TypeInv /\ RemoteInv(r) /\ r \in AllReaders
    BY DEF IInv, AllReaders
  <2>2. /\ Head(remote[r]) = got[r] + 1 /\ got[r] \in Nat
        /\ got[r] + 1 =< SentRemote /\ SentRemote \in Int /\ SentRemote =< sent
    BY <1>3, <2>1, RemoteHead DEF RecvRemote
  <2>3. got[r] < sent
    BY <2>1, <2>2 DEF TypeInv
  <2>4. sent' = sent /\ Return(r, got[r] + 1)
    BY <1>3, <2>2 DEF RecvRemote, writerVars
  <2> QED BY <2>1, <2>3, <2>4 DEF Return, BQ!Next, BQ!Dequeue
<1>4. CASE UNCHANGED vars
  BY <1>4 DEF vars, writerVars, BQ!vars
<1> QED BY <1>1, <1>2, <1>3, <1>4 DEF Next

\* The ring, the wake-ups and the sockets together deliver every object once, in
\* order and whole, to every reader, for any number of readers, chunks and
\* objects, however the processes interleave and wherever the writer dies.
THEOREM QueueImplements == Spec => ImplementsBroadcast
<1>1. Init => BQ!Init
  BY DEF Init, BQ!Init
<1>2. IInv /\ [Next]_vars => [BQ!Next]_BQ!vars
  BY StepRefines
<1> QED BY <1>1, <1>2, Invariance, PTL DEF Spec, ImplementsBroadcast, BQ!Spec
-----------------------------------------------------------------------------
(* Objects that alias the ring.                                            *)

\* With one object in use and fewer than MaxOutstanding ahead of it, the writer
\* is not at the chunk before the reader's.
LEMMA RoomLeft ==
  ASSUME NEW n \in Nat, NEW g \in Nat
  PROVE  MaxOutstanding =< MaxChunks /\ n - (g - 1) < MaxOutstanding
           => n - g # MaxChunks - 1
BY QueueAssumption

\* The engine runs ahead of the workers by a bounded number of RPCs, and the
\* chunk of the RPC a worker executes keeps its object.
LEMMA NextOutstanding ==
  ASSUME MaxOutstanding =< MaxChunks, IInv, OutstandingInv, [Next]_vars
  PROVE  OutstandingInv'
<1> SUFFICES ASSUME NEW r \in Readers
             PROVE  /\ wpc' \in {"check", "acquired", "fill", "reset"}
                         => sent' - Done(r)' < MaxOutstanding
                    /\ rpc'[r] = "use" /\ got'[r] > 0 /\ got'[r] \notin Large
                         => data'[PrevIdx(ridx'[r])] = got'[r]
  BY DEF OutstandingInv, PrevIdx
<1>1. TypeInv /\ WriterInv /\ RingInv(r) /\ ReaderInv(r) /\ LocalInv(r)
  BY DEF IInv
<1>2. /\ got[r] \in Nat /\ sent \in Nat /\ ridx[r] \in Chunks /\ widx \in Chunks
      /\ Done(r) \in Int
  <2>1. got[r] \in Nat /\ sent \in Nat /\ ridx[r] \in Chunks /\ widx \in Chunks
    BY <1>1 DEF TypeInv, AllReaders
  <2> QED BY ONLY <2>1 DEF Done
<1>3. /\ wpc \in {"check", "acquired", "fill", "reset"} => sent - Done(r) < MaxOutstanding
      /\ rpc[r] = "use" /\ got[r] > 0 /\ got[r] \notin Large
           => data[PrevIdx(ridx[r])] = got[r]
  BY DEF OutstandingInv
<1>4. CASE EnqueueCall
  BY <1>3, <1>4 DEF EnqueueCall, Done, ringVars, readerVars
<1>5. CASE AcquireWrite \/ Publish \/ SendOverflow \/ Notify \/ SendRemote \/ WriterDies
  BY <1>3, <1>5 DEF AcquireWrite, Publish, SendOverflow, Notify, SendRemote, WriterDies,
     Done, ringVars, readerVars
<1>6. CASE BeginFill \/ EndFill
  <2>1. /\ UNCHANGED <<sent, rpc, got, ridx>>
        /\ \A c \in Chunks \ {widx} : data'[c] = data[c]
        /\ sent - Done(r) < MaxOutstanding
        /\ Lag(r) < MaxChunks
    BY <1>1, <1>3, <1>6 DEF BeginFill, EndFill, readerVars, TypeInv, RingInv
  <2>2. ASSUME rpc[r] = "use", got[r] > 0
        PROVE  PrevIdx(ridx[r]) # widx /\ PrevIdx(ridx[r]) \in Chunks
    <3>1. Done(r) = got[r] - 1 /\ Lag(r) = sent - got[r]
      BY <2>2 DEF Done, Lag, Taken
    <3>2. Lag(r) # MaxChunks - 1
      <4>1. sent - (got[r] - 1) < MaxOutstanding
        BY ONLY <2>1, <3>1
      <4>2. MaxOutstanding =< MaxChunks
        OBVIOUS
      <4> QED BY ONLY <1>2, <3>1, <4>1, <4>2, RoomLeft
    <3>3. Dist(ridx[r], PrevIdx(ridx[r])) = MaxChunks - 1
      BY <1>2, RingFacts
    <3> QED BY <1>1, <1>2, <2>1, <3>2, <3>3, WriterAhead, IndexFacts
  <2>3. Done(r)' = Done(r)
    BY <2>1 DEF Done
  <2> QED BY <1>3, <2>1, <2>2, <2>3
<1>7. ASSUME NEW s \in Readers, ResetFlag(s)
      PROVE  /\ wpc' \in {"check", "acquired", "fill", "reset"}
                  => sent' - Done(r)' < MaxOutstanding
             /\ rpc'[r] = "use" /\ got'[r] > 0 /\ got'[r] \notin Large
                  => data'[PrevIdx(ridx'[r])] = got'[r]
  BY <1>3, <1>7 DEF ResetFlag, Done, readerVars
<1>8. ASSUME NEW s \in Readers, ReaderStep(s) \/ Shutdown(s), r # s
      PROVE  /\ wpc' \in {"check", "acquired", "fill", "reset"}
                  => sent' - Done(r)' < MaxOutstanding
             /\ rpc'[r] = "use" /\ got'[r] > 0 /\ got'[r] \notin Large
                  => data'[PrevIdx(ridx'[r])] = got'[r]
  BY <1>1, <1>3, <1>8, OtherFrame DEF Done
<1>9. CASE Moves(r)
  <2>1. sent' = sent /\ wpc' = wpc /\ got' = got /\ rpc'[r] # "use"
    BY <1>1, <1>9, MovesFrame
  <2>2. Done(r)' = got[r]
    BY ONLY <2>1 DEF Done
  <2>3. Done(r) =< got[r]
    BY ONLY <1>2 DEF Done
  <2>4. sent - Done(r) < MaxOutstanding => sent - got[r] < MaxOutstanding
    <3>1. MaxOutstanding \in Int
      BY QueueAssumption
    <3> QED BY ONLY <1>2, <2>3, <3>1
  <2> QED BY ONLY <1>3, <2>1, <2>2, <2>4
<1>10. CASE ReadData(r) \/ Shutdown(r)
  BY <1>1, <1>3, <1>10 DEF TypeInv, ReadData, Shutdown, Done, ringVars, writerVars,
     readerVars
<1>11. CASE MarkRead(r)
  <2>1. /\ UNCHANGED <<data, wpc, sent>> /\ ridx'[r] = NextIdx(ridx[r])
        /\ rpc[r] = "mark"
        /\ \/ rpc'[r] = "recv" /\ got'[r] = got[r]
           \/ rpc'[r] = "use" /\ got'[r] = got[r] + 1 /\ obj[r] # Overflow
    BY <1>1, <1>11 DEF TypeInv, MarkRead, Return, writerVars, AllReaders
  <2>2. Done(r)' = Done(r)
    <3>1. Done(r) = got[r]
      BY ONLY <2>1 DEF Done
    <3>2. CASE rpc'[r] = "recv" /\ got'[r] = got[r]
      BY ONLY <3>1, <3>2 DEF Done
    <3>3. CASE rpc'[r] = "use" /\ got'[r] = got[r] + 1
      <4>1. got'[r] > 0 /\ got'[r] - 1 = got[r]
        BY ONLY <1>2, <3>3
      <4> QED BY ONLY <3>1, <3>3, <4>1 DEF Done
    <3> QED BY <2>1, <3>2, <3>3
  <2>3. data[ridx[r]] = Payload(got[r] + 1)
    BY <1>1, <2>1, ReadyChunk DEF ReaderInv, Taken
  <2>4. PrevIdx(ridx'[r]) = ridx[r]
    BY <1>2, <2>1, RingFacts
  <2> QED BY <1>3, <2>1, <2>2, <2>3, <2>4 DEF Payload
<1>12. CASE RecvOverflow(r)
  <2>1. /\ UNCHANGED <<data, wpc, sent>> /\ rpc[r] = "recv" /\ rpc'[r] = "use"
        /\ got'[r] = got[r] + 1
    BY <1>1, <1>12 DEF TypeInv, RecvOverflow, Return, ringVars, writerVars, AllReaders
  <2>2. Done(r)' = Done(r) /\ got'[r] \in Large
    <3>1. got'[r] > 0 /\ got'[r] - 1 = got[r]
      BY ONLY <1>2, <2>1
    <3>2. Done(r)' = Done(r)
      BY ONLY <2>1, <3>1 DEF Done
    <3> QED BY <1>1, <2>1, <3>2 DEF ReaderInv
  <2> QED BY <1>3, <2>1, <2>2
<1>13. ASSUME NEW s \in RemoteReaders, RecvRemote(s)
       PROVE  /\ wpc' \in {"check", "acquired", "fill", "reset"}
                   => sent' - Done(r)' < MaxOutstanding
              /\ rpc'[r] = "use" /\ got'[r] > 0 /\ got'[r] \notin Large
                   => data'[PrevIdx(ridx'[r])] = got'[r]
  <2>1. got'[r] = got[r] /\ UNCHANGED <<ringVars, writerVars, readerVars>>
    BY <1>1, <1>13, QueueAssumption DEF TypeInv, RecvRemote, Return, AllReaders
  <2> QED BY <1>3, <2>1 DEF Done, ringVars, writerVars, readerVars
<1>14. CASE UNCHANGED vars
  BY <1>3, <1>14 DEF vars, Done, ringVars, writerVars, readerVars
<1> QED BY <1>4, <1>5, <1>6, <1>7, <1>8, <1>9, <1>10, <1>11, <1>12, <1>13, <1>14
        DEF Next, WriterStep, ReaderStep, Moves

\* As long as the engine has no more RPCs in flight than the ring has chunks, the
\* buffers that a worker unpickled as views of a chunk keep their bytes while it
\* uses them, although dequeue has marked the chunk as read.
THEOREM HeldIntact ==
  ASSUME MaxOutstanding =< MaxChunks
  PROVE  Spec => []HeldObjectIntact
<1>1. Init => OutstandingInv
  <2>1. Init => wpc = "idle" /\ \A r \in Readers : ~(got[r] > 0)
    BY DEF Init, AllReaders
  <2> QED BY <2>1 DEF OutstandingInv
<1>2. IInv /\ OutstandingInv /\ [Next]_vars => OutstandingInv'
  BY NextOutstanding
<1>3. IInv /\ OutstandingInv => HeldObjectIntact
  <2> SUFFICES ASSUME IInv, OutstandingInv, NEW r \in Readers, rpc[r] = "use",
                      last[r] \in OutOfBand \ Large
               PROVE  data[PrevIdx(ridx[r])] = last[r]
    BY DEF HeldObjectIntact
  <2>1. last[r] = got[r]
    BY DEF IInv, ReaderInv
  <2>2. last[r] \in Nat \ {0}
    BY QueueAssumption
  <2>3. got[r] > 0
    <3>1. last[r] > 0
      BY ONLY <2>2
    <3> QED BY ONLY <2>1, <3>1
  <2> QED BY <2>1, <2>3 DEF OutstandingInv
<1> QED BY <1>1, <1>2, <1>3, Invariance, PTL DEF Spec
=============================================================================
