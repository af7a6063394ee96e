------------------------- MODULE ConvertRangeProofs -------------------------
(***************************************************************************)
(* Proofs, for any number of workers, chunks and buffers and any channel   *)
(* capacities, that ConvertRange's channels and buffers are used safely,   *)
(* that its progress reports are right and that it implements ImageCopy.   *)
(***************************************************************************)
EXTENDS ConvertRange, SequenceTheorems, FiniteSetTheorems, TLAPS

\* What a goroutine holds follows from where it is: this is what makes TypeOK
\* inductive.
HandsOK ==
  /\ \A w \in Threads :
       /\ wpc[w] \in {"check", "read", "send"} => wjob[w] \in Chunks
       /\ wpc[w] = "send" <=> wbuf[w] \in Buffers
  /\ IF spc \in {"write", "count"} THEN sjob \in [off : Chunks, buf : Buffers]
                                   ELSE sjob = NoWrite

TypeInv == TypeOK /\ HandsOK

\* The two parts of TypeOK the provers are better given one at a time.
ChannelsOK ==
  /\ jobs \in Seq(Chunks) /\ Len(jobs) <= JobsCap
  /\ writes \in Seq([off : Chunks, buf : Buffers]) /\ Len(writes) <= WritesCap

GoroutinesOK ==
  /\ zeros \subseteq Chunks
  /\ nextChunk \in 1 .. NumChunks + 1
  /\ dispatching \in BOOLEAN /\ jobsClosed \in BOOLEAN
  /\ wpc \in [Threads -> {"receive", "check", "read", "send", "cancel", "done"}]
  /\ wjob \in [Threads -> 0 .. NumChunks]
  /\ wbuf \in [Threads -> Buffers \union {NoBuffer}]
  /\ writesClosed \in BOOLEAN
  /\ spc \in {"receive", "write", "count", "cancel", "done"}
  /\ sjob \in [off : Chunks, buf : Buffers] \union {NoWrite}
  /\ pool \subseteq Buffers
  /\ content \in [Buffers -> Piece]
  /\ image \in [Chunks -> Piece]
  /\ clipped \subseteq Chunks /\ elided \subseteq Chunks
  /\ errCh \in {"empty", "read", "write"}
  /\ cancelled \in BOOLEAN /\ byCaller \in BOOLEAN
  /\ mpc \in {"wait_workers", "wait_writer", "unwind", "close", "returned"}
  /\ result \in {"none", "nil", "read", "write"}
  /\ sealed \in {"no", "yes", "failed"}
  /\ done \in Nat /\ reported \in Nat
  /\ ppc \in {"ticking", "done"}

LEMMA TypeParts == TypeOK <=> ChannelsOK /\ GoroutinesOK
BY DEF TypeOK, ChannelsOK, GoroutinesOK

\* The channel capacities are natural numbers.
LEMMA CapNat == JobsCap \in Nat /\ WritesCap \in Nat
BY CapacityAssumption

\* What the channel operations do to a sequence.
LEMMA SeqFacts ==
  ASSUME NEW S
  PROVE  /\ <<>> \in Seq(S) /\ Len(<<>>) = 0
         /\ \A s \in Seq(S), x \in S :
              Append(s, x) \in Seq(S) /\ Len(Append(s, x)) = Len(s) + 1
         /\ \A s \in Seq(S) :
              s # <<>> => /\ Head(s) \in S /\ Tail(s) \in Seq(S)
                          /\ Len(Tail(s)) = Len(s) - 1
  OBVIOUS

LEMMA TypeInit == Init => TypeInv
<1> SUFFICES ASSUME Init PROVE TypeInv
  OBVIOUS
<1>1. ChannelsOK
  <2>1. /\ jobs \in Seq(Chunks) /\ Len(jobs) = 0
        /\ writes \in Seq([off : Chunks, buf : Buffers]) /\ Len(writes) = 0
    BY SeqFacts DEF Init
  <2> QED
    BY <2>1, CapNat DEF ChannelsOK
<1>2. GoroutinesOK
  <2>1. Blank \in Piece
    BY ChunksAssumption DEF Blank, Piece
  <2>2. content \in [Buffers -> Piece] /\ image \in [Chunks -> Piece]
    BY <2>1 DEF Init
  <2>3. nextChunk \in 1 .. NumChunks + 1
    BY ChunksAssumption DEF Init
  <2>4. wjob \in [Threads -> 0 .. NumChunks]
    BY ChunksAssumption DEF Init
  <2>5. sjob \in [off : Chunks, buf : Buffers] \union {NoWrite}
    BY DEF Init
  <2>6. zeros \subseteq Chunks
    BY ReadAssumption DEF Init, Chunks
  <2> QED
    BY <2>2, <2>3, <2>4, <2>5, <2>6 DEF GoroutinesOK, Init
<1>3. HandsOK
  BY BuffersAssumption DEF HandsOK, Init
<1> QED
  BY <1>1, <1>2, <1>3, TypeParts DEF TypeInv

LEMMA ChannelsStep == ChannelsOK /\ HandsOK /\ [Next]_vars => ChannelsOK'
<1> SUFFICES ASSUME ChannelsOK, HandsOK, [Next]_vars PROVE ChannelsOK'
  OBVIOUS
<1> USE DEF ChannelsOK
<1>1. CASE Dispatch
  <2>1. jobs' \in Seq(Chunks) /\ Len(jobs') = Len(jobs) + 1 /\ Len(jobs) \in Nat
    BY <1>1, SeqFacts, LenProperties DEF Dispatch
  <2> QED
    BY <1>1, <2>1, CapNat DEF Dispatch
<1>2. ASSUME NEW w \in Threads, ReceiveJob(w) PROVE ChannelsOK'
  <2>1. jobs' \in Seq(Chunks) /\ Len(jobs') = Len(jobs) - 1 /\ Len(jobs) \in Nat
    BY <1>2, SeqFacts, LenProperties DEF ReceiveJob
  <2> QED
    BY <1>2, <2>1, CapNat DEF ReceiveJob
<1>3. ASSUME NEW w \in Threads, SendWrite(w) PROVE ChannelsOK'
  <2> DEFINE entry == [off |-> wjob[w], buf |-> wbuf[w]]
  <2>1. entry \in [off : Chunks, buf : Buffers]
    BY <1>3 DEF SendWrite, HandsOK
  <2>2. /\ writes' \in Seq([off : Chunks, buf : Buffers])
        /\ Len(writes') = Len(writes) + 1 /\ Len(writes) \in Nat
    BY <1>3, <2>1, SeqFacts, LenProperties DEF SendWrite
  <2>3. Len(writes') <= WritesCap
    BY <1>3, <2>2, CapNat DEF SendWrite
  <2> QED
    BY <1>3, <2>2, <2>3 DEF SendWrite
<1>4. CASE ReceiveWrite
  <2>1. /\ writes' \in Seq([off : Chunks, buf : Buffers])
        /\ Len(writes') = Len(writes) - 1 /\ Len(writes) \in Nat
    BY <1>4, SeqFacts, LenProperties DEF ReceiveWrite
  <2> QED
    BY <1>4, <2>1, CapNat DEF ReceiveWrite
<1>5. ASSUME NEW w \in Threads, Worker(w), ~ReceiveJob(w), ~SendWrite(w)
      PROVE  UNCHANGED <<jobs, writes>>
  BY <1>5 DEF Worker, WorkerEnd, CheckContext, ReadFails, ReadNothing,
              ReadElided, ReadData, AbandonWrite, WorkerCancel
<1>6. CASE Writer /\ ~ReceiveWrite
  BY <1>6 DEF Writer, WriterEnd, WriteChunk, CountChunk, WriteFails, WriterCancel
<1>7. CASE DispatchEnd \/ Main \/ Render \/ FinalRender \/ CallerCancels
           \/ UNCHANGED vars
  BY <1>7 DEF DispatchEnd, Main, CloseWrites, TakeResult, Unwind, CloseOutput,
              Render, FinalRender, CallerCancels, vars
<1> QED
  BY <1>1, <1>2, <1>3, <1>4, <1>5, <1>6, <1>7 DEF Next, Terminated

LEMMA GoroutinesStep == TypeInv /\ [Next]_vars => GoroutinesOK' /\ HandsOK'
<1> SUFFICES ASSUME TypeInv, [Next]_vars PROVE GoroutinesOK' /\ HandsOK'
  OBVIOUS
<1>c. NoBuffer \notin Buffers /\ NumChunks \in Nat
  BY BuffersAssumption, ChunksAssumption
<1>p. ChannelsOK /\ GoroutinesOK /\ HandsOK
  BY TypeParts DEF TypeInv
<1> USE <1>p DEF GoroutinesOK, HandsOK, dispVars, workerVars, writerVars, mainVars,
            progVars, bufVars, ctxVars, outVars
<1>1. CASE Dispatch
  <2>1. nextChunk' \in 1 .. NumChunks + 1
    BY <1>1, <1>c DEF Dispatch, Chunks
  <2>2. UNCHANGED <<zeros, dispatching, jobsClosed, workerVars, writesClosed,
                    writerVars, bufVars, outVars, errCh, ctxVars, mainVars,
                    done, progVars>>
    BY <1>1 DEF Dispatch
  <2> QED
    BY <2>1, <2>2
<1>2. CASE DispatchEnd
  <2>1. dispatching' \in BOOLEAN /\ jobsClosed' \in BOOLEAN
    BY <1>2 DEF DispatchEnd
  <2>2. UNCHANGED <<zeros, nextChunk, jobs, workerVars, writes, writesClosed,
                 writerVars, bufVars, outVars, errCh, ctxVars, mainVars, done,
                 progVars>>
    BY <1>2 DEF DispatchEnd
  <2> QED
    BY <2>1, <2>2
<1>3. CASE \E w \in Threads : Worker(w)
  <2> PICK w \in Threads : Worker(w)
    BY <1>3
  <2>1. CASE ReceiveJob(w)
    <3>1. Head(jobs) \in Chunks
      BY <2>1, SeqFacts DEF ReceiveJob, ChannelsOK
    <3> QED
      BY <2>1, <3>1, <1>c DEF ReceiveJob, Chunks
  <2>2. CASE WorkerEnd(w)
    BY <2>2, <1>c DEF WorkerEnd
  <2>3. CASE CheckContext(w)
    BY <2>3, <1>c DEF CheckContext
  <2>4. CASE ReadFails(w)
    BY <2>4, <1>c DEF ReadFails, SetErr, AfterSetErr
  <2>5. CASE ReadNothing(w)
    BY <2>5, <1>c DEF ReadNothing
  <2>6. CASE ReadElided(w)
    BY <2>6, <1>c DEF ReadElided, NoteIfShort
  <2>7. CASE ReadData(w)
    <3>1. PICK b \in pool, kind \in ReadOutcomes[wjob[w]] \intersect {"full", "short"} :
            /\ pool' = pool \ {b}
            /\ wbuf' = [wbuf EXCEPT ![w] = b]
            /\ content' = [content EXCEPT ![b] = [from |-> wjob[w], kind |-> kind]]
            /\ NoteIfShort(w, kind)
      BY <2>7 DEF ReadData
    <3>2. [from |-> wjob[w], kind |-> kind] \in Piece
      BY <2>7 DEF Piece
    <3>3. content' \in [Buffers -> Piece] /\ clipped' \subseteq Chunks
      BY <2>7, <3>1, <3>2 DEF ReadData, NoteIfShort
    <3>4. /\ wpc' = [wpc EXCEPT ![w] = "send"]
          /\ UNCHANGED <<zeros, dispVars, jobsClosed, wjob, writesClosed,
                         writerVars, image, elided, errCh, ctxVars, mainVars,
                         done, progVars>>
      BY <2>7 DEF ReadData
    <3>5. wjob[w] \in Chunks
      BY <2>7 DEF ReadData
    <3> QED
      BY <3>1, <3>3, <3>4, <3>5, <1>c
  <2>8. CASE SendWrite(w)
    BY <2>8, <1>c DEF SendWrite
  <2>9. CASE AbandonWrite(w)
    BY <2>9, <1>c DEF AbandonWrite, Release, Piece, Blank
  <2>10. CASE WorkerCancel(w)
    BY <2>10, <1>c DEF WorkerCancel
  <2> QED
    BY <2>1, <2>2, <2>3, <2>4, <2>5, <2>6, <2>7, <2>8, <2>9, <2>10 DEF Worker
<1>4. CASE Writer
  <2>1. CASE ReceiveWrite
    <3>1. Head(writes) \in [off : Chunks, buf : Buffers]
      BY <2>1, SeqFacts DEF ReceiveWrite, ChannelsOK
    <3>2. spc' = "write" /\ sjob' \in [off : Chunks, buf : Buffers]
      BY <2>1, <3>1 DEF ReceiveWrite
    <3>3. UNCHANGED <<zeros, dispVars, jobs, jobsClosed, workerVars,
                      writesClosed, bufVars, outVars, errCh, ctxVars, mainVars,
                      done, progVars>>
      BY <2>1 DEF ReceiveWrite
    <3> QED
      BY <3>2, <3>3
  <2>2. CASE WriterEnd
    BY <2>2, <1>c DEF WriterEnd
  <2>3. CASE WriteChunk
    BY <2>3, <1>c DEF WriteChunk
  <2>4. CASE CountChunk
    BY <2>4, <1>c DEF CountChunk, Release, Piece, Blank
  <2>5. CASE WriteFails
    BY <2>5, <1>c DEF WriteFails, Release, Piece, Blank, SetErr, AfterSetErr, Chunks
  <2>6. CASE WriterCancel
    BY <2>6, <1>c DEF WriterCancel
  <2> QED
    BY <1>4, <2>1, <2>2, <2>3, <2>4, <2>5, <2>6 DEF Writer
<1>5. CASE Main
  <2>1. CASE CloseWrites
    BY <2>1, <1>c DEF CloseWrites
  <2>2. CASE TakeResult
    BY <2>2, <1>c DEF TakeResult
  <2>3. CASE Unwind
    BY <2>3, <1>c DEF Unwind
  <2>4. CASE CloseOutput
    BY <2>4, <1>c DEF CloseOutput
  <2> QED
    BY <1>5, <2>1, <2>2, <2>3, <2>4 DEF Main
<1>6. CASE Render
  BY <1>6, <1>c DEF Render
<1>7. CASE FinalRender
  BY <1>7, <1>c DEF FinalRender
<1>8. CASE CallerCancels
  BY <1>8, <1>c DEF CallerCancels
<1>9. CASE UNCHANGED vars
  BY <1>9, <1>c DEF vars
<1> QED
  BY <1>1, <1>2, <1>3, <1>4, <1>5, <1>6, <1>7, <1>8, <1>9 DEF Next, Terminated

LEMMA TypeInvStep == TypeInv /\ [Next]_vars => TypeInv'
<1> SUFFICES ASSUME TypeInv, [Next]_vars PROVE TypeInv'
  OBVIOUS
<1>1. ChannelsOK' /\ GoroutinesOK' /\ HandsOK'
  BY ChannelsStep, GoroutinesStep, TypeParts DEF TypeInv
<1> QED
  BY <1>1 DEF TypeInv, TypeOK, ChannelsOK, GoroutinesOK

\* The goroutines, channels, buffers and counters of ConvertRange keep their
\* types, no channel ever holds more than its capacity, and what a goroutine
\* holds agrees with where it is.
THEOREM TypeCorrect == Spec => [](TypeOK /\ HandsOK)
BY TypeInit, TypeInvStep, PTL DEF Spec, TypeInv

-----------------------------------------------------------------------------
(* The channels.                                                           *)

\* The panic of a send on a closed channel cannot happen, however many workers
\* there are and whatever fails: writes is closed after the last worker has
\* returned, jobs by the only goroutine that sends on it.
THEOREM ChannelsSafe == Spec => []NoSendOnClosed
<1>1. Init => NoSendOnClosed
  BY DEF Init, NoSendOnClosed
<1>2. ASSUME NoSendOnClosed, [Next]_vars PROVE NoSendOnClosed'
  <2> USE <1>2 DEF NoSendOnClosed, dispVars, workerVars
  <2>1. CASE Dispatch
    BY <2>1 DEF Dispatch
  <2>2. CASE DispatchEnd
    BY <2>2 DEF DispatchEnd
  <2>3. CASE \E w \in Threads : Worker(w)
    <3> PICK w \in Threads : Worker(w)
      BY <2>3
    <3>1. wpc[w] # "done" /\ UNCHANGED <<dispVars, jobsClosed, writesClosed>>
      BY DEF Worker, ReceiveJob, WorkerEnd, CheckContext, ReadFails, ReadNothing,
             ReadElided, ReadData, SendWrite, AbandonWrite, WorkerCancel
    <3> QED
      BY <3>1
  <2>4. CASE Writer
    <3>1. UNCHANGED <<dispVars, jobsClosed, writesClosed, workerVars>>
      BY <2>4 DEF Writer, ReceiveWrite, WriterEnd, WriteChunk, CountChunk,
                  WriteFails, WriterCancel
    <3> QED
      BY <3>1
  <2>5. CASE Main
    <3>1. UNCHANGED <<dispVars, jobsClosed, workerVars>>
      BY <2>5 DEF Main, CloseWrites, TakeResult, Unwind, CloseOutput
    <3>2. CASE CloseWrites
      BY <3>1, <3>2 DEF CloseWrites
    <3>3. CASE ~CloseWrites
      BY <2>5, <3>1, <3>3 DEF Main, TakeResult, Unwind, CloseOutput
    <3> QED
      BY <3>2, <3>3
  <2>6. CASE Render \/ FinalRender \/ CallerCancels \/ UNCHANGED vars
    BY <2>6 DEF Render, FinalRender, CallerCancels, vars
  <2> QED
    BY <2>1, <2>2, <2>3, <2>4, <2>5, <2>6 DEF Next, Terminated
<1> QED
  BY <1>1, <1>2, PTL DEF Spec

-----------------------------------------------------------------------------
(* The buffers.                                                            *)

\* A buffer on its way to the output holds the bytes of the chunk it will be
\* written to.
ContentOK ==
  /\ \A w \in Threads : wpc[w] = "send" => content[wbuf[w]].from = wjob[w]
  /\ \A i \in DOMAIN writes : content[writes[i].buf].from = writes[i].off
  /\ spc \in {"write", "count"} => content[sjob.buf].from = sjob.off

BufferInv == BufferExclusive /\ ContentOK /\ Faithful

LEMMA BufferInit == Init => BufferInv
BY BuffersAssumption DEF Init, BufferInv, BufferExclusive, ContentOK, Faithful,
   NoWrite, Blank

\* A step that moves no buffer and starts no write keeps BufferInv.
LEMMA BufferQuiet ==
  ASSUME BufferInv,
         UNCHANGED <<wbuf, writes, sjob, pool, content, image>>,
         \A v \in Threads : wpc'[v] = "send" => wpc[v] = "send" /\ wjob'[v] = wjob[v],
         spc' \in {"write", "count"} => spc \in {"write", "count"}
  PROVE  BufferInv'
BY DEF BufferInv, BufferExclusive, ContentOK, Faithful

\* What is in a channel after a send and after a receive.
LEMMA ChannelFacts ==
  ASSUME NEW S, NEW s \in Seq(S)
  PROVE  /\ DOMAIN s = 1 .. Len(s) /\ Len(s) \in Nat
         /\ \A x \in S : /\ DOMAIN Append(s, x) = 1 .. Len(s) + 1
                         /\ \A i \in 1 .. Len(s) : Append(s, x)[i] = s[i]
                         /\ Append(s, x)[Len(s) + 1] = x
         /\ s # <<>> => /\ DOMAIN Tail(s) = 1 .. Len(s) - 1
                        /\ \A i \in 1 .. Len(s) - 1 : Tail(s)[i] = s[i + 1]
                        /\ Head(s) = s[1] /\ 1 \in DOMAIN s
<1>1. DOMAIN s = 1 .. Len(s) /\ Len(s) \in Nat
  BY LenProperties
<1>2. ASSUME NEW x \in S
      PROVE  /\ DOMAIN Append(s, x) = 1 .. Len(s) + 1
             /\ \A i \in 1 .. Len(s) : Append(s, x)[i] = s[i]
             /\ Append(s, x)[Len(s) + 1] = x
  BY AppendProperties, LenProperties
<1>3. ASSUME s # <<>>
      PROVE  /\ DOMAIN Tail(s) = 1 .. Len(s) - 1
             /\ \A i \in 1 .. Len(s) - 1 : Tail(s)[i] = s[i + 1]
             /\ Head(s) = s[1] /\ 1 \in DOMAIN s
  BY <1>1, <1>3, HeadTailProperties, LenProperties, EmptySeq
<1> QED
  BY <1>1, <1>2, <1>3

LEMMA EntryType ==
  ASSUME TypeInv, NEW i \in DOMAIN writes
  PROVE  writes[i] \in [off : Chunks, buf : Buffers]
<1>1. writes \in Seq([off : Chunks, buf : Buffers])
  BY DEF TypeInv, TypeOK
<1>2. i \in 1 .. Len(writes)
  BY <1>1, ChannelFacts
<1> QED
  BY <1>1, <1>2, ElementOfSeq

\* pool.Get: the buffer comes out of the pool, so nobody else holds it.
LEMMA BufferRead ==
  ASSUME TypeInv, BufferInv, NEW w \in Threads, ReadData(w)
  PROVE  BufferInv'
<1> USE DEF TypeInv, ReadData, writerVars
<1>1. PICK b \in pool, kind \in {"full", "short"} :
        /\ pool' = pool \ {b}
        /\ wbuf' = [wbuf EXCEPT ![w] = b]
        /\ content' = [content EXCEPT ![b] = [from |-> wjob[w], kind |-> kind]]
  OBVIOUS
<1>2. /\ b \in Buffers /\ b # NoBuffer /\ b # sjob.buf
      /\ \A v \in Threads : wbuf[v] # b
      /\ \A i \in DOMAIN writes : writes[i].buf # b
  BY BuffersAssumption DEF BufferInv, BufferExclusive, TypeOK
<1>3. /\ wbuf'[w] = b /\ \A v \in Threads : v # w => wbuf'[v] = wbuf[v]
      /\ content'[b].from = wjob[w]
      /\ \A d \in Buffers : d # b => content'[d] = content[d]
  BY <1>1, <1>2 DEF TypeOK
<1>4. BufferExclusive'
  BY <1>1, <1>2, <1>3 DEF BufferInv, BufferExclusive
<1>5. ContentOK'
  <2>1. ASSUME NEW v \in Threads, wpc'[v] = "send" PROVE content'[wbuf'[v]].from = wjob'[v]
    <3>1. CASE v = w
      BY <3>1, <1>3
    <3>2. CASE v # w
      <4>1. wpc[v] = "send" /\ wbuf[v] \in Buffers /\ wbuf[v] # b
        BY <2>1, <3>2, <1>2 DEF HandsOK, TypeOK
      <4> QED
        BY <3>2, <4>1, <1>3 DEF BufferInv, ContentOK
    <3> QED
      BY <3>1, <3>2
  <2>2. ASSUME NEW i \in DOMAIN writes PROVE content'[writes[i].buf] = content[writes[i].buf]
    <3>1. writes[i] \in [off : Chunks, buf : Buffers]
      BY EntryType
    <3> QED
      BY <3>1, <1>2, <1>3
  <2>3. spc \in {"write", "count"} => content'[sjob.buf] = content[sjob.buf]
    BY <1>2, <1>3 DEF HandsOK
  <2> QED
    BY <2>1, <2>2, <2>3 DEF ContentOK, BufferInv
<1> QED
  BY <1>4, <1>5 DEF BufferInv, Faithful

\* The send on writes hands the worker's buffer over to the channel.
LEMMA BufferSend ==
  ASSUME TypeInv, BufferInv, NEW w \in Threads, SendWrite(w)
  PROVE  BufferInv'
<1> USE DEF TypeInv
<1> DEFINE entry == [off |-> wjob[w], buf |-> wbuf[w]]
           n == Len(writes)
<1>1. /\ wbuf[w] \in Buffers /\ wbuf[w] # NoBuffer
      /\ entry \in [off : Chunks, buf : Buffers]
      /\ content[wbuf[w]].from = wjob[w]
  BY BuffersAssumption DEF HandsOK, SendWrite, BufferInv, ContentOK
<1>2. /\ UNCHANGED <<sjob, spc, pool, content, image>>
      /\ wbuf'[w] = NoBuffer /\ wpc'[w] = "receive"
      /\ \A v \in Threads : v # w => /\ wbuf'[v] = wbuf[v]
                                     /\ wpc'[v] = wpc[v] /\ wjob'[v] = wjob[v]
  BY DEF SendWrite, TypeOK, writerVars, bufVars, outVars
<1>3. /\ n \in Nat /\ DOMAIN writes = 1 .. n /\ DOMAIN writes' = 1 .. n + 1
      /\ \A i \in 1 .. n : writes'[i] = writes[i]
      /\ writes'[n + 1] = entry
  BY <1>1, ChannelFacts DEF SendWrite, TypeOK
<1>4. \A i \in 1 .. n : writes[i].buf # wbuf[w]
  BY <1>3 DEF BufferInv, BufferExclusive
<1>5. BufferExclusive'
  <2>1. /\ \A v \in Threads : wbuf'[v] # NoBuffer => wbuf'[v] \notin pool' /\ wbuf'[v] # sjob'.buf
        /\ \A u, v \in Threads : u # v /\ wbuf'[u] = wbuf'[v] => wbuf'[u] = NoBuffer
        /\ sjob'.buf \notin pool'
    BY <1>2 DEF BufferInv, BufferExclusive
  <2>2. ASSUME NEW i \in DOMAIN writes'
        PROVE  /\ writes'[i].buf \notin pool' /\ writes'[i].buf # sjob'.buf
               /\ \A v \in Threads : writes'[i].buf # wbuf'[v]
    <3>1. CASE i = n + 1
      BY <1>1, <1>2, <1>3, <3>1 DEF BufferInv, BufferExclusive
    <3>2. CASE i \in 1 .. n
      <4>1. /\ writes'[i].buf = writes[i].buf /\ writes[i].buf \in Buffers
            /\ i \in DOMAIN writes
        BY <1>3, <3>2, EntryType
      <4> QED
        BY <1>2, <4>1, BuffersAssumption DEF BufferInv, BufferExclusive
    <3> QED
      BY <1>3, <3>1, <3>2
  <2>3. ASSUME NEW i \in DOMAIN writes', NEW j \in DOMAIN writes',
               writes'[i].buf = writes'[j].buf
        PROVE  i = j
    <3>1. CASE i \in 1 .. n /\ j \in 1 .. n
      BY <1>3, <2>3, <3>1 DEF BufferInv, BufferExclusive
    <3>2. CASE i = n + 1 \/ j = n + 1
      BY <1>3, <1>4, <2>3, <3>2
    <3> QED
      BY <1>3, <3>1, <3>2
  <2> QED
    BY <2>1, <2>2, <2>3 DEF BufferExclusive
<1>6. ContentOK'
  BY <1>1, <1>2, <1>3 DEF BufferInv, ContentOK
<1> QED
  BY <1>2, <1>5, <1>6 DEF BufferInv, Faithful

\* pool.Put by the worker that gives up: nobody else holds the buffer it puts.
LEMMA BufferAbandon ==
  ASSUME TypeInv, BufferInv, NEW w \in Threads, AbandonWrite(w)
  PROVE  BufferInv'
<1> USE DEF TypeInv
<1>1. wbuf[w] \in Buffers /\ wbuf[w] # NoBuffer
  BY BuffersAssumption DEF HandsOK, AbandonWrite
<1>2. /\ UNCHANGED <<writes, sjob, spc, image>>
      /\ pool' = pool \union {wbuf[w]}
      /\ wbuf'[w] = NoBuffer /\ wpc'[w] = "done"
      /\ \A v \in Threads : v # w => /\ wbuf'[v] = wbuf[v]
                                     /\ wpc'[v] = wpc[v] /\ wjob'[v] = wjob[v]
      /\ \A d \in Buffers : d # wbuf[w] => content'[d] = content[d]
  BY DEF AbandonWrite, Release, TypeOK, writerVars, outVars
<1>3. \A i \in DOMAIN writes : writes[i].buf \in Buffers /\ writes[i].buf # wbuf[w]
  BY EntryType DEF BufferInv, BufferExclusive
<1>4. BufferExclusive'
  BY <1>1, <1>2, <1>3, BuffersAssumption DEF BufferInv, BufferExclusive
<1>5. ContentOK'
  <2>1. ASSUME NEW v \in Threads, wpc'[v] = "send" PROVE content'[wbuf'[v]].from = wjob'[v]
    <3>1. v # w /\ wpc[v] = "send" /\ wbuf[v] \in Buffers /\ wbuf[v] # wbuf[w]
      BY <1>1, <1>2, <2>1 DEF HandsOK, BufferInv, BufferExclusive
    <3> QED
      BY <1>2, <3>1 DEF BufferInv, ContentOK
  <2>2. \A i \in DOMAIN writes : content'[writes[i].buf] = content[writes[i].buf]
    BY <1>2, <1>3
  <2>3. spc \in {"write", "count"} => content'[sjob.buf] = content[sjob.buf]
    BY <1>1, <1>2 DEF HandsOK, BufferInv, BufferExclusive
  <2> QED
    BY <1>2, <2>1, <2>2, <2>3 DEF ContentOK, BufferInv
<1> QED
  BY <1>2, <1>4, <1>5 DEF BufferInv, Faithful

\* The receive from writes: the channel lets go of the buffer it delivers.
LEMMA BufferReceive ==
  ASSUME TypeInv, BufferInv, ReceiveWrite
  PROVE  BufferInv'
<1> USE DEF TypeInv
<1> DEFINE n == Len(writes)
<1>1. writes \in Seq([off : Chunks, buf : Buffers]) /\ writes # <<>>
  BY DEF ReceiveWrite, TypeOK
<1>2. /\ n \in Nat /\ DOMAIN writes = 1 .. n /\ DOMAIN writes' = 1 .. n - 1
      /\ \A i \in 1 .. n - 1 : writes'[i] = writes[i + 1]
      /\ sjob' = writes[1] /\ 1 \in DOMAIN writes
  BY <1>1, ChannelFacts DEF ReceiveWrite
<1>3. UNCHANGED <<wbuf, wpc, wjob, pool, content, image>>
  BY DEF ReceiveWrite, workerVars, bufVars, outVars
<1>4. \A i \in DOMAIN writes' : i + 1 \in DOMAIN writes /\ writes'[i] = writes[i + 1] /\ i + 1 # 1
  BY <1>2
<1>5. sjob'.buf \in Buffers /\ sjob'.buf # NoBuffer
  BY <1>2, EntryType, BuffersAssumption
<1>6. BufferExclusive'
  <2>1. /\ \A v \in Threads : wbuf'[v] # NoBuffer => wbuf'[v] \notin pool' /\ wbuf'[v] # sjob'.buf
        /\ \A u, v \in Threads : u # v /\ wbuf'[u] = wbuf'[v] => wbuf'[u] = NoBuffer
        /\ sjob'.buf \notin pool'
    BY <1>2, <1>3 DEF BufferInv, BufferExclusive
  <2>2. ASSUME NEW i \in DOMAIN writes'
        PROVE  /\ writes'[i].buf \notin pool' /\ writes'[i].buf # sjob'.buf
               /\ \A v \in Threads : writes'[i].buf # wbuf'[v]
    BY <1>2, <1>3, <1>4 DEF BufferInv, BufferExclusive
  <2>3. ASSUME NEW i \in DOMAIN writes', NEW j \in DOMAIN writes',
               writes'[i].buf = writes'[j].buf
        PROVE  i = j
    <3>1. i + 1 = j + 1
      BY <1>4, <2>3 DEF BufferInv, BufferExclusive
    <3> QED
      BY <1>2, <3>1
  <2> QED
    BY <2>1, <2>2, <2>3 DEF BufferExclusive
<1>7. ContentOK'
  BY <1>2, <1>3, <1>4 DEF BufferInv, ContentOK
<1> QED
  BY <1>3, <1>6, <1>7 DEF BufferInv, Faithful

\* pool.Put by the writer, after a WriteAt that succeeded or failed.
LEMMA BufferRelease ==
  ASSUME TypeInv, BufferInv, spc \in {"write", "count"}, Release(sjob.buf),
         UNCHANGED <<writes, wbuf, wpc, wjob>>,
         sjob' = NoWrite, spc' \notin {"write", "count"},
         Faithful'
  PROVE  BufferInv'
<1> USE DEF TypeInv
<1>1. sjob.buf \in Buffers /\ sjob.buf # NoBuffer
  BY BuffersAssumption DEF HandsOK
<1>2. /\ pool' = pool \union {sjob.buf}
      /\ \A d \in Buffers : d # sjob.buf => content'[d] = content[d]
      /\ sjob'.buf = NoBuffer
  BY DEF Release, TypeOK, NoWrite
<1>3. \A i \in DOMAIN writes : writes[i].buf \in Buffers /\ writes[i].buf # sjob.buf
  BY EntryType DEF BufferInv, BufferExclusive
<1>4. BufferExclusive'
  BY <1>1, <1>2, <1>3, BuffersAssumption DEF BufferInv, BufferExclusive, TypeOK
<1>5. ContentOK'
  <2>1. ASSUME NEW v \in Threads, wpc'[v] = "send" PROVE content'[wbuf'[v]].from = wjob'[v]
    <3>1. wpc[v] = "send" /\ wbuf[v] \in Buffers /\ wbuf[v] # sjob.buf
      BY <1>1, <2>1, BuffersAssumption DEF HandsOK, BufferInv, BufferExclusive
    <3> QED
      BY <1>2, <3>1 DEF BufferInv, ContentOK
  <2>2. \A i \in DOMAIN writes : content'[writes[i].buf] = content[writes[i].buf]
    BY <1>2, <1>3
  <2> QED
    BY <2>1, <2>2 DEF ContentOK, BufferInv
<1> QED
  BY <1>4, <1>5 DEF BufferInv

LEMMA BufferWorkers ==
  ASSUME TypeInv, BufferInv, NEW w \in Threads, Worker(w)
  PROVE  BufferInv'
<1>1. CASE ReceiveJob(w) \/ WorkerEnd(w) \/ CheckContext(w) \/ ReadFails(w)
           \/ ReadNothing(w) \/ ReadElided(w) \/ WorkerCancel(w)
  <2>1. UNCHANGED <<wbuf, writes, sjob, spc, pool, content, image>>
    BY <1>1 DEF ReceiveJob, WorkerEnd, CheckContext, ReadFails, ReadNothing,
                ReadElided, WorkerCancel, workerVars, writerVars, bufVars, outVars
  <2>2. /\ wpc[w] # "send" /\ wpc'[w] # "send"
        /\ \A v \in Threads : v # w => wpc'[v] = wpc[v] /\ wjob'[v] = wjob[v]
    BY <1>1 DEF TypeInv, TypeOK, ReceiveJob, WorkerEnd, CheckContext, ReadFails,
                ReadNothing, ReadElided, WorkerCancel, AfterSetErr
  <2> QED
    BY <2>1, <2>2, BufferQuiet
<1> QED
  BY <1>1, BufferRead, BufferSend, BufferAbandon DEF Worker

LEMMA BufferWriter ==
  ASSUME TypeInv, BufferInv, Writer
  PROVE  BufferInv'
<1> USE DEF workerVars, bufVars, outVars
<1>1. CASE ReceiveWrite
  BY <1>1, BufferReceive
<1>2. CASE WriterEnd \/ WriterCancel
  BY <1>2, BufferQuiet DEF WriterEnd, WriterCancel
<1>3. CASE WriteChunk
  <2>1. Faithful'
    BY <1>3 DEF WriteChunk, BufferInv, ContentOK, Faithful, TypeInv, TypeOK, HandsOK
  <2> QED
    BY <1>3, <2>1 DEF WriteChunk, BufferInv, BufferExclusive, ContentOK
<1>4. CASE CountChunk
  BY <1>4, BufferRelease DEF CountChunk, BufferInv, Faithful
<1>5. CASE WriteFails
  <2>1. spc' \notin {"write", "count"}
    BY <1>5 DEF WriteFails, AfterSetErr
  <2>2. Faithful'
    BY <1>5 DEF WriteFails, BufferInv, Faithful, TypeInv, TypeOK, HandsOK
  <2> QED
    BY <1>5, <2>1, <2>2, BufferRelease DEF WriteFails
<1> QED
  BY <1>1, <1>2, <1>3, <1>4, <1>5 DEF Writer

LEMMA BufferStep == TypeInv /\ BufferInv /\ [Next]_vars => BufferInv'
<1> SUFFICES ASSUME TypeInv, BufferInv, [Next]_vars PROVE BufferInv'
  OBVIOUS
<1>1. CASE \E w \in Threads : Worker(w)
  BY <1>1, BufferWorkers
<1>2. CASE Writer
  BY <1>2, BufferWriter
<1>3. CASE Dispatch \/ DispatchEnd \/ Main \/ Render \/ FinalRender
           \/ CallerCancels \/ UNCHANGED vars
  <2>1. UNCHANGED <<wbuf, wpc, wjob, writes, sjob, spc, pool, content, image>>
    BY <1>3 DEF Dispatch, DispatchEnd, Main, CloseWrites, TakeResult, Unwind,
                CloseOutput, Render, FinalRender, CallerCancels, vars,
                workerVars, writerVars, bufVars, outVars
  <2> QED
    BY <2>1, BufferQuiet
<1> QED
  BY <1>1, <1>2, <1>3 DEF Next, Terminated

\* No two goroutines ever share a buffer, however many workers run, whatever
\* they read and whichever of them fail or are cancelled.
THEOREM BuffersExclusive == Spec => []BufferExclusive
BY TypeInit, TypeInvStep, BufferInit, BufferStep, PTL DEF Spec, BufferInv

\* No chunk of the output ever holds the bytes of another: every chunk gets its
\* own bytes or none, in whatever order the workers finish.
THEOREM CopyFaithful == Spec => []Faithful
BY TypeInit, TypeInvStep, BufferInit, BufferStep, PTL DEF Spec, BufferInv

-----------------------------------------------------------------------------
(* The way of a chunk: it is dispatched, taken by one worker, sent, and    *)
(* written, and never goes back.                                           *)

\* No longer with the dispatcher or in the channel jobs.
Taken(c) == c < nextChunk /\ \A i \in DOMAIN jobs : jobs[i] # c

\* No longer with a worker either,
Left(c) == Taken(c) /\ \A w \in Threads : wjob[w] # c

\* nor in the channel writes,
Passed(c) == Left(c) /\ \A i \in DOMAIN writes : writes[i].off # c

\* nor about to be written.
Finished(c) == Passed(c) /\ ~(spc = "write" /\ sjob.off = c)

\* A chunk is in one place at a time, and one that has left its mark on the
\* output or in the counts is past them all.
JobsWay ==
  \A i \in DOMAIN jobs : /\ jobs[i] < nextChunk
                         /\ \A j \in DOMAIN jobs : jobs[i] = jobs[j] => i = j

WorkersWay ==
  \A w \in Threads :
    /\ wjob[w] # 0 => /\ Taken(wjob[w]) /\ wpc[w] \in {"check", "read", "send"}
                      /\ \A v \in Threads : wjob[v] = wjob[w] => v = w
    /\ wjob[w] \in clipped => wpc[w] = "send"

WritesWay ==
  /\ \A i \in DOMAIN writes :
       /\ Left(writes[i].off)
       /\ \A j \in DOMAIN writes : writes[i].off = writes[j].off => i = j
  /\ spc = "write" => Passed(sjob.off)

MarksWay ==
  /\ \A c \in clipped : Taken(c)
  /\ \A c \in elided : Finished(c)
  /\ \A c \in Chunks : image[c].kind # "blank" => Finished(c)

WayOK == JobsWay /\ WorkersWay /\ WritesWay /\ MarksWay

\* What is on its way to the output is whole, or the source gave a part only.
KindOf(c) == IF c \in clipped THEN "short" ELSE "full"

KindOK ==
  /\ \A w \in Threads : wpc[w] = "send" => content[wbuf[w]].kind = KindOf(wjob[w])
  /\ \A i \in DOMAIN writes : content[writes[i].buf].kind = KindOf(writes[i].off)
  /\ spc = "write" => content[sjob.buf].kind = KindOf(sjob.off)
  /\ \A c \in Chunks : image[c].kind = "blank" => image[c].from = 0
  /\ \A c \in Chunks : image[c].kind \in {"full", "short"} => image[c].kind = KindOf(c)

-----------------------------------------------------------------------------
(* The end of the copy.                                                    *)

\* Something failed, or the caller gave up.
Aborted == byCaller \/ errCh # "empty" \/ result \in {"read", "write"}

SettledChunk(c) ==
  image[c].kind = "full" \/ c \in clipped \/ (ElideZeros /\ c \in zeros)

\* Who has stopped, and why.
StopsOK ==
  /\ mpc = "wait_workers" <=> ~writesClosed
  /\ mpc # "wait_workers" => \A w \in Threads : wpc[w] = "done"
  /\ mpc \in {"wait_workers", "wait_writer"} <=> result = "none"
  /\ mpc \notin {"wait_workers", "wait_writer"} => spc = "done"
  /\ jobsClosed => ~dispatching
  /\ cancelled => Aborted \/ mpc \in {"close", "returned"}
  /\ byCaller => cancelled
  /\ spc = "cancel" \/ (\E w \in Threads : wpc[w] = "cancel") => Aborted

\* Unless it was given up, the copy ends where there is nothing left to do, and
\* a chunk that is past everybody is settled.
CompleteOK ==
  ~Aborted =>
    /\ jobsClosed => nextChunk \notin Chunks
    /\ \A w \in Threads : wpc[w] = "done" => jobs = <<>> /\ jobsClosed
    /\ spc = "done" => writes = <<>> /\ writesClosed
    /\ \A c \in Chunks : Finished(c) => SettledChunk(c)

\* What was counted is what was written or elided; the writer counts a chunk one
\* step after it has written it.
CountOK ==
  /\ done + (IF spc = "count" THEN 1 ELSE 0) = Cardinality(Written) + Cardinality(elided)
  /\ reported <= done
  /\ ppc = "done" => DoneClosed /\ reported = done

-----------------------------------------------------------------------------
(* No chunk goes back.                                                     *)

LEMMA WayInit == Init => WayOK
<1> SUFFICES ASSUME Init PROVE WayOK
  OBVIOUS
<1>1. DOMAIN jobs = {} /\ DOMAIN writes = {}
  BY DEF Init
<1>2. /\ \A w \in Threads : wjob[w] = 0
      /\ clipped = {} /\ elided = {} /\ spc = "receive"
      /\ \A c \in Chunks : image[c].kind = "blank"
  BY DEF Init, Blank
<1> QED
  BY <1>1, <1>2 DEF WayOK, JobsWay, WorkersWay, WritesWay, MarksWay

\* A step that moves no chunk keeps WayOK.
LEMMA WayQuiet ==
  ASSUME WayOK, UNCHANGED <<nextChunk, jobs, wjob, wpc, writes, clipped, elided, image>>,
         spc' = "write" => spc = "write" /\ sjob' = sjob
  PROVE  WayOK'
BY DEF WayOK, JobsWay, WorkersWay, WritesWay, MarksWay, Taken, Left, Passed, Finished

\* The chunks that goroutines and channels hold are chunks.
LEMMA WayTypes ==
  ASSUME TypeInv
  PROVE  /\ Chunks \subseteq Nat /\ 0 \notin Chunks /\ nextChunk \in Nat
         /\ \A i \in DOMAIN jobs : jobs[i] \in Chunks
         /\ \A i \in DOMAIN writes : writes[i].off \in Chunks
         /\ \A w \in Threads : wjob[w] # 0 => wjob[w] \in Chunks
         /\ clipped \subseteq Chunks /\ elided \subseteq Chunks
         /\ spc = "write" => sjob.off \in Chunks
<1>1. Chunks = 1 .. NumChunks /\ NumChunks \in Nat
  BY ChunksAssumption DEF Chunks
<1>2. \A i \in DOMAIN jobs : jobs[i] \in Chunks
  <2>1. jobs \in Seq(Chunks)
    BY DEF TypeInv, TypeOK
  <2> QED
    BY <2>1, ChannelFacts, ElementOfSeq
<1>3. \A i \in DOMAIN writes : writes[i].off \in Chunks
  BY EntryType
<1> QED
  BY <1>1, <1>2, <1>3 DEF TypeInv, TypeOK, HandsOK

LEMMA WayDispatch ==
  ASSUME TypeInv, WayOK, Dispatch
  PROVE  WayOK'
<1>1. /\ jobs \in Seq(Chunks) /\ nextChunk \in Chunks /\ jobs' = Append(jobs, nextChunk)
      /\ nextChunk \in Nat /\ nextChunk' = nextChunk + 1
      /\ UNCHANGED <<wjob, wpc, writes, clipped, elided, image, spc, sjob>>
  BY ChunksAssumption DEF Dispatch, TypeInv, TypeOK, Chunks, workerVars, writerVars, outVars
<1> DEFINE n == Len(jobs)
<1>2. /\ n \in Nat /\ DOMAIN jobs = 1 .. n /\ DOMAIN jobs' = 1 .. n + 1
      /\ \A i \in 1 .. n : jobs'[i] = jobs[i]
      /\ jobs'[n + 1] = nextChunk
  BY <1>1, ChannelFacts
<1>3. \A i \in 1 .. n : jobs[i] \in Nat /\ jobs[i] < nextChunk
  BY <1>2, WayTypes DEF WayOK, JobsWay
<1>4. ASSUME NEW c \in Chunks, Taken(c) PROVE Taken(c)'
  <2>1. c \in Nat /\ c < nextChunk /\ \A i \in 1 .. n : jobs[i] # c
    BY <1>2, <1>4, WayTypes DEF Taken
  <2>2. c < nextChunk' /\ jobs'[n + 1] # c /\ \A i \in 1 .. n : jobs'[i] # c
    BY <1>1, <1>2, <2>1
  <2>3. \A i \in DOMAIN jobs' : i \in 1 .. n \/ i = n + 1
    BY <1>2
  <2> QED
    BY <2>2, <2>3 DEF Taken
<1>5. \A c \in Chunks : /\ Left(c) => Left(c)'
                        /\ Passed(c) => Passed(c)'
                        /\ Finished(c) => Finished(c)'
  BY <1>1, <1>4 DEF Left, Passed, Finished
<1>6. JobsWay'
  BY <1>1, <1>2, <1>3 DEF WayOK, JobsWay
<1>7. WorkersWay'
  BY <1>1, <1>4, WayTypes DEF WayOK, WorkersWay
<1>8. WritesWay' /\ MarksWay'
  BY <1>1, <1>4, <1>5, WayTypes DEF WayOK, WritesWay, MarksWay
<1> QED
  BY <1>6, <1>7, <1>8 DEF WayOK

LEMMA WayReceiveJob ==
  ASSUME TypeInv, WayOK, NEW w \in Threads, ReceiveJob(w)
  PROVE  WayOK'
<1>1. /\ jobs \in Seq(Chunks) /\ jobs # <<>> /\ jobs' = Tail(jobs)
      /\ wpc'[w] = "check" /\ wjob'[w] = Head(jobs)
      /\ \A v \in Threads : v # w => wpc'[v] = wpc[v] /\ wjob'[v] = wjob[v]
      /\ UNCHANGED <<nextChunk, writes, clipped, elided, image, spc, sjob>>
  BY DEF ReceiveJob, TypeInv, TypeOK, dispVars, writerVars, outVars
<1> DEFINE n == Len(jobs)
<1>0. PICK j \in Chunks : j = jobs[1]
  BY <1>1, ChannelFacts, WayTypes
<1>2. /\ n \in Nat /\ DOMAIN jobs = 1 .. n /\ DOMAIN jobs' = 1 .. n - 1
      /\ \A i \in 1 .. n - 1 : jobs'[i] = jobs[i + 1]
      /\ Head(jobs) = j /\ 1 \in DOMAIN jobs
  BY <1>0, <1>1, ChannelFacts
<1>3. \A i \in DOMAIN jobs' : i + 1 \in DOMAIN jobs /\ jobs'[i] = jobs[i + 1] /\ i + 1 # 1
  BY <1>2
<1>4. /\ j \in Chunks /\ j # 0
      /\ \A c \in Chunks : Taken(c) => Taken(c)' /\ c # j
      /\ Taken(j)'
  <2>1. j \in Chunks /\ j # 0 /\ j < nextChunk /\ \A i \in DOMAIN jobs : jobs[i] = j => i = 1
    BY <1>0, <1>2, WayTypes DEF WayOK, JobsWay
  <2>2. \A c \in Chunks : Taken(c) => Taken(c)' /\ c # j
    BY <1>0, <1>1, <1>2, <1>3 DEF Taken
  <2>3. Taken(j)'
    BY <1>1, <1>3, <2>1 DEF Taken
  <2> QED
    BY <2>1, <2>2, <2>3
<1>5. \A c \in Chunks : /\ Left(c) => Left(c)'
                        /\ Passed(c) => Passed(c)'
                        /\ Finished(c) => Finished(c)'
  BY <1>1, <1>2, <1>4 DEF Left, Passed, Finished
<1>6. JobsWay'
  BY <1>1, <1>2, <1>3 DEF WayOK, JobsWay
<1>7. WorkersWay'
  <2>1. j \notin clipped /\ \A v \in Threads : wjob[v] # j
    BY <1>4, WayTypes DEF WayOK, WorkersWay, MarksWay
  <2>2. wjob'[w] = j
    BY <1>1, <1>2
  <2>3. ASSUME NEW v \in Threads, v # w
        PROVE  /\ wjob'[v] = wjob[v] /\ wpc'[v] = wpc[v] /\ wjob[v] # j
               /\ wjob[v] # 0 => Taken(wjob[v])'
    BY <1>1, <1>4, <2>1, <2>3, WayTypes DEF WayOK, WorkersWay
  <2> QED
    BY <1>1, <1>4, <2>1, <2>2, <2>3 DEF WayOK, WorkersWay
<1>8. WritesWay' /\ MarksWay'
  BY <1>1, <1>4, <1>5, WayTypes DEF WayOK, WritesWay, MarksWay
<1> QED
  BY <1>6, <1>7, <1>8 DEF WayOK

\* A worker that drops or skips the chunk in hand, or puts its mark on it, is
\* the last to have had it.
LEMMA WayDropped ==
  ASSUME TypeInv, WayOK, NEW w \in Threads,
         UNCHANGED <<nextChunk, jobs, writes, image, spc, sjob>>,
         wjob'[w] = 0, wpc'[w] # "send",
         \A v \in Threads : v # w => wpc'[v] = wpc[v] /\ wjob'[v] = wjob[v],
         clipped' = clipped \/ clipped' = clipped \union {wjob[w]},
         elided' = elided \/ elided' = elided \union {wjob[w]},
         elided' # elided \/ clipped' # clipped => wjob[w] # 0
  PROVE  WayOK'
<1>1. \A c \in Chunks : /\ Taken(c) => Taken(c)'
                        /\ Left(c) => Left(c)'
                        /\ Passed(c) => Passed(c)'
                        /\ Finished(c) => Finished(c)'
  BY WayTypes DEF Taken, Left, Passed, Finished
<1>2. ASSUME NEW c \in Chunks, c = wjob[w], wjob[w] # 0
      PROVE  Taken(c)' /\ Finished(c)'
  <2>1. Taken(c) /\ \A v \in Threads : wjob[v] = c => v = w
    BY <1>2 DEF WayOK, WorkersWay
  <2>2. Taken(c)'
    BY <1>1, <2>1
  <2>3. \A v \in Threads : wjob'[v] # c
    BY <1>2, <2>1
  <2>4. \A i \in DOMAIN writes : writes[i].off # c
    BY <1>2 DEF WayOK, WritesWay, Left
  <2>5. spc = "write" => sjob.off # c
    BY <1>2 DEF WayOK, WritesWay, Left, Passed
  <2> QED
    BY <2>2, <2>3, <2>4, <2>5 DEF Left, Passed, Finished
<1>3. JobsWay'
  BY DEF WayOK, JobsWay
<1>4. WorkersWay'
  BY <1>1, WayTypes DEF WayOK, WorkersWay
<1>5. WritesWay'
  BY <1>1, WayTypes DEF WayOK, WritesWay
<1>6. MarksWay'
  <2>1. \A c \in clipped' : c \in Chunks /\ (c \in clipped \/ (c = wjob[w] /\ wjob[w] # 0))
    BY WayTypes
  <2>2. \A c \in elided' : c \in Chunks /\ (c \in elided \/ (c = wjob[w] /\ wjob[w] # 0))
    BY WayTypes
  <2>3. /\ \A c \in clipped : Taken(c)
        /\ \A c \in elided : Finished(c)
        /\ \A c \in Chunks : image[c].kind # "blank" => Finished(c)
    BY DEF WayOK, MarksWay
  <2> QED
    BY <1>1, <1>2, <2>1, <2>2, <2>3 DEF MarksWay
<1> QED
  BY <1>3, <1>4, <1>5, <1>6 DEF WayOK

LEMMA WayRead ==
  ASSUME TypeInv, WayOK, NEW w \in Threads, ReadData(w)
  PROVE  WayOK'
<1>1. /\ UNCHANGED <<nextChunk, jobs, wjob, writes, elided, image, spc, sjob>>
      /\ wpc[w] = "read" /\ wpc'[w] = "send" /\ wjob[w] \in Chunks
      /\ \A v \in Threads : v # w => wpc'[v] = wpc[v]
      /\ clipped' = clipped \/ clipped' = clipped \union {wjob[w]}
  BY DEF ReadData, NoteIfShort, TypeInv, TypeOK, HandsOK, dispVars, writerVars
<1>2. \A c \in Chunks : /\ Taken(c)' <=> Taken(c)
                        /\ Left(c)' <=> Left(c)
                        /\ Passed(c)' <=> Passed(c)
                        /\ Finished(c)' <=> Finished(c)
  BY <1>1 DEF Taken, Left, Passed, Finished
<1>3. JobsWay'
  BY <1>1 DEF WayOK, JobsWay
<1>4. WorkersWay'
  BY <1>1, <1>2, WayTypes DEF WayOK, WorkersWay
<1>5. WritesWay'
  BY <1>1, <1>2, WayTypes DEF WayOK, WritesWay
<1>6. MarksWay'
  <2>1. \A c \in clipped' : c \in clipped \/ c = wjob[w]
    BY <1>1
  <2>2. Taken(wjob[w]) /\ \A c \in clipped : Taken(c) /\ c \in Chunks
    BY <1>1, WayTypes DEF WayOK, WorkersWay, MarksWay
  <2>3. \A c \in clipped' : Taken(c)'
    BY <1>1, <1>2, <2>1, <2>2
  <2>4. /\ \A c \in elided' : Finished(c)'
        /\ \A c \in Chunks : image'[c].kind # "blank" => Finished(c)'
    BY <1>1, <1>2, WayTypes DEF WayOK, MarksWay
  <2> QED
    BY <2>3, <2>4 DEF MarksWay
<1> QED
  BY <1>3, <1>4, <1>5, <1>6 DEF WayOK

LEMMA WaySend ==
  ASSUME TypeInv, WayOK, NEW w \in Threads, SendWrite(w)
  PROVE  WayOK'
<1> DEFINE n == Len(writes)
<1>1. PICK c \in Chunks : c = wjob[w]
  BY DEF SendWrite, TypeInv, HandsOK
<1>2. /\ UNCHANGED <<nextChunk, jobs, clipped, elided, image, spc, sjob>>
      /\ wjob'[w] = 0 /\ wpc'[w] = "receive"
      /\ \A v \in Threads : v # w => wpc'[v] = wpc[v] /\ wjob'[v] = wjob[v]
  BY DEF SendWrite, TypeInv, TypeOK, dispVars, writerVars, outVars
<1>3. [off |-> c, buf |-> wbuf[w]] \in [off : Chunks, buf : Buffers]
  BY <1>1 DEF SendWrite, TypeInv, HandsOK
<1>4. /\ n \in Nat /\ DOMAIN writes = 1 .. n /\ DOMAIN writes' = 1 .. n + 1
      /\ \A i \in 1 .. n : writes'[i] = writes[i]
      /\ writes'[n + 1].off = c
  <2>1. writes \in Seq([off : Chunks, buf : Buffers])
    BY DEF TypeInv, TypeOK
  <2>2. writes' = Append(writes, [off |-> c, buf |-> wbuf[w]])
    BY <1>1 DEF SendWrite
  <2> QED
    BY <1>3, <2>1, <2>2, ChannelFacts
<1>5. Taken(c) /\ \A v \in Threads : wjob[v] = c => v = w
  BY <1>1, WayTypes DEF WayOK, WorkersWay
<1>6. \A d \in Chunks : Taken(d) => Taken(d)'
  BY <1>2 DEF Taken
<1>7. \A d \in Chunks : /\ Left(d) => Left(d)' /\ d # c
                        /\ Passed(d) => Passed(d)'
                        /\ Finished(d) => Finished(d)'
  <2>1. \A d \in Chunks : Left(d) => Left(d)' /\ d # c
    BY <1>1, <1>2, <1>6, WayTypes DEF Left
  <2>2. \A d \in Chunks : Passed(d) => Passed(d)'
    BY <1>4, <2>1 DEF Passed
  <2> QED
    BY <1>2, <2>1, <2>2 DEF Finished
<1>8. Left(c)'
  <2>1. \A v \in Threads : wjob'[v] # c
    BY <1>2, <1>5, WayTypes
  <2> QED
    BY <1>5, <1>6, <2>1 DEF Left
<1>9. JobsWay'
  BY <1>2 DEF WayOK, JobsWay
<1>10. WorkersWay'
  BY <1>2, <1>6, WayTypes DEF WayOK, WorkersWay
<1>11. WritesWay'
  <2>1. \A i \in 1 .. n : Left(writes[i].off) /\ writes[i].off \in Chunks
    BY <1>4, WayTypes DEF WayOK, WritesWay
  <2>2. ASSUME NEW i \in DOMAIN writes' PROVE Left(writes[i].off)'
    <3>1. CASE i = n + 1
      BY <1>4, <1>8, <3>1 DEF Left, Taken
    <3>2. CASE i \in 1 .. n
      <4>1. PICK d \in Chunks : d = writes[i].off
        BY <2>1, <3>2
      <4>2. writes'[i].off = d /\ Left(d)'
        BY <1>4, <1>7, <2>1, <3>2, <4>1
      <4> QED
        BY <4>2 DEF Left, Taken
    <3> QED
      BY <1>4, <3>1, <3>2
  <2>3. ASSUME NEW i \in DOMAIN writes', NEW j \in DOMAIN writes',
               writes'[i].off = writes'[j].off
        PROVE  i = j
    <3>1. CASE i \in 1 .. n /\ j \in 1 .. n
      BY <1>4, <2>3, <3>1 DEF WayOK, WritesWay
    <3>2. CASE i = n + 1 \/ j = n + 1
      BY <1>4, <1>7, <2>1, <2>3, <3>2
    <3> QED
      BY <1>4, <3>1, <3>2
  <2>4. spc' = "write" => Passed(sjob.off)'
    BY <1>2, <1>7, WayTypes DEF WayOK, WritesWay
  <2> QED
    BY <2>2, <2>3, <2>4 DEF WritesWay
<1>12. MarksWay'
  BY <1>2, <1>6, <1>7, WayTypes DEF WayOK, MarksWay
<1> QED
  BY <1>9, <1>10, <1>11, <1>12 DEF WayOK

LEMMA WayReceiveWrite ==
  ASSUME TypeInv, WayOK, ReceiveWrite
  PROVE  WayOK'
<1> DEFINE n == Len(writes)
<1>1. /\ UNCHANGED <<nextChunk, jobs, wjob, wpc, clipped, elided, image>>
      /\ spc = "receive" /\ spc' = "write"
      /\ writes \in Seq([off : Chunks, buf : Buffers]) /\ writes # <<>>
  BY DEF ReceiveWrite, TypeInv, TypeOK, dispVars, workerVars, outVars
<1>2. /\ n \in Nat /\ DOMAIN writes = 1 .. n /\ DOMAIN writes' = 1 .. n - 1
      /\ \A i \in 1 .. n - 1 : writes'[i] = writes[i + 1]
      /\ sjob' = writes[1] /\ 1 \in DOMAIN writes
  BY <1>1, ChannelFacts DEF ReceiveWrite
<1>3. \A i \in DOMAIN writes' : i + 1 \in DOMAIN writes /\ writes'[i] = writes[i + 1] /\ i + 1 # 1
  BY <1>2
<1>4. PICK c \in Chunks : c = writes[1].off
  BY <1>2, WayTypes
<1>5. \A d \in Chunks : /\ Taken(d) => Taken(d)'
                        /\ Left(d) => Left(d)'
  BY <1>1 DEF Taken, Left
<1>6. \A d \in Chunks : Passed(d) => Passed(d)' /\ d # c
  BY <1>2, <1>3, <1>4, <1>5 DEF Passed
<1>7. \A d \in Chunks : Finished(d) => Finished(d)'
  BY <1>1, <1>2, <1>4, <1>6 DEF Finished
<1>8. Passed(c)'
  <2>1. Left(c)
    BY <1>2, <1>4 DEF WayOK, WritesWay
  <2>2. \A i \in DOMAIN writes' : writes'[i].off # c
    BY <1>2, <1>3, <1>4 DEF WayOK, WritesWay
  <2> QED
    BY <1>5, <2>1, <2>2 DEF Passed
<1>9. JobsWay'
  BY <1>1 DEF WayOK, JobsWay
<1>10. WorkersWay'
  BY <1>1, <1>5, WayTypes DEF WayOK, WorkersWay
<1>11. WritesWay'
  <2>1. ASSUME NEW i \in DOMAIN writes' PROVE Left(writes[i].off)'
    <3>1. PICK d \in Chunks : d = writes[i + 1].off
      BY <1>3, WayTypes
    <3>2. Left(d)' /\ writes'[i].off = d
      BY <1>3, <1>5, <3>1 DEF WayOK, WritesWay
    <3> QED
      BY <3>2 DEF Left, Taken
  <2>2. ASSUME NEW i \in DOMAIN writes', NEW j \in DOMAIN writes',
               writes'[i].off = writes'[j].off
        PROVE  i = j
    <3>1. i + 1 = j + 1
      BY <1>3, <2>2 DEF WayOK, WritesWay
    <3> QED
      BY <1>2, <3>1
  <2>3. Passed(sjob.off)'
    BY <1>2, <1>4, <1>8 DEF Passed, Left, Taken
  <2> QED
    BY <2>1, <2>2, <2>3 DEF WritesWay
<1>12. MarksWay'
  BY <1>1, <1>5, <1>7, WayTypes DEF WayOK, MarksWay
<1> QED
  BY <1>9, <1>10, <1>11, <1>12 DEF WayOK

\* The writer is the last to have had the chunk that it wrote, or failed to write.
LEMMA WayWritten ==
  ASSUME TypeInv, WayOK, spc = "write", spc' # "write",
         UNCHANGED <<nextChunk, jobs, wjob, wpc, writes, clipped, elided>>,
         \A c \in Chunks : c # sjob.off => image'[c] = image[c]
  PROVE  WayOK'
<1>1. \A c \in Chunks : /\ Taken(c) => Taken(c)'
                        /\ Left(c) => Left(c)'
                        /\ Passed(c) => Passed(c)' /\ Finished(c)'
                        /\ Finished(c) => Finished(c)'
  BY DEF Taken, Left, Passed, Finished
<1>2. sjob.off \in Chunks /\ Passed(sjob.off)
  BY WayTypes DEF WayOK, WritesWay
<1>3. JobsWay' /\ WorkersWay'
  BY <1>1, WayTypes DEF WayOK, JobsWay, WorkersWay
<1>4. WritesWay'
  BY <1>1, WayTypes DEF WayOK, WritesWay
<1>5. \A c \in Chunks : image'[c].kind # "blank" => Finished(c)'
  BY <1>1, <1>2 DEF WayOK, MarksWay
<1>6. MarksWay'
  BY <1>1, <1>5, WayTypes DEF WayOK, MarksWay
<1> QED
  BY <1>3, <1>4, <1>6 DEF WayOK

LEMMA WayStep == TypeInv /\ WayOK /\ [Next]_vars => WayOK'
<1> SUFFICES ASSUME TypeInv, WayOK, [Next]_vars PROVE WayOK'
  OBVIOUS
<1> USE DEF dispVars, workerVars, writerVars, outVars
<1>1. ASSUME NEW w \in Threads, Worker(w) PROVE WayOK'
  <2>1. CASE ReceiveJob(w)
    BY <2>1, WayReceiveJob
  <2>2. CASE WorkerEnd(w) \/ ReadFails(w) \/ AbandonWrite(w)
    <3>1. /\ wjob'[w] = 0 /\ wpc'[w] # "send"
          /\ \A v \in Threads : v # w => wpc'[v] = wpc[v] /\ wjob'[v] = wjob[v]
          /\ UNCHANGED <<nextChunk, jobs, writes, image, spc, sjob, clipped, elided>>
      BY <2>2 DEF WorkerEnd, ReadFails, AbandonWrite, AfterSetErr, TypeInv, TypeOK
    <3> QED
      BY <3>1, WayDropped
  <2>3. CASE ReadNothing(w) \/ ReadElided(w)
    <3>1. /\ wjob[w] # 0 /\ wjob'[w] = 0 /\ wpc'[w] # "send"
          /\ \A v \in Threads : v # w => wpc'[v] = wpc[v] /\ wjob'[v] = wjob[v]
          /\ UNCHANGED <<nextChunk, jobs, writes, image, spc, sjob>>
          /\ clipped' = clipped \/ clipped' = clipped \union {wjob[w]}
          /\ elided' = elided \/ elided' = elided \union {wjob[w]}
      BY <2>3, WayTypes DEF ReadNothing, ReadElided, NoteIfShort, TypeInv, TypeOK, HandsOK
    <3> QED
      BY <3>1, WayDropped
  <2>4. CASE ReadData(w)
    BY <2>4, WayRead
  <2>5. CASE SendWrite(w)
    BY <2>5, WaySend
  <2>6. CASE CheckContext(w) \/ WorkerCancel(w)
    <3>1. /\ UNCHANGED <<nextChunk, jobs, wjob, writes, clipped, elided, image, spc, sjob>>
          /\ wpc[w] # "send"
          /\ wpc' = [wpc EXCEPT ![w] = "read"] \/ wpc[w] = "cancel"
          /\ \A v \in Threads : v # w => wpc'[v] = wpc[v]
      BY <2>6 DEF CheckContext, WorkerCancel, TypeInv, TypeOK
    <3>2. wjob'[w] # 0 => wpc'[w] \in {"check", "read", "send"}
      BY <3>1, WayTypes DEF WayOK, WorkersWay, TypeInv, TypeOK
    <3>3. WorkersWay'
      BY <3>1, <3>2 DEF WayOK, WorkersWay, Taken
    <3> QED
      BY <3>1, <3>3 DEF WayOK, JobsWay, WritesWay, MarksWay, Taken, Left, Passed, Finished
  <2> QED
    BY <1>1, <2>1, <2>2, <2>3, <2>4, <2>5, <2>6 DEF Worker
<1>2. CASE Writer
  <2>1. CASE ReceiveWrite
    BY <2>1, WayReceiveWrite
  <2>2. CASE WriteChunk \/ WriteFails
    <3>1. /\ spc = "write" /\ spc' # "write"
          /\ UNCHANGED <<nextChunk, jobs, wjob, wpc, writes, clipped, elided>>
          /\ \A c \in Chunks : c # sjob.off => image'[c] = image[c]
      BY <2>2 DEF WriteChunk, WriteFails, AfterSetErr, TypeInv, TypeOK
    <3> QED
      BY <3>1, WayWritten
  <2>3. CASE WriterEnd \/ CountChunk \/ WriterCancel
    BY <2>3, WayQuiet DEF WriterEnd, CountChunk, WriterCancel
  <2> QED
    BY <1>2, <2>1, <2>2, <2>3 DEF Writer
<1>3. CASE Dispatch
  BY <1>3, WayDispatch
<1>4. CASE DispatchEnd \/ Main \/ Render \/ FinalRender \/ CallerCancels \/ UNCHANGED vars
  BY <1>4, WayQuiet DEF DispatchEnd, Main, CloseWrites, TakeResult, Unwind, CloseOutput,
              Render, FinalRender, CallerCancels, vars
<1> QED
  BY <1>1, <1>2, <1>3, <1>4 DEF Next, Terminated

-----------------------------------------------------------------------------
(* What a buffer that travels holds.                                       *)

LEMMA KindInit == Init => KindOK
BY DEF Init, KindOK, Blank

\* A step that notes no part, moves no buffer and starts no write keeps KindOK.
LEMMA KindQuiet ==
  ASSUME KindOK,
         UNCHANGED <<clipped, wbuf, writes, sjob, content, image>>,
         \A v \in Threads : wpc'[v] = "send" => wpc[v] = "send" /\ wjob'[v] = wjob[v],
         spc' = "write" => spc = "write"
  PROVE  KindOK'
BY DEF KindOK, KindOf

\* A chunk with a worker that has not read it is not yet noted, and nobody else
\* has anything of it.
LEMMA AloneInHand ==
  ASSUME TypeInv, WayOK, NEW w \in Threads, NEW c \in Chunks, c = wjob[w], c # 0
  PROVE  /\ wpc[w] # "send" => c \notin clipped
         /\ \A v \in Threads : v # w => wjob[v] # c
         /\ \A i \in DOMAIN writes : writes[i].off # c
         /\ spc = "write" => sjob.off # c
         /\ image[c].kind = "blank" /\ c \notin elided
<1>1. ~Left(c) /\ ~Passed(c) /\ ~Finished(c)
  BY DEF Left, Passed, Finished
<1> QED
  BY <1>1 DEF WayOK, WorkersWay, WritesWay, MarksWay

\* The kind of a chunk in another place is the same when this one is noted.
LEMMA KindNoted ==
  ASSUME TypeInv, WayOK, KindOK, NEW w \in Threads, NEW c \in Chunks, c = wjob[w],
         wpc[w] = "read", wpc'[w] # "send",
         \A v \in Threads : v # w => wpc'[v] = wpc[v] /\ wjob'[v] = wjob[v],
         UNCHANGED <<wbuf, writes, sjob, spc, content, image>>,
         clipped' = clipped \/ clipped' = clipped \union {c}
  PROVE  KindOK'
<1>1. \A d : d # c => (KindOf(d)' = KindOf(d))
  BY DEF KindOf
<1>2. /\ \A v \in Threads : v # w => wjob[v] # c
      /\ \A i \in DOMAIN writes : writes[i].off # c
      /\ spc = "write" => sjob.off # c
      /\ image[c].kind = "blank"
  BY AloneInHand, WayTypes
<1> QED
  BY <1>1, <1>2 DEF KindOK, KindOf

LEMMA KindRead ==
  ASSUME TypeInv, BufferInv, WayOK, KindOK, NEW w \in Threads, ReadData(w)
  PROVE  KindOK'
<1>1. PICK b \in pool, kind \in {"full", "short"} :
        /\ wbuf' = [wbuf EXCEPT ![w] = b]
        /\ content' = [content EXCEPT ![b] = [from |-> wjob[w], kind |-> kind]]
        /\ NoteIfShort(w, kind)
  BY DEF ReadData
<1>2. /\ b \in Buffers /\ wbuf'[w] = b /\ \A v \in Threads : v # w => wbuf'[v] = wbuf[v]
      /\ content'[b].kind = kind
      /\ \A d \in Buffers : d # b => content'[d] = content[d]
      /\ UNCHANGED <<wjob, writes, sjob, spc, image>>
      /\ \A v \in Threads : v # w => wpc'[v] = wpc[v]
      /\ wpc[w] = "read" /\ wpc'[w] = "send"
  BY <1>1 DEF ReadData, TypeInv, TypeOK, writerVars
<1>3. PICK c \in Chunks : c = wjob[w] /\ c # 0
  BY <1>2, WayTypes DEF TypeInv, HandsOK
<1>4. /\ c \notin clipped
      /\ \A v \in Threads : v # w => wjob[v] # c
      /\ \A i \in DOMAIN writes : writes[i].off # c
      /\ spc = "write" => sjob.off # c
      /\ image[c].kind = "blank"
  BY <1>2, <1>3, AloneInHand
<1>5. /\ KindOf(c)' = kind /\ \A d : d # c => (KindOf(d)' = KindOf(d))
  BY <1>1, <1>3, <1>4 DEF NoteIfShort, KindOf
<1>6. ASSUME NEW v \in Threads, wpc'[v] = "send"
      PROVE  content'[wbuf'[v]].kind = KindOf(wjob[v])'
  <2>1. CASE v = w
    BY <1>2, <1>3, <1>5, <2>1 DEF KindOf
  <2>2. CASE v # w
    <3>1. wpc[v] = "send" /\ wbuf[v] \in Buffers /\ wbuf[v] # b /\ wjob[v] # c
      BY <1>2, <1>4, <1>6, <2>2, BuffersAssumption
         DEF TypeInv, HandsOK, BufferInv, BufferExclusive
    <3>2. content[wbuf[v]].kind = KindOf(wjob[v])
      BY <3>1 DEF KindOK
    <3> QED
      BY <1>2, <1>5, <2>2, <3>1, <3>2 DEF KindOf
  <2> QED
    BY <2>1, <2>2
<1>7. ASSUME NEW i \in DOMAIN writes
      PROVE  content'[writes'[i].buf].kind = KindOf(writes[i].off)'
  <2>1. writes[i].buf \in Buffers /\ writes[i].buf # b /\ writes[i].off # c
    BY <1>4, EntryType DEF BufferInv, BufferExclusive
  <2> QED
    BY <1>2, <1>5, <2>1 DEF KindOK, KindOf
<1>8. spc' = "write" => content'[sjob'.buf].kind = KindOf(sjob.off)'
  BY <1>2, <1>4, <1>5 DEF KindOK, KindOf, TypeInv, HandsOK, BufferInv, BufferExclusive
<1>9. \A d \in Chunks : image'[d].kind \in {"full", "short"} => image'[d].kind = KindOf(d)'
  BY <1>2, <1>4, <1>5 DEF KindOK
<1> QED
  BY <1>2, <1>6, <1>7, <1>8, <1>9 DEF KindOK

LEMMA KindSend ==
  ASSUME TypeInv, KindOK, NEW w \in Threads, SendWrite(w)
  PROVE  KindOK'
<1> DEFINE n == Len(writes)
           entry == [off |-> wjob[w], buf |-> wbuf[w]]
<1>1. /\ UNCHANGED <<content, clipped, image, spc, sjob>>
      /\ wpc[w] = "send" /\ wpc'[w] = "receive"
      /\ \A v \in Threads : v # w => /\ wpc'[v] = wpc[v]
                                     /\ wjob'[v] = wjob[v] /\ wbuf'[v] = wbuf[v]
      /\ entry \in [off : Chunks, buf : Buffers]
      /\ writes \in Seq([off : Chunks, buf : Buffers])
      /\ writes' = Append(writes, entry)
  BY DEF SendWrite, TypeInv, TypeOK, HandsOK, writerVars, bufVars, outVars
<1>2. /\ n \in Nat /\ DOMAIN writes = 1 .. n /\ DOMAIN writes' = 1 .. n + 1
      /\ \A i \in 1 .. n : writes'[i] = writes[i]
      /\ writes'[n + 1] = entry
  BY <1>1, ChannelFacts
<1>3. ASSUME NEW i \in DOMAIN writes'
      PROVE  content'[writes'[i].buf].kind = KindOf(writes[i].off)'
  BY <1>1, <1>2 DEF KindOK, KindOf
<1> QED
  BY <1>1, <1>3 DEF KindOK, KindOf

LEMMA KindAbandon ==
  ASSUME TypeInv, BufferInv, KindOK, NEW w \in Threads, AbandonWrite(w)
  PROVE  KindOK'
<1>1. /\ UNCHANGED <<writes, sjob, spc, image, clipped>>
      /\ wpc'[w] = "done"
      /\ \A v \in Threads : v # w => /\ wbuf'[v] = wbuf[v]
                                     /\ wpc'[v] = wpc[v] /\ wjob'[v] = wjob[v]
      /\ \A d \in Buffers : d # wbuf[w] => content'[d] = content[d]
  BY DEF AbandonWrite, Release, TypeInv, TypeOK, writerVars, outVars
<1>2. wbuf[w] \in Buffers /\ wbuf[w] # NoBuffer
  BY BuffersAssumption DEF TypeInv, HandsOK, AbandonWrite
<1>3. \A v \in Threads : wpc'[v] = "send" => wpc[v] = "send" /\ v # w
                           /\ wbuf[v] \in Buffers /\ wbuf[v] # wbuf[w]
  BY <1>1, <1>2 DEF TypeInv, HandsOK, BufferInv, BufferExclusive
<1>4. \A i \in DOMAIN writes : writes[i].buf \in Buffers /\ writes[i].buf # wbuf[w]
  BY EntryType DEF BufferInv, BufferExclusive
<1>5. spc = "write" => sjob.buf \in Buffers /\ sjob.buf # wbuf[w]
  BY <1>2 DEF TypeInv, HandsOK, BufferInv, BufferExclusive
<1> QED
  BY <1>1, <1>3, <1>4, <1>5 DEF KindOK, KindOf

LEMMA KindReceiveWrite ==
  ASSUME TypeInv, KindOK, ReceiveWrite
  PROVE  KindOK'
<1> DEFINE n == Len(writes)
<1>1. /\ UNCHANGED <<wbuf, wpc, wjob, content, clipped, image>>
      /\ writes \in Seq([off : Chunks, buf : Buffers]) /\ writes # <<>>
  BY DEF ReceiveWrite, TypeInv, TypeOK, workerVars, bufVars, outVars
<1>2. /\ n \in Nat /\ DOMAIN writes = 1 .. n /\ DOMAIN writes' = 1 .. n - 1
      /\ \A i \in 1 .. n - 1 : writes'[i] = writes[i + 1]
      /\ sjob' = writes[1] /\ 1 \in DOMAIN writes
  BY <1>1, ChannelFacts DEF ReceiveWrite
<1>3. \A i \in DOMAIN writes' : i + 1 \in DOMAIN writes /\ writes'[i] = writes[i + 1]
  BY <1>2
<1> QED
  BY <1>1, <1>2, <1>3 DEF KindOK, KindOf

LEMMA KindWrite ==
  ASSUME TypeInv, BufferInv, KindOK, WriteChunk
  PROVE  KindOK'
<1>1. /\ UNCHANGED <<wbuf, wpc, wjob, writes, sjob, content, clipped>>
      /\ sjob.off \in Chunks /\ spc = "write" /\ spc' = "count"
      /\ image'[sjob.off] = content[sjob.buf]
      /\ \A c \in Chunks : c # sjob.off => image'[c] = image[c]
  BY DEF WriteChunk, TypeInv, TypeOK, HandsOK, workerVars, bufVars
<1>2. image'[sjob.off].kind = KindOf(sjob.off) /\ KindOf(sjob.off) # "blank"
  BY <1>1 DEF KindOK, KindOf
<1> QED
  BY <1>1, <1>2 DEF KindOK, KindOf

\* pool.Put by the writer.
LEMMA KindRelease ==
  ASSUME TypeInv, BufferInv, KindOK, spc \in {"write", "count"}, Release(sjob.buf),
         UNCHANGED <<writes, wbuf, wpc, wjob, clipped>>, spc' # "write",
         \A c \in Chunks : image'[c] = image[c] \/ image'[c].kind = "torn"
  PROVE  KindOK'
<1>1. sjob.buf \in Buffers /\ sjob.buf # NoBuffer
  BY BuffersAssumption DEF TypeInv, HandsOK
<1>2. \A d \in Buffers : d # sjob.buf => content'[d] = content[d]
  BY DEF Release, TypeInv, TypeOK
<1>3. \A i \in DOMAIN writes : writes[i].buf \in Buffers /\ writes[i].buf # sjob.buf
  BY EntryType DEF BufferInv, BufferExclusive
<1>4. \A v \in Threads : wpc[v] = "send" => wbuf[v] \in Buffers /\ wbuf[v] # sjob.buf
  BY BuffersAssumption DEF TypeInv, HandsOK, BufferInv, BufferExclusive
<1> QED
  BY <1>2, <1>3, <1>4 DEF KindOK, KindOf

LEMMA KindStep == TypeInv /\ BufferInv /\ WayOK /\ KindOK /\ [Next]_vars => KindOK'
<1> SUFFICES ASSUME TypeInv, BufferInv, WayOK, KindOK, [Next]_vars PROVE KindOK'
  OBVIOUS
<1> USE DEF workerVars, writerVars, bufVars, outVars
<1>1. ASSUME NEW w \in Threads, Worker(w) PROVE KindOK'
  <2>1. CASE ReceiveJob(w) \/ WorkerEnd(w) \/ CheckContext(w) \/ ReadFails(w)
             \/ WorkerCancel(w)
    <3>1. UNCHANGED <<clipped, wbuf, writes, sjob, spc, content, image>>
      BY <2>1 DEF ReceiveJob, WorkerEnd, CheckContext, ReadFails, WorkerCancel
    <3>2. /\ wpc'[w] # "send"
          /\ \A v \in Threads : v # w => wpc'[v] = wpc[v] /\ wjob'[v] = wjob[v]
      BY <2>1 DEF TypeInv, TypeOK, ReceiveJob, WorkerEnd, CheckContext, ReadFails,
                  WorkerCancel, AfterSetErr
    <3> QED
      BY <3>1, <3>2, KindQuiet
  <2>2. CASE ReadNothing(w) \/ ReadElided(w)
    <3>1. PICK c \in Chunks : c = wjob[w]
      BY <2>2 DEF ReadNothing, ReadElided, TypeInv, HandsOK
    <3>2. /\ wpc[w] = "read" /\ wpc'[w] # "send"
          /\ \A v \in Threads : v # w => wpc'[v] = wpc[v] /\ wjob'[v] = wjob[v]
          /\ UNCHANGED <<wbuf, writes, sjob, spc, content, image>>
          /\ clipped' = clipped \/ clipped' = clipped \union {c}
      BY <2>2, <3>1 DEF ReadNothing, ReadElided, NoteIfShort, TypeInv, TypeOK
    <3> QED
      BY <3>1, <3>2, KindNoted
  <2>3. CASE ReadData(w)
    BY <2>3, KindRead
  <2>4. CASE SendWrite(w)
    BY <2>4, KindSend
  <2>5. CASE AbandonWrite(w)
    BY <2>5, KindAbandon
  <2> QED
    BY <1>1, <2>1, <2>2, <2>3, <2>4, <2>5 DEF Worker
<1>2. CASE Writer
  <2>1. CASE ReceiveWrite
    BY <2>1, KindReceiveWrite
  <2>2. CASE WriteChunk
    BY <2>2, KindWrite
  <2>3. CASE CountChunk
    BY <2>3, KindRelease DEF CountChunk
  <2>4. CASE WriteFails
    <3>1. /\ spc = "write" /\ spc' # "write" /\ Release(sjob.buf)
          /\ UNCHANGED <<writes, wbuf, wpc, wjob, clipped>>
          /\ \A c \in Chunks : image'[c] = image[c] \/ image'[c].kind = "torn"
      BY <2>4 DEF WriteFails, AfterSetErr, TypeInv, TypeOK, HandsOK
    <3> QED
      BY <3>1, KindRelease
  <2>5. CASE WriterEnd \/ WriterCancel
    BY <2>5, KindQuiet DEF WriterEnd, WriterCancel
  <2> QED
    BY <1>2, <2>1, <2>2, <2>3, <2>4, <2>5 DEF Writer
<1>3. CASE Dispatch \/ DispatchEnd \/ Main \/ Render \/ FinalRender
           \/ CallerCancels \/ UNCHANGED vars
  <2>1. UNCHANGED <<clipped, wbuf, wpc, wjob, writes, sjob, spc, content, image>>
    BY <1>3 DEF Dispatch, DispatchEnd, Main, CloseWrites, TakeResult, Unwind,
                CloseOutput, Render, FinalRender, CallerCancels, vars
  <2> QED
    BY <2>1, KindQuiet
<1> QED
  BY <1>1, <1>2, <1>3 DEF Next, Terminated

-----------------------------------------------------------------------------
(* Who stops, and when.                                                    *)

LEMMA StopsInit == Init => StopsOK
BY DEF Init, StopsOK

LEMMA StopsStep == TypeInv /\ StopsOK /\ [Next]_vars => StopsOK' /\ (Aborted => Aborted')
<1> SUFFICES ASSUME TypeInv, StopsOK, [Next]_vars
             PROVE  StopsOK' /\ (Aborted => Aborted')
  OBVIOUS
<1> USE DEF StopsOK, Aborted, dispVars, workerVars, writerVars, mainVars, ctxVars
<1>0. wpc \in [Threads -> {"receive", "check", "read", "send", "cancel", "done"}]
      /\ errCh \in {"empty", "read", "write"}
  BY DEF TypeInv, TypeOK
<1>1. CASE Dispatch
  BY <1>1 DEF Dispatch
<1>2. CASE DispatchEnd
  BY <1>2 DEF DispatchEnd
<1>3. ASSUME NEW w \in Threads, Worker(w) PROVE StopsOK' /\ (Aborted => Aborted')
  <2>1. wpc[w] # "done" /\ mpc = "wait_workers"
    BY <1>3 DEF Worker, ReceiveJob, WorkerEnd, CheckContext, ReadFails, ReadNothing,
                ReadElided, ReadData, SendWrite, AbandonWrite, WorkerCancel
  <2>2. UNCHANGED <<dispVars, jobsClosed, writesClosed, spc, mainVars, byCaller>>
    BY <1>3 DEF Worker, ReceiveJob, WorkerEnd, CheckContext, ReadFails, ReadNothing,
                ReadElided, ReadData, SendWrite, AbandonWrite, WorkerCancel
  <2>3. /\ errCh' = errCh \/ errCh' \in {"read", "write"}
        /\ cancelled' => cancelled \/ wpc[w] = "cancel"
        /\ cancelled => cancelled'
        /\ \A v \in Threads : wpc'[v] = "cancel" => wpc[v] = "cancel" \/ errCh' # "empty"
    BY <1>0, <1>3 DEF Worker, ReceiveJob, WorkerEnd, CheckContext, ReadFails, ReadNothing,
                ReadElided, ReadData, SendWrite, AbandonWrite, WorkerCancel, SetErr, AfterSetErr
  <2> QED
    BY <2>1, <2>2, <2>3
<1>4. CASE Writer
  <2>1. UNCHANGED <<dispVars, jobsClosed, writesClosed, wpc, mainVars, byCaller>>
    BY <1>4 DEF Writer, ReceiveWrite, WriterEnd, WriteChunk, CountChunk, WriteFails,
                WriterCancel
  <2>2. /\ spc # "done"
        /\ errCh' = errCh \/ errCh' \in {"read", "write"}
        /\ cancelled' => cancelled \/ spc = "cancel"
        /\ cancelled => cancelled'
        /\ spc' = "cancel" => spc = "cancel" \/ errCh' # "empty"
    BY <1>4 DEF Writer, ReceiveWrite, WriterEnd, WriteChunk, CountChunk, WriteFails,
                WriterCancel, SetErr, AfterSetErr
  <2> QED
    BY <2>1, <2>2
<1>5. CASE CloseWrites
  BY <1>5 DEF CloseWrites
<1>6. CASE TakeResult
  BY <1>0, <1>6 DEF TakeResult
<1>7. CASE Unwind
  BY <1>7 DEF Unwind
<1>8. CASE CloseOutput
  BY <1>8 DEF CloseOutput
<1>9. CASE Render \/ FinalRender \/ UNCHANGED vars
  BY <1>9 DEF Render, FinalRender, vars
<1>10. CASE CallerCancels
  BY <1>10 DEF CallerCancels
<1> QED
  BY <1>1, <1>2, <1>3, <1>4, <1>5, <1>6, <1>7, <1>8, <1>9, <1>10 DEF Next, Main, Terminated

-----------------------------------------------------------------------------
(* Nothing is left out.                                                    *)

\* A chunk that moves on between goroutines is not past them all.
LEMMA MovedNotFinished ==
  ASSUME TypeInv, WayOK, NEW c \in Chunks, Finished(c)',
         \/ Dispatch \/ ReceiveWrite
         \/ \E w \in Threads : ReceiveJob(w) \/ SendWrite(w)
  PROVE  Finished(c)
<1>1. CASE Dispatch
  <2>1. /\ jobs \in Seq(Chunks) /\ nextChunk \in Chunks /\ jobs' = Append(jobs, nextChunk)
        /\ nextChunk' = nextChunk + 1
        /\ UNCHANGED <<wjob, writes, spc, sjob>>
    BY <1>1 DEF Dispatch, TypeInv, TypeOK, workerVars, writerVars
  <2>2. /\ Len(jobs) \in Nat /\ DOMAIN jobs = 1 .. Len(jobs)
        /\ DOMAIN jobs' = 1 .. Len(jobs) + 1
        /\ \A i \in 1 .. Len(jobs) : jobs'[i] = jobs[i]
        /\ jobs'[Len(jobs) + 1] = nextChunk
    BY <2>1, ChannelFacts
  <2>3. c # nextChunk /\ \A i \in DOMAIN jobs : jobs[i] # c
    BY <2>2 DEF Finished, Passed, Left, Taken
  <2>4. c \in Nat /\ nextChunk \in Nat /\ c < nextChunk'
    BY WayTypes DEF Finished, Passed, Left, Taken
  <2> QED
    BY <2>1, <2>3, <2>4 DEF Finished, Passed, Left, Taken
<1>2. ASSUME NEW w \in Threads, ReceiveJob(w) PROVE Finished(c)
  <2>1. /\ jobs \in Seq(Chunks) /\ jobs # <<>> /\ jobs' = Tail(jobs)
        /\ wpc[w] = "receive" /\ wjob'[w] = Head(jobs)
        /\ \A v \in Threads : v # w => wjob'[v] = wjob[v]
        /\ UNCHANGED <<nextChunk, writes, spc, sjob>>
    BY <1>2 DEF ReceiveJob, TypeInv, TypeOK, dispVars, writerVars
  <2>2. /\ Len(jobs) \in Nat /\ DOMAIN jobs = 1 .. Len(jobs)
        /\ DOMAIN jobs' = 1 .. Len(jobs) - 1
        /\ \A i \in 1 .. Len(jobs) - 1 : jobs'[i] = jobs[i + 1]
        /\ Head(jobs) = jobs[1]
    BY <2>1, ChannelFacts
  <2>3. jobs[1] # c /\ \A i \in DOMAIN jobs' : jobs[i + 1] # c
    BY <2>1, <2>2 DEF Finished, Passed, Left, Taken
  <2>4. \A i \in DOMAIN jobs : jobs[i] # c
    <3>1. ASSUME NEW i \in DOMAIN jobs, i # 1
          PROVE  i - 1 \in DOMAIN jobs' /\ (i - 1) + 1 = i
      BY <2>2, <3>1
    <3> QED
      BY <2>3, <3>1
  <2>5. wjob[w] = 0 /\ c # 0
    BY <2>1, WayTypes DEF WayOK, WorkersWay
  <2> QED
    BY <2>1, <2>4, <2>5 DEF Finished, Passed, Left, Taken
<1>3. ASSUME NEW w \in Threads, SendWrite(w) PROVE Finished(c)
  <2> DEFINE entry == [off |-> wjob[w], buf |-> wbuf[w]]
  <2>1. /\ entry \in [off : Chunks, buf : Buffers]
        /\ writes \in Seq([off : Chunks, buf : Buffers])
        /\ writes' = Append(writes, entry)
        /\ \A v \in Threads : v # w => wjob'[v] = wjob[v]
        /\ UNCHANGED <<nextChunk, jobs, spc, sjob>>
    BY <1>3 DEF SendWrite, TypeInv, TypeOK, HandsOK, dispVars, writerVars
  <2>2. /\ Len(writes) \in Nat /\ DOMAIN writes = 1 .. Len(writes)
        /\ DOMAIN writes' = 1 .. Len(writes) + 1
        /\ \A i \in 1 .. Len(writes) : writes'[i] = writes[i]
        /\ writes'[Len(writes) + 1] = entry
    BY <2>1, ChannelFacts
  <2>3. wjob[w] # c /\ \A i \in DOMAIN writes : writes[i].off # c
    BY <2>2 DEF Finished, Passed
  <2> QED
    BY <2>1, <2>3 DEF Finished, Passed, Left, Taken
<1>4. CASE ReceiveWrite
  <2>1. /\ UNCHANGED <<nextChunk, jobs, wjob>> /\ spc = "receive" /\ spc' = "write"
        /\ writes \in Seq([off : Chunks, buf : Buffers]) /\ writes # <<>>
    BY <1>4 DEF ReceiveWrite, TypeInv, TypeOK, dispVars, workerVars
  <2>2. /\ Len(writes) \in Nat /\ DOMAIN writes = 1 .. Len(writes)
        /\ DOMAIN writes' = 1 .. Len(writes) - 1
        /\ \A i \in 1 .. Len(writes) - 1 : writes'[i] = writes[i + 1]
        /\ sjob' = writes[1]
    BY <1>4, <2>1, ChannelFacts DEF ReceiveWrite
  <2>3. writes[1].off # c /\ \A i \in DOMAIN writes' : writes[i + 1].off # c
    BY <2>1, <2>2 DEF Finished, Passed
  <2>4. \A i \in DOMAIN writes : writes[i].off # c
    <3>1. ASSUME NEW i \in DOMAIN writes, i # 1
          PROVE  i - 1 \in DOMAIN writes' /\ (i - 1) + 1 = i
      BY <2>2, <3>1
    <3> QED
      BY <2>3, <3>1
  <2> QED
    BY <2>1, <2>4 DEF Finished, Passed, Left, Taken
<1> QED
  BY <1>1, <1>2, <1>3, <1>4

LEMMA CompleteInit == Init => CompleteOK
<1> SUFFICES ASSUME Init PROVE CompleteOK
  OBVIOUS
<1>1. \A c \in Chunks : ~(c < nextChunk)
  BY ChunksAssumption DEF Init, Chunks
<1> QED
  BY <1>1 DEF Init, CompleteOK, Finished, Passed, Left, Taken

\* Parts of CompleteOK that speak of those who have stopped.
LEMMA EndsStep ==
  ASSUME TypeInv, StopsOK, CompleteOK, [Next]_vars, ~Aborted'
  PROVE  /\ jobsClosed' => nextChunk' \notin Chunks
         /\ \A w \in Threads : wpc'[w] = "done" => jobs' = <<>> /\ jobsClosed'
         /\ spc' = "done" => writes' = <<>> /\ writesClosed'
<1>1. ~Aborted
  BY StopsStep
<1>2. /\ jobsClosed => nextChunk \notin Chunks
      /\ \A w \in Threads : wpc[w] = "done" => jobs = <<>> /\ jobsClosed
      /\ spc = "done" => writes = <<>> /\ writesClosed
  BY <1>1 DEF CompleteOK
<1>3. mpc \in {"close", "returned"} => ~dispatching
  <2>1. PICK w \in Threads : TRUE
    BY ThreadsAssumption
  <2> QED
    BY <1>2, <2>1 DEF StopsOK
<1>4. cancelled => mpc \in {"close", "returned"}
  BY <1>1 DEF StopsOK
<1> USE DEF dispVars, workerVars, writerVars
<1>5. CASE Dispatch
  BY <1>2, <1>5 DEF Dispatch, StopsOK
<1>6. CASE DispatchEnd
  BY <1>2, <1>3, <1>4, <1>6 DEF DispatchEnd
<1>7. ASSUME NEW w \in Threads, Worker(w)
      PROVE  /\ jobsClosed' => nextChunk' \notin Chunks
             /\ \A v \in Threads : wpc'[v] = "done" => jobs' = <<>> /\ jobsClosed'
             /\ spc' = "done" => writes' = <<>> /\ writesClosed'
  <2>1. wpc[w] # "done" /\ mpc = "wait_workers" /\ ~cancelled /\ ~writesClosed
    BY <1>4, <1>7 DEF Worker, ReceiveJob, WorkerEnd, CheckContext, ReadFails, ReadNothing,
                ReadElided, ReadData, SendWrite, AbandonWrite, WorkerCancel, StopsOK
  <2>2. UNCHANGED <<dispVars, jobsClosed, writesClosed, spc>>
    BY <1>7 DEF Worker, ReceiveJob, WorkerEnd, CheckContext, ReadFails, ReadNothing,
                ReadElided, ReadData, SendWrite, AbandonWrite, WorkerCancel
  <2>3. ~ReadFails(w) /\ ~WorkerCancel(w) /\ ~AbandonWrite(w)
    BY <1>1, <2>1 DEF ReadFails, SetErr, WorkerCancel, AbandonWrite, Aborted, StopsOK,
                      TypeInv, TypeOK
  <2>4. /\ jobs' = jobs \/ jobs # <<>>
        /\ wpc'[w] = "done" => jobs' = jobs /\ jobs = <<>> /\ jobsClosed
        /\ \A v \in Threads : v # w => wpc'[v] = wpc[v]
    BY <1>7, <2>1, <2>3 DEF Worker, ReceiveJob, WorkerEnd, CheckContext, ReadNothing,
                ReadElided, ReadData, SendWrite, TypeInv, TypeOK
  <2> QED
    BY <1>2, <2>1, <2>2, <2>4
<1>8. CASE Writer
  <2>1. UNCHANGED <<dispVars, jobs, jobsClosed, writesClosed, wpc>>
    BY <1>8 DEF Writer, ReceiveWrite, WriterEnd, WriteChunk, CountChunk, WriteFails,
                WriterCancel
  <2>2. ~WriteFails /\ ~WriterCancel
    BY <1>1 DEF WriteFails, SetErr, WriterCancel, Aborted, StopsOK, TypeInv, TypeOK
  <2>3. spc' = "done" => writes' = <<>> /\ writesClosed
    BY <1>8, <2>2 DEF Writer, ReceiveWrite, WriterEnd, WriteChunk, CountChunk
  <2> QED
    BY <1>2, <2>1, <2>3
<1>9. CASE Main
  <2>1. UNCHANGED <<dispVars, jobs, jobsClosed, wpc, writes, spc>> /\ (writesClosed => writesClosed')
    BY <1>9 DEF Main, CloseWrites, TakeResult, Unwind, CloseOutput
  <2> QED
    BY <1>2, <2>1
<1>10. CASE Render \/ FinalRender \/ CallerCancels \/ UNCHANGED vars
  BY <1>2, <1>10 DEF Render, FinalRender, CallerCancels, vars
<1> QED
  BY <1>5, <1>6, <1>7, <1>8, <1>9, <1>10 DEF Next, Terminated

\* A chunk leaves the last who had it either settled or because of a failure or a
\* cancellation.
LEMMA SettledStep ==
  ASSUME TypeInv, WayOK, KindOK, StopsOK, CompleteOK, [Next]_vars, ~Aborted',
         NEW c \in Chunks, Finished(c)'
  PROVE  SettledChunk(c)'
<1>1. ~Aborted
  BY StopsStep
<1>2. Finished(c) => SettledChunk(c)
  BY <1>1 DEF CompleteOK
<1> USE DEF dispVars, workerVars, writerVars, outVars
<1>3. CASE \/ Dispatch \/ ReceiveWrite
           \/ \E w \in Threads : ReceiveJob(w) \/ SendWrite(w)
  <2>1. UNCHANGED <<zeros, image, clipped>>
    BY <1>3 DEF Dispatch, ReceiveWrite, ReceiveJob, SendWrite
  <2> QED
    BY <1>2, <1>3, <2>1, MovedNotFinished DEF SettledChunk
<1>4. ASSUME NEW w \in Threads, ReadNothing(w) \/ ReadElided(w) PROVE SettledChunk(c)'
  <2>1. /\ UNCHANGED <<nextChunk, jobs, writes, spc, sjob, image, zeros>>
        /\ clipped \subseteq clipped'
        /\ \A v \in Threads : v # w => wjob'[v] = wjob[v]
    BY <1>4 DEF ReadNothing, ReadElided, NoteIfShort, TypeInv, TypeOK
  <2>2. wjob[w] \in clipped' \/ (ElideZeros /\ wjob[w] \in zeros)
    BY <1>4 DEF ReadNothing, ReadElided, NoteIfShort
  <2>3. CASE wjob[w] = c
    BY <2>1, <2>2, <2>3 DEF SettledChunk
  <2>4. CASE wjob[w] # c
    <3>1. Finished(c)
      BY <2>1, <2>4 DEF Finished, Passed, Left, Taken
    <3> QED
      BY <1>2, <2>1, <3>1 DEF SettledChunk
  <2> QED
    BY <2>3, <2>4
<1>5. ASSUME NEW w \in Threads, CheckContext(w) \/ ReadData(w) PROVE SettledChunk(c)'
  <2>1. /\ UNCHANGED <<nextChunk, jobs, wjob, writes, spc, sjob, image, zeros>>
        /\ clipped \subseteq clipped'
    BY <1>5 DEF CheckContext, ReadData, NoteIfShort
  <2>2. Finished(c)
    BY <2>1 DEF Finished, Passed, Left, Taken
  <2> QED
    BY <1>2, <2>1, <2>2 DEF SettledChunk
<1>6. ASSUME NEW w \in Threads, WorkerEnd(w) PROVE SettledChunk(c)'
  <2>1. wpc[w] = "receive"
    BY <1>1, <1>6 DEF WorkerEnd, StopsOK
  <2>2. wjob[w] = 0 /\ c # 0
    BY <2>1, WayTypes DEF WayOK, WorkersWay
  <2>3. /\ UNCHANGED <<nextChunk, jobs, writes, spc, sjob, image, zeros, clipped>>
        /\ \A v \in Threads : v # w => wjob'[v] = wjob[v]
    BY <1>6 DEF WorkerEnd, TypeInv, TypeOK
  <2>4. Finished(c)
    BY <2>2, <2>3 DEF Finished, Passed, Left, Taken
  <2> QED
    BY <1>2, <2>3, <2>4 DEF SettledChunk
<1>7. ASSUME NEW w \in Threads, ReadFails(w) \/ AbandonWrite(w) \/ WorkerCancel(w)
      PROVE  FALSE
  <2>1. wpc[w] # "done" /\ mpc = "wait_workers" /\ ~cancelled
    BY <1>1, <1>7 DEF ReadFails, AbandonWrite, WorkerCancel, StopsOK
  <2> QED
    BY <1>1, <1>7, <2>1 DEF ReadFails, SetErr, WorkerCancel, AbandonWrite, Aborted,
                            StopsOK, TypeInv, TypeOK
<1>8. CASE WriteChunk
  <2>1. /\ UNCHANGED <<nextChunk, jobs, wjob, writes, sjob, zeros, clipped>>
        /\ spc = "write" /\ sjob.off \in Chunks
        /\ image'[sjob.off] = content[sjob.buf]
        /\ \A d \in Chunks : d # sjob.off => image'[d] = image[d]
    BY <1>8 DEF WriteChunk, TypeInv, TypeOK, HandsOK
  <2>2. CASE c = sjob.off
    <3>1. image'[c].kind = KindOf(c)
      BY <2>1, <2>2 DEF KindOK
    <3> QED
      BY <2>1, <3>1 DEF KindOf, SettledChunk
  <2>3. CASE c # sjob.off
    <3>1. Finished(c)
      BY <2>1, <2>3 DEF Finished, Passed, Left, Taken
    <3> QED
      BY <1>2, <2>1, <2>3, <3>1 DEF SettledChunk
  <2> QED
    BY <2>2, <2>3
<1>9. ~WriteFails /\ ~WriterCancel
  BY <1>1 DEF WriteFails, SetErr, WriterCancel, Aborted, StopsOK, TypeInv, TypeOK
<1>10. CASE WriterEnd \/ CountChunk \/ DispatchEnd \/ Main \/ Render \/ FinalRender
            \/ CallerCancels \/ UNCHANGED vars
  <2>1. /\ UNCHANGED <<nextChunk, jobs, wjob, writes, image, zeros, clipped>>
        /\ spc = "write" => spc' = "write" /\ sjob' = sjob
    BY <1>10 DEF WriterEnd, CountChunk, DispatchEnd, Main, CloseWrites, TakeResult, Unwind,
                 CloseOutput, Render, FinalRender, CallerCancels, vars
  <2>2. Finished(c)
    BY <2>1 DEF Finished, Passed, Left, Taken
  <2> QED
    BY <1>2, <2>1, <2>2 DEF SettledChunk
<1> QED
  BY <1>3, <1>4, <1>5, <1>6, <1>7, <1>8, <1>9, <1>10 DEF Next, Worker, Writer, Terminated

LEMMA CompleteStep ==
  TypeInv /\ WayOK /\ KindOK /\ StopsOK /\ CompleteOK /\ [Next]_vars => CompleteOK'
BY EndsStep, SettledStep DEF CompleteOK

-----------------------------------------------------------------------------
(* The progress counter.                                                   *)

\* What can be counted is finite.
LEMMA MarksFinite ==
  ASSUME TypeInv
  PROVE  /\ IsFiniteSet(Written) /\ IsFiniteSet(elided)
         /\ Cardinality(Written) \in Nat /\ Cardinality(elided) \in Nat
<1>1. IsFiniteSet(Chunks)
  BY ChunksAssumption, FS_Interval DEF Chunks
<1>2. Written \in SUBSET Chunks /\ elided \in SUBSET Chunks
  BY DEF Written, TypeInv, TypeOK
<1> QED
  BY <1>1, <1>2, FS_Subset, FS_CardinalityType

LEMMA CountInit == Init => CountOK
<1> SUFFICES ASSUME Init PROVE CountOK
  OBVIOUS
<1>1. Written = {} /\ elided = {}
  BY DEF Init, Written, Blank
<1> QED
  BY <1>1, FS_EmptySet DEF Init, CountOK

\* A step that neither marks nor counts a chunk keeps CountOK.
LEMMA CountQuiet ==
  ASSUME TypeInv, CountOK,
         UNCHANGED <<done, reported, ppc, elided>>, Written' = Written,
         spc' = "count" <=> spc = "count",
         DoneClosed => DoneClosed'
  PROVE  CountOK'
BY DEF CountOK

\* Nobody is left to count once the progress goroutine may make its last report.
LEMMA CountersStopped ==
  ASSUME TypeInv, StopsOK, DoneClosed
  PROVE  spc = "done" /\ \A w \in Threads : wpc[w] = "done"
BY DEF StopsOK, DoneClosed

\* A worker counts a chunk it has not sent.
LEMMA CountElided ==
  ASSUME TypeInv, WayOK, StopsOK, CountOK, NEW w \in Threads, ReadElided(w)
  PROVE  CountOK'
<1>1. PICK c \in Chunks : c = wjob[w] /\ c # 0
  BY WayTypes DEF ReadElided, TypeInv, HandsOK
<1>2. c \notin elided
  BY <1>1, AloneInHand
<1>3. elided' = elided \union {c} /\ done' = done + 1
  BY <1>1 DEF ReadElided
<1>4. Cardinality(elided') = Cardinality(elided) + 1
  BY <1>2, <1>3, MarksFinite, FS_AddElement
<1>5. UNCHANGED <<spc, reported, ppc, mpc>> /\ Written' = Written
  BY DEF ReadElided, Written, writerVars, progVars, mainVars
<1>6. ppc # "done"
  BY CountersStopped DEF CountOK, ReadElided
<1>7. done \in Nat /\ reported \in Nat /\ Cardinality(Written) \in Nat
      /\ Cardinality(elided) \in Nat
  BY MarksFinite DEF TypeInv, TypeOK
<1> QED
  BY <1>3, <1>4, <1>5, <1>6, <1>7 DEF CountOK

\* The writer marks a chunk that was blank.
LEMMA CountWrite ==
  ASSUME TypeInv, WayOK, KindOK, CountOK, WriteChunk
  PROVE  CountOK'
<1>1. /\ spc = "write" /\ spc' = "count" /\ sjob.off \in Chunks
      /\ image'[sjob.off] = content[sjob.buf]
      /\ \A c \in Chunks : c # sjob.off => image'[c] = image[c]
      /\ UNCHANGED <<done, reported, ppc, mpc, elided>>
  BY DEF WriteChunk, TypeInv, TypeOK, HandsOK, progVars, mainVars
<1>2. image[sjob.off].kind = "blank"
  BY <1>1 DEF WayOK, MarksWay, Finished
<1>3. image'[sjob.off].kind \in {"full", "short"}
  BY <1>1 DEF KindOK, KindOf
<1>4. sjob.off \notin Written /\ Written' = Written \union {sjob.off}
  BY <1>1, <1>2, <1>3 DEF Written
<1>5. Cardinality(Written') = Cardinality(Written) + 1
  BY <1>4, MarksFinite, FS_AddElement
<1>6. done \in Nat /\ Cardinality(Written) \in Nat /\ Cardinality(elided) \in Nat
  BY MarksFinite DEF TypeInv, TypeOK
<1> QED
  BY <1>1, <1>5, <1>6 DEF CountOK, DoneClosed

\* A failed write marks nothing.
LEMMA CountWriteFails ==
  ASSUME TypeInv, WayOK, CountOK, WriteFails
  PROVE  CountOK'
<1>1. /\ spc = "write" /\ spc' # "count" /\ sjob.off \in Chunks
      /\ image'[sjob.off] = image[sjob.off] \/ image'[sjob.off].kind = "torn"
      /\ \A c \in Chunks : c # sjob.off => image'[c] = image[c]
      /\ UNCHANGED <<done, reported, ppc, mpc, elided>>
  BY DEF WriteFails, AfterSetErr, TypeInv, TypeOK, HandsOK, progVars, mainVars
<1>2. image[sjob.off].kind = "blank"
  BY <1>1 DEF WayOK, MarksWay, Finished
<1>3. Written' = Written
  BY <1>1, <1>2 DEF Written
<1> QED
  BY <1>1, <1>3 DEF CountOK, DoneClosed

LEMMA CountStep ==
  TypeInv /\ WayOK /\ KindOK /\ StopsOK /\ CountOK /\ [Next]_vars => CountOK'
<1> SUFFICES ASSUME TypeInv, WayOK, KindOK, StopsOK, CountOK, [Next]_vars PROVE CountOK'
  OBVIOUS
<1> USE DEF workerVars, writerVars, bufVars, outVars, progVars, mainVars
<1>1. CASE \/ Dispatch \/ DispatchEnd
           \/ \E w \in Threads : Worker(w) /\ ~ReadElided(w)
           \/ ReceiveWrite \/ WriterEnd \/ WriterCancel
           \/ Main \/ CallerCancels \/ UNCHANGED vars
  <2>1. UNCHANGED <<done, reported, ppc, elided, image>>
    BY <1>1 DEF Dispatch, DispatchEnd, Worker, ReceiveJob, WorkerEnd, CheckContext,
         ReadFails, ReadNothing, ReadData, SendWrite, AbandonWrite, WorkerCancel,
         ReceiveWrite, WriterEnd, WriterCancel, Main, CloseWrites, TakeResult, Unwind,
         CloseOutput, CallerCancels, vars
  <2>2. spc' = "count" <=> spc = "count"
    BY <1>1 DEF Dispatch, DispatchEnd, Worker, ReceiveJob, WorkerEnd, CheckContext,
         ReadFails, ReadNothing, ReadData, SendWrite, AbandonWrite, WorkerCancel,
         ReceiveWrite, WriterEnd, WriterCancel, Main, CloseWrites, TakeResult, Unwind,
         CloseOutput, CallerCancels, vars
  <2>3. DoneClosed => DoneClosed'
    BY <1>1 DEF DoneClosed, Dispatch, DispatchEnd, Worker, ReceiveJob, WorkerEnd, CheckContext,
         ReadFails, ReadNothing, ReadData, SendWrite, AbandonWrite, WorkerCancel,
         ReceiveWrite, WriterEnd, WriterCancel, Main, CloseWrites, TakeResult, Unwind,
         CloseOutput, CallerCancels, vars
  <2>4. Written' = Written
    BY <2>1 DEF Written
  <2> QED
    BY <2>1, <2>2, <2>3, <2>4, CountQuiet
<1>2. ASSUME NEW w \in Threads, ReadElided(w) PROVE CountOK'
  BY <1>2, CountElided
<1>3. CASE WriteChunk
  BY <1>3, CountWrite
<1>4. CASE WriteFails
  BY <1>4, CountWriteFails
<1>5. CASE CountChunk
  <2>1. /\ spc = "count" /\ spc' = "receive" /\ done' = done + 1 /\ Written' = Written
        /\ UNCHANGED <<elided, reported, ppc, mpc>>
    BY <1>5 DEF CountChunk, Written
  <2>2. ppc # "done"
    BY <2>1, CountersStopped DEF CountOK
  <2>3. done \in Nat /\ reported \in Nat
    BY DEF TypeInv, TypeOK
  <2> QED
    BY <2>1, <2>2, <2>3 DEF CountOK
<1>6. CASE Render \/ FinalRender
  <2>1. UNCHANGED <<spc, done, elided, mpc>> /\ Written' = Written /\ reported' = done
    BY <1>6 DEF Render, FinalRender, Written
  <2>2. ppc' = "done" => DoneClosed
    BY <1>6 DEF Render, FinalRender
  <2>3. done \in Nat
    BY DEF TypeInv, TypeOK
  <2> QED
    BY <2>1, <2>2, <2>3 DEF CountOK, DoneClosed
<1> QED
  BY <1>1, <1>2, <1>3, <1>4, <1>5, <1>6 DEF Next, Worker, Writer, Terminated

\* Everything the proofs below need, in one inductive invariant.
CopyInv == TypeInv /\ BufferInv /\ WayOK /\ KindOK /\ StopsOK /\ CompleteOK /\ CountOK

LEMMA CopyInvariant == Spec => []CopyInv
<1>1. Init => CopyInv
  BY TypeInit, BufferInit, WayInit, KindInit, StopsInit, CompleteInit, CountInit
     DEF CopyInv
<1>2. CopyInv /\ [Next]_vars => CopyInv'
  BY TypeInvStep, BufferStep, WayStep, KindStep, StopsStep, CompleteStep, CountStep
     DEF CopyInv
<1> QED
  BY <1>1, <1>2, PTL DEF Spec

\* Whichever goroutine counted it, no chunk is reported as done before it is in
\* the output or known to need no writing.
THEOREM ProgressNotAhead == Spec => []DoneNotAhead
<1>1. CopyInv => DoneNotAhead
  BY MarksFinite DEF CopyInv, CountOK, DoneNotAhead, TypeInv, TypeOK
<1> QED
  BY <1>1, CopyInvariant, PTL

\* The report made while ConvertRange returns counts all that was copied, also
\* when the copy failed or was cancelled halfway.
THEOREM FinalReportRight == Spec => []FinalReport
<1>1. CopyInv => FinalReport
  <2> SUFFICES ASSUME CopyInv, ppc = "done"
               PROVE  reported = Cardinality(Written) + Cardinality(elided)
    BY DEF FinalReport
  <2>1. DoneClosed /\ reported = done /\ done \in Nat
    BY DEF CopyInv, CountOK, TypeInv, TypeOK
  <2>2. spc # "count"
    BY <2>1, CountersStopped DEF CopyInv
  <2> QED
    BY <2>1, <2>2 DEF CopyInv, CountOK
<1> QED
  BY <1>1, CopyInvariant, PTL

-----------------------------------------------------------------------------
(* ConvertRange implements ImageCopy.                                      *)

\* What ImageCopy sees of the state.
Kinds     == [c \in Chunks |-> image[c].kind]
Failing   == errCh # "empty" \/ result \in {"read", "write"}
Outcome   == IF result \in {"read", "write"} THEN "error" ELSE result
CopyState == <<zeros, Kinds, clipped, byCaller, Failing, Outcome>>

LEMMA CopyingInit == Init => Copying!Init
<1> SUFFICES ASSUME Init PROVE Copying!Init
  OBVIOUS
<1>1. zeros \in SUBSET Copying!Chunks
  BY ReadAssumption DEF Init, Copying!Chunks
<1>2. [c \in Chunks |-> IF image[c].from \in {0, c} THEN image[c].kind ELSE "foreign"]
        = [c \in Copying!Chunks |-> "blank"]
  BY DEF Init, Blank, Chunks, Copying!Chunks
<1> QED
  BY <1>1, <1>2 DEF Init, Copying!Init

\* The steps of ImageCopy, said of CopyState: no chunk is ever "foreign".
ClipState(c) ==
  /\ Outcome = "none" /\ image[c].kind = "blank"
  /\ clipped' = clipped \union {c}
  /\ UNCHANGED <<zeros, Kinds, byCaller, Failing, Outcome>>

CopyOneState(c) ==
  /\ Outcome = "none" /\ image[c].kind = "blank"
  /\ Kinds' = [Kinds EXCEPT ![c] = KindOf(c)]
  /\ UNCHANGED <<zeros, clipped, byCaller, Failing, Outcome>>

FailState ==
  /\ Outcome = "none"
  /\ Failing' = TRUE
  /\ \/ UNCHANGED Kinds
     \/ \E c \in Chunks : /\ image[c].kind = "blank"
                          /\ Kinds' = [Kinds EXCEPT ![c] = "torn"]
  /\ UNCHANGED <<zeros, clipped, byCaller, Outcome>>

InterruptState ==
  byCaller' = TRUE /\ UNCHANGED <<zeros, Kinds, clipped, Failing, Outcome>>

FinishState ==
  /\ Outcome = "none"
  /\ Failing \/ byCaller \/ \A c \in Chunks : SettledChunk(c)
  /\ Outcome' = IF Failing THEN "error" ELSE "nil"
  /\ UNCHANGED <<zeros, Kinds, clipped, byCaller, Failing>>

CopyStep ==
  \/ \E c \in Chunks : ClipState(c) \/ CopyOneState(c)
  \/ FailState \/ InterruptState \/ FinishState
  \/ UNCHANGED CopyState

LEMMA CopyStepMapped ==
  CopyInv /\ CopyInv' /\ CopyStep => [Copying!Next]_(Copying!vars)
<1> SUFFICES ASSUME CopyInv, CopyInv', CopyStep PROVE [Copying!Next]_(Copying!vars)
  OBVIOUS
<1> DEFINE barred == [c \in Chunks |-> IF image[c].from \in {0, c} THEN image[c].kind
                                                                ELSE "foreign"]
<1>1. barred = Kinds /\ barred' = Kinds'
  BY DEF CopyInv, BufferInv, Faithful, KindOK, Kinds
<1>2. Chunks = Copying!Chunks /\ \A c \in Chunks : Kinds[c] = image[c].kind
  BY DEF Chunks, Copying!Chunks, Kinds
<1>3. ASSUME NEW c \in Chunks, ClipState(c) PROVE Copying!Clip(c)
  BY <1>1, <1>2, <1>3 DEF ClipState, Copying!Clip, Failing, Outcome
<1>4. ASSUME NEW c \in Chunks, CopyOneState(c) PROVE Copying!Copy(c)
  BY <1>1, <1>2, <1>4 DEF CopyOneState, Copying!Copy, KindOf, Failing, Outcome
<1>5. FailState => Copying!Fail
  BY <1>1, <1>2 DEF FailState, Copying!Fail, Failing, Outcome
<1>6. InterruptState => Copying!Interrupt
  BY <1>1 DEF InterruptState, Copying!Interrupt, Failing, Outcome
<1>7. FinishState => Copying!Finish
  BY <1>1, <1>2 DEF FinishState, Copying!Finish, Copying!Settled, SettledChunk, Failing, Outcome
<1>8. UNCHANGED CopyState => UNCHANGED Copying!vars
  BY <1>1 DEF CopyState, Copying!vars, Failing, Outcome
<1> QED
  BY <1>2, <1>3, <1>4, <1>5, <1>6, <1>7, <1>8 DEF CopyStep, Copying!Next

\* Nothing is left to do when the writer has returned and nothing failed.
LEMMA AllSettled ==
  ASSUME CopyInv, ~Aborted, mpc = "wait_writer", spc = "done", NEW c \in Chunks
  PROVE  SettledChunk(c)
<1>1. PICK w \in Threads : TRUE
  BY ThreadsAssumption
<1>2. \A v \in Threads : wpc[v] = "done"
  BY DEF CopyInv, StopsOK
<1>3. jobs = <<>> /\ jobsClosed /\ nextChunk \notin Chunks /\ writes = <<>>
  BY <1>1, <1>2 DEF CopyInv, CompleteOK
<1>4. c < nextChunk
  BY <1>3, ChunksAssumption DEF CopyInv, TypeInv, TypeOK, Chunks
<1>5. \A v \in Threads : wjob[v] # c
  <2>1. c # 0
    BY ChunksAssumption DEF Chunks
  <2> QED
    BY <1>2, <2>1 DEF CopyInv, WayOK, WorkersWay
<1>6. Finished(c)
  BY <1>3, <1>4, <1>5 DEF Finished, Passed, Left, Taken
<1> QED
  BY <1>6 DEF CopyInv, CompleteOK

LEMMA WorkerCopies ==
  ASSUME CopyInv, NEW w \in Threads, Worker(w)
  PROVE  CopyStep
<1> USE DEF outVars, mainVars, ctxVars
<1>1. Outcome = "none" /\ result = "none" /\ UNCHANGED <<zeros, image, byCaller, result>>
  <2>1. wpc[w] # "done"
    BY DEF Worker, ReceiveJob, WorkerEnd, CheckContext, ReadFails, ReadNothing,
           ReadElided, ReadData, SendWrite, AbandonWrite, WorkerCancel
  <2>2. UNCHANGED <<zeros, image, byCaller, result>>
    BY DEF Worker, ReceiveJob, WorkerEnd, CheckContext, ReadFails, ReadNothing,
           ReadElided, ReadData, SendWrite, AbandonWrite, WorkerCancel
  <2> QED
    BY <2>1, <2>2 DEF CopyInv, StopsOK, Outcome
<1>2. UNCHANGED <<Kinds, Outcome>>
  BY <1>1 DEF Kinds, Outcome
<1>3. CASE ReadNothing(w) \/ ReadElided(w) \/ ReadData(w)
  <2>1. PICK c \in Chunks : c = wjob[w] /\ c # 0
    BY <1>3, WayTypes DEF ReadNothing, ReadElided, ReadData, CopyInv, TypeInv, HandsOK
  <2>2. image[c].kind = "blank"
    BY <2>1, AloneInHand DEF CopyInv
  <2>3. UNCHANGED Failing
    BY <1>1, <1>3 DEF Failing, ReadNothing, ReadElided, ReadData
  <2>4. clipped' = clipped \/ clipped' = clipped \union {c}
    BY <1>3, <2>1 DEF ReadNothing, ReadElided, ReadData, NoteIfShort
  <2> QED
    BY <1>1, <1>2, <2>2, <2>3, <2>4 DEF CopyStep, ClipState, CopyState
<1>4. CASE ReadFails(w)
  <2>1. Failing' /\ clipped' = clipped
    BY <1>4 DEF ReadFails, SetErr, Failing, CopyInv, TypeInv, TypeOK
  <2> QED
    BY <1>1, <1>2, <2>1 DEF CopyStep, FailState, Failing
<1>5. CASE ReceiveJob(w) \/ WorkerEnd(w) \/ CheckContext(w) \/ SendWrite(w)
           \/ AbandonWrite(w) \/ WorkerCancel(w)
  <2>1. UNCHANGED <<clipped, errCh>>
    BY <1>5 DEF ReceiveJob, WorkerEnd, CheckContext, SendWrite, AbandonWrite, WorkerCancel
  <2> QED
    BY <1>1, <1>2, <2>1 DEF CopyStep, CopyState, Failing
<1> QED
  BY <1>3, <1>4, <1>5 DEF Worker

LEMMA WriterCopies ==
  ASSUME CopyInv, Writer
  PROVE  CopyStep
<1> USE DEF outVars, mainVars, ctxVars
<1>1. Outcome = "none" /\ UNCHANGED <<zeros, clipped, byCaller, result, Outcome>>
  <2>1. spc # "done" /\ UNCHANGED <<zeros, clipped, byCaller, result>>
    BY DEF Writer, ReceiveWrite, WriterEnd, WriteChunk, CountChunk, WriteFails, WriterCancel
  <2> QED
    BY <2>1 DEF CopyInv, StopsOK, Outcome
<1>2. CASE WriteChunk
  <2>1. PICK c \in Chunks : c = sjob.off
    BY <1>2 DEF WriteChunk, CopyInv, TypeInv, HandsOK
  <2>2. image[c].kind = "blank"
    BY <1>2, <2>1 DEF WriteChunk, CopyInv, WayOK, MarksWay, Finished
  <2>3. content[sjob.buf].kind = KindOf(c)
    BY <1>2, <2>1 DEF WriteChunk, CopyInv, KindOK
  <2>4. Kinds' = [Kinds EXCEPT ![c] = KindOf(c)]
    BY <1>2, <2>1, <2>3 DEF WriteChunk, Kinds, CopyInv, TypeInv, TypeOK
  <2>5. UNCHANGED Failing
    BY <1>2 DEF WriteChunk, Failing
  <2> QED
    BY <1>1, <2>2, <2>4, <2>5 DEF CopyStep, CopyOneState
<1>3. CASE WriteFails
  <2>1. PICK c \in Chunks : c = sjob.off
    BY <1>3 DEF WriteFails, CopyInv, TypeInv, HandsOK
  <2>2. image[c].kind = "blank"
    BY <1>3, <2>1 DEF WriteFails, CopyInv, WayOK, MarksWay, Finished
  <2>3. Kinds' = Kinds \/ Kinds' = [Kinds EXCEPT ![c] = "torn"]
    <3>1. PICK left \in {image[c], [from |-> c, kind |-> "torn"]} :
            image' = [image EXCEPT ![c] = left]
      BY <1>3, <2>1 DEF WriteFails
    <3>2. image \in [Chunks -> Piece]
      BY DEF CopyInv, TypeInv, TypeOK
    <3>3. CASE left = image[c]
      BY <3>1, <3>2, <3>3 DEF Kinds
    <3>4. CASE left = [from |-> c, kind |-> "torn"]
      BY <3>1, <3>2, <3>4 DEF Kinds
    <3> QED
      BY <3>1, <3>3, <3>4
  <2>4. Failing'
    BY <1>3 DEF WriteFails, SetErr, Failing, CopyInv, TypeInv, TypeOK
  <2> QED
    BY <1>1, <2>2, <2>3, <2>4 DEF CopyStep, FailState, Failing
<1>4. CASE ReceiveWrite \/ WriterEnd \/ CountChunk \/ WriterCancel
  <2>1. UNCHANGED <<image, errCh>>
    BY <1>4 DEF ReceiveWrite, WriterEnd, CountChunk, WriterCancel
  <2> QED
    BY <1>1, <2>1 DEF CopyStep, CopyState, Kinds, Failing
<1> QED
  BY <1>2, <1>3, <1>4 DEF Writer

LEMMA TakeResultCopies ==
  ASSUME CopyInv, TakeResult
  PROVE  CopyStep
<1> USE DEF outVars, ctxVars
<1>1. UNCHANGED <<zeros, Kinds, clipped, byCaller>>
  BY DEF TakeResult, Kinds
<1>2. result = "none" /\ errCh \in {"empty", "read", "write"}
  BY DEF TakeResult, CopyInv, StopsOK, TypeInv, TypeOK
<1>3. Outcome = "none" /\ Outcome' = IF Failing THEN "error" ELSE "nil"
  BY <1>2 DEF TakeResult, Outcome, Failing
<1>4. UNCHANGED Failing
  BY <1>2 DEF TakeResult, Failing
<1>5. Failing \/ byCaller \/ \A c \in Chunks : SettledChunk(c)
  BY AllSettled DEF TakeResult, Aborted, Failing
<1> QED
  BY <1>1, <1>3, <1>4, <1>5 DEF CopyStep, FinishState

LEMMA NextCopies == CopyInv /\ [Next]_vars => CopyStep
<1> SUFFICES ASSUME CopyInv, [Next]_vars PROVE CopyStep
  OBVIOUS
<1>1. CASE CallerCancels
  <2>1. byCaller' = TRUE /\ UNCHANGED <<zeros, image, clipped, errCh, result>>
    BY <1>1 DEF CallerCancels, outVars, mainVars
  <2> QED
    BY <2>1 DEF CopyStep, InterruptState, Kinds, Failing, Outcome
<1>2. CASE \/ Dispatch \/ DispatchEnd \/ CloseWrites \/ Unwind \/ CloseOutput
           \/ Render \/ FinalRender \/ UNCHANGED vars
  <2>1. UNCHANGED <<zeros, image, clipped, byCaller, errCh, result>>
    BY <1>2 DEF Dispatch, DispatchEnd, CloseWrites, Unwind, CloseOutput, Render,
                FinalRender, vars, outVars, ctxVars, mainVars
  <2> QED
    BY <2>1 DEF CopyStep, CopyState, Kinds, Failing, Outcome
<1> QED
  BY <1>1, <1>2, WorkerCopies, WriterCopies, TakeResultCopies DEF Next, Main, Terminated

\* Every behaviour of the goroutines is a behaviour of ImageCopy: no chunk is
\* written twice, with bytes that are not its own or after the result is known, an
\* error is returned exactly when a read or a write failed, and nil without an
\* interruption means that every chunk was copied, clipped or is zeros.
THEOREM ConvertRangeCopies == Spec => ImplementsImageCopy
<1>1. Init => Copying!Init
  BY CopyingInit
<1>2. CopyInv /\ CopyInv' /\ [Next]_vars => [Copying!Next]_(Copying!vars)
  BY NextCopies, CopyStepMapped
<1> QED
  BY <1>1, <1>2, CopyInvariant, PTL DEF Spec, ImplementsImageCopy, Copying!Spec
=============================================================================
