---------------------------- MODULE ConvertRange ----------------------------
(***************************************************************************)
(* The concurrent copy of internal/pipeline/convert_range.go: a dispatcher *)
(* goroutine cuts the image into chunks, opts.Threads workers read them    *)
(* from the source, one writer goroutine writes them to the output, a      *)
(* progress goroutine reports, and the calling goroutine waits for them.   *)
(*                                                                         *)
(* A chunk is identified by its number (chunk c is the byte range          *)
(* [(c-1)*ChunkSize, c*ChunkSize) cut at the image size) and bytes are     *)
(* abstracted to the chunk they were read from and to whether the whole    *)
(* chunk or only a prefix of it was read.                                  *)
(***************************************************************************)
EXTENDS Naturals, Sequences, FiniteSets

CONSTANTS
  Threads,          \* the workers, opts.Threads of them
  Buffers,          \* the []byte buffers the sync.Pool can hand out
  NoBuffer,         \* "this goroutine holds no buffer"
  NumChunks,        \* number of chunks of the source image
  JobsCap,          \* capacity of the channel jobs (4 per worker in the code)
  WritesCap,        \* capacity of the channel writes (2 per worker in the code)
  ElideZeros,       \* opts.Format = "raw" /\ opts.Sparse
  ZeroChunks,       \* chunks of the source that may hold only zero bytes
  ReadOutcomes,     \* chunk -> what in.ReadAt may do: "full", "short", "empty", "fail"
  OutputMayFail,    \* out.WriteAt and out.Close may return an error
  CallerMayCancel   \* the context given by the caller may be cancelled

ASSUME ThreadsAssumption == Threads # {} /\ IsFiniteSet(Threads)
ASSUME ChunksAssumption  == NumChunks \in Nat
ASSUME CapacityAssumption == JobsCap \in Nat \ {0} /\ WritesCap \in Nat \ {0}
ASSUME BuffersAssumption ==   \* a worker never waits for the sync.Pool
  /\ NoBuffer \notin Buffers
  /\ IsFiniteSet(Buffers) /\ Cardinality(Buffers) >= NumChunks
ASSUME ReadAssumption ==
  /\ ZeroChunks \subseteq 1 .. NumChunks
  /\ ReadOutcomes \in [1 .. NumChunks -> SUBSET {"full", "short", "empty", "fail"}]
ASSUME FlagsAssumption ==
  /\ ElideZeros \in BOOLEAN
  /\ OutputMayFail \in BOOLEAN
  /\ CallerMayCancel \in BOOLEAN

Chunks == 1 .. NumChunks

\* The bytes of a buffer or of an output chunk: where they were read from.
Piece == [from : 0 .. NumChunks, kind : {"blank", "full", "short", "torn"}]
Blank == [from |-> 0, kind |-> "blank"]

VARIABLES
  zeros,        \* the chunks of the source that hold only zero bytes
  nextChunk,    \* dispatcher: off / ChunkSize + 1
  dispatching,  \* dispatcher: still in its loop
  jobs,         \* channel jobs
  jobsClosed,
  wpc,          \* workers: control state
  wjob,         \* workers: the job in hand (0: none)
  wbuf,         \* workers: the buffer in hand
  writes,       \* channel writes
  writesClosed,
  spc,          \* writer goroutine: control state
  sjob,         \* writer goroutine: the write job in hand
  pool,         \* buffers nobody holds: in the sync.Pool, or not yet made
  content,      \* what was last read into each buffer
  image,        \* the output, chunk by chunk
  clipped,      \* history: chunks whose ReadAt returned less than it was asked
  elided,       \* history: chunks counted as done without being written
  errCh,        \* channel errCh, capacity 1
  cancelled,    \* ctx.Done() is closed
  byCaller,     \* history: it was the caller who cancelled
  mpc,          \* calling goroutine: control state
  result,       \* what ConvertRange returns
  sealed,       \* outcome of the deferred outClose(): "no", "yes", "failed"
  done,         \* pg.doneBytes, in chunks
  ppc,          \* progress goroutine: control state
  reported      \* the last doneBytes given to the progress callback

dispVars   == <<nextChunk, dispatching>>
workerVars == <<wpc, wjob, wbuf>>
writerVars == <<spc, sjob>>
mainVars   == <<mpc, result, sealed>>
progVars   == <<ppc, reported>>
bufVars    == <<pool, content>>
ctxVars    == <<cancelled, byCaller>>
outVars    == <<image, clipped, elided>>
vars == <<zeros, dispVars, jobs, jobsClosed, workerVars, writes, writesClosed,
          writerVars, bufVars, outVars, errCh, ctxVars, mainVars, done, progVars>>

NoWrite == [off |-> 0, buf |-> NoBuffer]

Init ==
  /\ zeros \in SUBSET ZeroChunks
  /\ ~ElideZeros => zeros = {}     \* they make no difference then
  /\ nextChunk = 1 /\ dispatching = TRUE
  /\ jobs = <<>> /\ jobsClosed = FALSE
  /\ wpc = [w \in Threads |-> "receive"]
  /\ wjob = [w \in Threads |-> 0]
  /\ wbuf = [w \in Threads |-> NoBuffer]
  /\ writes = <<>> /\ writesClosed = FALSE
  /\ spc = "receive" /\ sjob = NoWrite
  /\ pool = Buffers
  /\ content = [b \in Buffers |-> Blank]
  /\ image = [c \in Chunks |-> Blank]
  /\ clipped = {} /\ elided = {}
  /\ errCh = "empty"
  /\ cancelled = FALSE /\ byCaller = FALSE
  /\ mpc = "wait_workers" /\ result = "none" /\ sealed = "no"
  /\ done = 0
  /\ ppc = "ticking" /\ reported = 0

-----------------------------------------------------------------------------
(* The dispatcher: a select between ctx.Done() and the send on jobs.       *)

\* Mutant: the loop runs while off <= size.
DispatchPastEnd ==
  /\ dispatching /\ nextChunk \in 1 .. NumChunks + 1
  /\ Len(jobs) < JobsCap
  /\ jobs' = Append(jobs, nextChunk)
  /\ nextChunk' = nextChunk + 1
  /\ UNCHANGED <<zeros, dispatching, jobsClosed, workerVars, writes,
                 writesClosed, writerVars, bufVars, outVars, errCh, ctxVars,
                 mainVars, done, progVars>>

Dispatch ==
  /\ dispatching /\ nextChunk \in Chunks
  /\ Len(jobs) < JobsCap
  /\ jobs' = Append(jobs, nextChunk)
  /\ nextChunk' = nextChunk + 1
  /\ UNCHANGED <<zeros, dispatching, jobsClosed, workerVars, writes,
                 writesClosed, writerVars, bufVars, outVars, errCh, ctxVars,
                 mainVars, done, progVars>>

DispatchEnd ==
  /\ dispatching
  /\ nextChunk \notin Chunks \/ cancelled
  /\ dispatching' = FALSE
  /\ jobsClosed' = TRUE
  /\ UNCHANGED <<zeros, nextChunk, jobs, workerVars, writes, writesClosed,
                 writerVars, bufVars, outVars, errCh, ctxVars, mainVars, done,
                 progVars>>

-----------------------------------------------------------------------------
(* The workers.                                                            *)

ReceiveJob(w) ==
  /\ wpc[w] = "receive" /\ jobs # <<>>
  /\ wjob' = [wjob EXCEPT ![w] = Head(jobs)]
  /\ jobs' = Tail(jobs)
  /\ wpc' = [wpc EXCEPT ![w] = "check"]
  /\ UNCHANGED <<zeros, dispVars, jobsClosed, wbuf, writes, writesClosed,
                 writerVars, bufVars, outVars, errCh, ctxVars, mainVars, done,
                 progVars>>

\* The worker returns: jobs is closed and drained, or the context was
\* cancelled before the job in hand was read.
WorkerEnd(w) ==
  /\ \/ wpc[w] = "receive" /\ jobs = <<>> /\ jobsClosed
     \/ wpc[w] = "check" /\ cancelled
  /\ wpc' = [wpc EXCEPT ![w] = "done"]
  /\ wjob' = [wjob EXCEPT ![w] = 0]
  /\ UNCHANGED <<zeros, dispVars, jobs, jobsClosed, wbuf, writes,
                 writesClosed, writerVars, bufVars, outVars, errCh, ctxVars,
                 mainVars, done, progVars>>

CheckContext(w) ==
  /\ wpc[w] = "check" /\ ~cancelled
  /\ wpc' = [wpc EXCEPT ![w] = "read"]
  /\ UNCHANGED <<zeros, dispVars, jobs, jobsClosed, wjob, wbuf, writes,
                 writesClosed, writerVars, bufVars, outVars, errCh, ctxVars,
                 mainVars, done, progVars>>

\* Mutant: errCh has no capacity, so a send while nobody receives is dropped.
SetErrUnbuffered(e) == UNCHANGED errCh

\* setErr: keep the first error; the goroutine that stored it then cancels.
\* A goroutine that finds the channel full just returns.
SetErr(e) ==
  /\ errCh' = IF errCh = "empty" THEN e ELSE errCh

\* Mutant: setErr does not cancel.
AfterSetErrNoCancel == "done"

AfterSetErr == IF errCh = "empty" THEN "cancel" ELSE "done"

ReadFails(w) ==
  /\ wpc[w] = "read" /\ "fail" \in ReadOutcomes[wjob[w]] /\ pool # {}
  /\ SetErr("read")
  /\ wpc' = [wpc EXCEPT ![w] = AfterSetErr]
  /\ wjob' = [wjob EXCEPT ![w] = 0]
  /\ UNCHANGED <<zeros, dispVars, jobs, jobsClosed, wbuf, writes,
                 writesClosed, writerVars, bufVars, outVars, ctxVars,
                 mainVars, done, progVars>>

\* ReadAt returned n = 0 (with io.EOF or without): the chunk is skipped.
ReadNothing(w) ==
  /\ wpc[w] = "read" /\ "empty" \in ReadOutcomes[wjob[w]] /\ pool # {}
  /\ clipped' = clipped \union {wjob[w]}
  /\ wpc' = [wpc EXCEPT ![w] = "receive"]
  /\ wjob' = [wjob EXCEPT ![w] = 0]
  /\ UNCHANGED <<zeros, dispVars, jobs, jobsClosed, wbuf, writes,
                 writesClosed, writerVars, bufVars, image, elided, errCh,
                 ctxVars, mainVars, done, progVars>>

NoteIfShort(w, kind) ==
  clipped' = IF kind = "short" THEN clipped \union {wjob[w]} ELSE clipped

\* A chunk of zeros is counted but not sent when the output is a sparse raw
\* file, whose unwritten bytes read as zeros. A short read of any chunk may
\* have returned only zeros.
ReadElided(w) ==
  /\ wpc[w] = "read" /\ pool # {} /\ ElideZeros
  /\ \E kind \in ReadOutcomes[wjob[w]] \intersect {"full", "short"} :
       /\ kind = "full" => wjob[w] \in zeros
       /\ NoteIfShort(w, kind)
  /\ elided' = elided \union {wjob[w]}
  /\ done' = done + 1
  /\ wpc' = [wpc EXCEPT ![w] = "receive"]
  /\ wjob' = [wjob EXCEPT ![w] = 0]
  /\ UNCHANGED <<zeros, dispVars, jobs, jobsClosed, wbuf, writes, writesClosed,
                 writerVars, bufVars, image, errCh, ctxVars, mainVars, progVars>>

ReadData(w) ==
  /\ wpc[w] = "read"
  /\ ~(ElideZeros /\ wjob[w] \in zeros)
  /\ \E b \in pool, kind \in ReadOutcomes[wjob[w]] \intersect {"full", "short"} :
       /\ pool' = pool \ {b}
       /\ wbuf' = [wbuf EXCEPT ![w] = b]
       /\ content' = [content EXCEPT ![b] = [from |-> wjob[w], kind |-> kind]]
       /\ NoteIfShort(w, kind)
  /\ wpc' = [wpc EXCEPT ![w] = "send"]
  /\ UNCHANGED <<zeros, dispVars, jobs, jobsClosed, wjob, writes,
                 writesClosed, writerVars, image, elided, errCh, ctxVars,
                 mainVars, done, progVars>>

\* pool.Put(b): the bytes left in the buffer are dead, the next holder
\* overwrites every byte it goes on to use.
Release(b) ==
  /\ pool' = pool \union {b}
  /\ content' = [content EXCEPT ![b] = Blank]

\* Mutant: the worker puts the buffer back as soon as it has sent it.
SendWriteAndPut(w) ==
  /\ wpc[w] = "send"
  /\ Len(writes) < WritesCap
  /\ writes' = Append(writes, [off |-> wjob[w], buf |-> wbuf[w]])
  /\ pool' = pool \union {wbuf[w]}
  /\ wpc' = [wpc EXCEPT ![w] = "receive"]
  /\ wjob' = [wjob EXCEPT ![w] = 0]
  /\ wbuf' = [wbuf EXCEPT ![w] = NoBuffer]
  /\ UNCHANGED <<zeros, dispVars, jobs, jobsClosed, writesClosed, writerVars,
                 content, outVars, errCh, ctxVars, mainVars, done, progVars>>

SendWrite(w) ==
  /\ wpc[w] = "send"
  /\ Len(writes) < WritesCap
  /\ writes' = Append(writes, [off |-> wjob[w], buf |-> wbuf[w]])
  /\ wpc' = [wpc EXCEPT ![w] = "receive"]
  /\ wjob' = [wjob EXCEPT ![w] = 0]
  /\ wbuf' = [wbuf EXCEPT ![w] = NoBuffer]
  /\ UNCHANGED <<zeros, dispVars, jobs, jobsClosed, writesClosed, writerVars,
                 bufVars, outVars, errCh, ctxVars, mainVars, done, progVars>>

AbandonWrite(w) ==
  /\ wpc[w] = "send" /\ cancelled
  /\ Release(wbuf[w])
  /\ wpc' = [wpc EXCEPT ![w] = "done"]
  /\ wjob' = [wjob EXCEPT ![w] = 0]
  /\ wbuf' = [wbuf EXCEPT ![w] = NoBuffer]
  /\ UNCHANGED <<zeros, dispVars, jobs, jobsClosed, writes, writesClosed,
                 writerVars, outVars, errCh, ctxVars, mainVars, done, progVars>>

\* The second half of setErr, a step of its own: other goroutines run
\* between the send on errCh and the cancel().
WorkerCancel(w) ==
  /\ wpc[w] = "cancel"
  /\ cancelled' = TRUE
  /\ wpc' = [wpc EXCEPT ![w] = "done"]
  /\ UNCHANGED <<zeros, dispVars, jobs, jobsClosed, wjob, wbuf, writes,
                 writesClosed, writerVars, bufVars, outVars, errCh, byCaller,
                 mainVars, done, progVars>>

Worker(w) ==
  \/ ReceiveJob(w) \/ WorkerEnd(w) \/ CheckContext(w)
  \/ ReadFails(w) \/ ReadNothing(w) \/ ReadElided(w) \/ ReadData(w)
  \/ SendWrite(w) \/ AbandonWrite(w) \/ WorkerCancel(w)

-----------------------------------------------------------------------------
(* The writer goroutine.                                                   *)

ReceiveWrite ==
  /\ spc = "receive" /\ writes # <<>>
  /\ sjob' = Head(writes)
  /\ writes' = Tail(writes)
  /\ spc' = "write"
  /\ UNCHANGED <<zeros, dispVars, jobs, jobsClosed, workerVars, writesClosed,
                 bufVars, outVars, errCh, ctxVars, mainVars, done, progVars>>

WriterEnd ==
  /\ spc = "receive" /\ writes = <<>> /\ writesClosed
  /\ spc' = "done"
  /\ UNCHANGED <<zeros, dispVars, jobs, jobsClosed, workerVars, writes,
                 writesClosed, sjob, bufVars, outVars, errCh, ctxVars,
                 mainVars, done, progVars>>

\* Mutant: the chunks are written one after the other, in order of arrival.
WriteChunkInOrder ==
  /\ spc = "write"
  /\ image' = [image EXCEPT ![done + 1] = content[sjob.buf]]
  /\ spc' = "count"
  /\ UNCHANGED <<zeros, dispVars, jobs, jobsClosed, workerVars, writes,
                 writesClosed, sjob, bufVars, clipped, elided, errCh, ctxVars,
                 mainVars, done, progVars>>

WriteChunk ==
  /\ spc = "write"
  /\ image' = [image EXCEPT ![sjob.off] = content[sjob.buf]]
  /\ spc' = "count"
  /\ UNCHANGED <<zeros, dispVars, jobs, jobsClosed, workerVars, writes,
                 writesClosed, sjob, bufVars, clipped, elided, errCh, ctxVars,
                 mainVars, done, progVars>>

CountChunk ==   \* pg.AddDone, then pool.Put
  /\ spc = "count"
  /\ done' = done + 1
  /\ Release(sjob.buf)
  /\ spc' = "receive" /\ sjob' = NoWrite
  /\ UNCHANGED <<zeros, dispVars, jobs, jobsClosed, workerVars, writes,
                 writesClosed, outVars, errCh, ctxVars, mainVars, progVars>>

\* Mutant: the bytes of a failed write are counted.
WriteFailsCounted ==
  /\ spc = "write" /\ OutputMayFail
  /\ \E left \in {image[sjob.off], [from |-> sjob.off, kind |-> "torn"]} :
       image' = [image EXCEPT ![sjob.off] = left]
  /\ done' = done + 1
  /\ Release(sjob.buf)
  /\ SetErr("write")
  /\ spc' = AfterSetErr /\ sjob' = NoWrite
  /\ UNCHANGED <<zeros, dispVars, jobs, jobsClosed, workerVars, writes,
                 writesClosed, clipped, elided, ctxVars, mainVars, progVars>>

\* A failed WriteAt leaves the chunk untouched or partly overwritten.
WriteFails ==
  /\ spc = "write" /\ OutputMayFail
  /\ \E left \in {image[sjob.off], [from |-> sjob.off, kind |-> "torn"]} :
       image' = [image EXCEPT ![sjob.off] = left]
  /\ Release(sjob.buf)
  /\ SetErr("write")
  /\ spc' = AfterSetErr /\ sjob' = NoWrite
  /\ UNCHANGED <<zeros, dispVars, jobs, jobsClosed, workerVars, writes,
                 writesClosed, clipped, elided, ctxVars, mainVars, done,
                 progVars>>

WriterCancel ==
  /\ spc = "cancel"
  /\ cancelled' = TRUE
  /\ spc' = "done"
  /\ UNCHANGED <<zeros, dispVars, jobs, jobsClosed, workerVars, writes,
                 writesClosed, sjob, bufVars, outVars, errCh, byCaller,
                 mainVars, done, progVars>>

Writer ==
  \/ ReceiveWrite \/ WriterEnd \/ WriteChunk \/ CountChunk
  \/ WriteFails \/ WriterCancel

-----------------------------------------------------------------------------
(* The calling goroutine, after it has started the others.                 *)

\* Mutant: writes is closed when the first worker has returned.
CloseWritesEarly ==
  /\ mpc = "wait_workers" /\ \E w \in Threads : wpc[w] = "done"
  /\ writesClosed' = TRUE
  /\ mpc' = "wait_writer"
  /\ UNCHANGED <<zeros, dispVars, jobs, jobsClosed, workerVars, writes,
                 writerVars, bufVars, outVars, errCh, ctxVars, result, sealed,
                 done, progVars>>

CloseWrites ==   \* wg.Wait(); close(writes)
  /\ mpc = "wait_workers" /\ \A w \in Threads : wpc[w] = "done"
  /\ writesClosed' = TRUE
  /\ mpc' = "wait_writer"
  /\ UNCHANGED <<zeros, dispVars, jobs, jobsClosed, workerVars, writes,
                 writerVars, bufVars, outVars, errCh, ctxVars, result, sealed,
                 done, progVars>>

\* Mutant: no writeWG.Wait().
TakeResultNoWait ==
  /\ mpc = "wait_writer"
  /\ result' = IF errCh = "empty" THEN "nil" ELSE errCh
  /\ errCh' = "empty"
  /\ mpc' = "unwind"
  /\ UNCHANGED <<zeros, dispVars, jobs, jobsClosed, workerVars, writes,
                 writesClosed, writerVars, bufVars, outVars, ctxVars, sealed,
                 done, progVars>>

TakeResult ==    \* writeWG.Wait(); the last select
  /\ mpc = "wait_writer" /\ spc = "done"
  /\ result' = IF errCh = "empty" THEN "nil" ELSE errCh
  /\ errCh' = "empty"
  /\ mpc' = "unwind"
  /\ UNCHANGED <<zeros, dispVars, jobs, jobsClosed, workerVars, writes,
                 writesClosed, writerVars, bufVars, outVars, ctxVars, sealed,
                 done, progVars>>

Unwind ==        \* deferred cancel() and close(doneCh)
  /\ mpc = "unwind"
  /\ cancelled' = TRUE
  /\ mpc' = "close"
  /\ UNCHANGED <<zeros, dispVars, jobs, jobsClosed, workerVars, writes,
                 writesClosed, writerVars, bufVars, outVars, errCh, byCaller,
                 result, sealed, done, progVars>>

CloseOutput ==   \* deferred outClose(), whose error is dropped
  /\ mpc = "close"
  /\ \E r \in IF OutputMayFail THEN {"yes", "failed"} ELSE {"yes"} : sealed' = r
  /\ mpc' = "returned"
  /\ UNCHANGED <<zeros, dispVars, jobs, jobsClosed, workerVars, writes,
                 writesClosed, writerVars, bufVars, outVars, errCh, ctxVars,
                 result, done, progVars>>

Main == CloseWrites \/ TakeResult \/ Unwind \/ CloseOutput

-----------------------------------------------------------------------------
(* The progress goroutine and the environment.                             *)

DoneClosed == mpc \in {"close", "returned"}

Render ==
  /\ ppc = "ticking" /\ reported # done
  /\ reported' = done
  /\ UNCHANGED <<zeros, dispVars, jobs, jobsClosed, workerVars, writes,
                 writesClosed, writerVars, bufVars, outVars, errCh, ctxVars,
                 mainVars, done, ppc>>

FinalRender ==
  /\ ppc = "ticking" /\ DoneClosed
  /\ reported' = done
  /\ ppc' = "done"
  /\ UNCHANGED <<zeros, dispVars, jobs, jobsClosed, workerVars, writes,
                 writesClosed, writerVars, bufVars, outVars, errCh, ctxVars,
                 mainVars, done>>

CallerCancels ==
  /\ CallerMayCancel /\ ~cancelled /\ mpc # "returned"
  /\ cancelled' = TRUE /\ byCaller' = TRUE
  /\ UNCHANGED <<zeros, dispVars, jobs, jobsClosed, workerVars, writes,
                 writesClosed, writerVars, bufVars, outVars, errCh, mainVars,
                 done, progVars>>

AllReturned ==
  /\ mpc = "returned" /\ ~dispatching /\ ppc = "done" /\ spc = "done"
  /\ \A w \in Threads : wpc[w] = "done"

\* Nothing is left to run: the stuttering that keeps TLC from calling this
\* a deadlock.
Terminated == AllReturned /\ UNCHANGED vars

Next ==
  \/ Dispatch \/ DispatchEnd
  \/ \E w \in Threads : Worker(w)
  \/ Writer
  \/ Main
  \/ Render \/ FinalRender
  \/ CallerCancels
  \/ Terminated

\* The Go scheduler runs every runnable goroutine eventually; nothing obliges
\* the caller to cancel or the ticker to fire.
Fairness ==
  /\ WF_vars(Dispatch \/ DispatchEnd)
  /\ \A w \in Threads : WF_vars(Worker(w))
  /\ WF_vars(Writer)
  /\ WF_vars(Main)
  /\ WF_vars(FinalRender)

Spec     == Init /\ [][Next]_vars
FairSpec == Spec /\ Fairness
-----------------------------------------------------------------------------
(* Properties.                                                             *)

TypeOK ==
  /\ zeros \subseteq Chunks
  /\ nextChunk \in 1 .. NumChunks + 1
  /\ dispatching \in BOOLEAN /\ jobsClosed \in BOOLEAN
  /\ jobs \in Seq(Chunks) /\ Len(jobs) <= JobsCap
  /\ wpc \in [Threads -> {"receive", "check", "read", "send", "cancel", "done"}]
  /\ wjob \in [Threads -> 0 .. NumChunks]
  /\ wbuf \in [Threads -> Buffers \union {NoBuffer}]
  /\ writes \in Seq([off : Chunks, buf : Buffers]) /\ Len(writes) <= WritesCap
  /\ writesClosed \in BOOLEAN
  /\ spc \in {"receive", "write", "count", "cancel", "done"}
  /\ sjob \in [off : Chunks, buf : Buffers] \union {NoWrite}
  /\ pool \subseteq Buffers
  /\ content \in [Buffers -> Piece]
  /\ image \in [Chunks -> Piece]
  /\ clipped \subseteq Chunks /\ elided \subseteq Chunks
  /\ errCh \in {"empty", "read", "write"}
  /\ cancelled \in BOOLEAN /\ byCaller \in BOOLEAN
  /\ mpc \in {"wait_workers", "wait_writer", "unwind", "close", "returned"}
  /\ result \in {"none", "nil", "read", "write"}
  /\ sealed \in {"no", "yes", "failed"}
  /\ done \in Nat /\ reported \in Nat
  /\ ppc \in {"ticking", "done"}

\* A []byte taken from the sync.Pool is in one pair of hands at a time (the
\* pool, one worker, one entry of the channel writes, or the writer): no worker
\* reads into a buffer that another goroutine has yet to write out.
BufferExclusive ==
  /\ \A w \in Threads :
       wbuf[w] # NoBuffer => wbuf[w] \notin pool /\ wbuf[w] # sjob.buf
  /\ \A v, w \in Threads : v # w /\ wbuf[v] = wbuf[w] => wbuf[v] = NoBuffer
  /\ sjob.buf \notin pool
  /\ \A i \in DOMAIN writes :
       /\ writes[i].buf \notin pool
       /\ writes[i].buf # sjob.buf
       /\ \A w \in Threads : writes[i].buf # wbuf[w]
       /\ \A j \in DOMAIN writes : writes[i].buf = writes[j].buf => i = j

\* Whatever order the workers finish in, every chunk of the output holds the
\* bytes of that chunk of the source or none at all.
Faithful == \A c \in Chunks : image[c].kind # "blank" => image[c].from = c

\* close(writes) and close(jobs) are safe: no worker is left to send on writes
\* (a Go panic), and the dispatcher sends nothing more.
NoSendOnClosed ==
  /\ writesClosed => \A w \in Threads : wpc[w] = "done"
  /\ jobsClosed => ~dispatching

Written == {c \in Chunks : image[c].kind \in {"full", "short"}}

\* The progress given to the caller never runs ahead of what is in the output,
\* whichever of the workers and the writer counted it.
DoneNotAhead ==
  reported <= done /\ done <= Cardinality(Written) + Cardinality(elided)

\* The last progress report, made while ConvertRange returns, counts every
\* byte that was copied: the goroutines that count have all stopped by then.
FinalReport ==
  ppc = "done" => reported = Cardinality(Written) + Cardinality(elided)

\* No goroutine is leaked and the caller gets its answer, even when a worker
\* or the writer stops on an error while the channels are full.
EventuallyAllReturned == <>AllReturned

\* ConvertRange is an ImageCopy. A chunk with foreign bytes has no abstract
\* counterpart.
Copying == INSTANCE ImageCopy WITH
  image <- [c \in Chunks |-> IF image[c].from \in {0, c} THEN image[c].kind
                                                         ELSE "foreign"],
  interrupted <- byCaller,
  failed <- errCh # "empty" \/ result \in {"read", "write"},
  outcome <- IF result \in {"read", "write"} THEN "error" ELSE result

\* Every behaviour of the goroutines is one of ImageCopy: at most one write per
\* chunk and none after the result is taken, an error if and only if something
\* failed, and no chunk silently left out otherwise.
ImplementsImageCopy == Copying!Spec

\* A caller who is told nil has a complete copy.
NilMeansComplete ==
  result = "nil" =>
    \A c \in Chunks : image[c].kind = "full" \/ (ElideZeros /\ c \in zeros)

\* A caller who is told nil has an output that was closed without an error.
NilMeansSealed == mpc = "returned" /\ result = "nil" => sealed = "yes"
=============================================================================
