----------------------------- MODULE FileTransfer -----------------------------
(***************************************************************************)
(* One file goes from the device "sender" to the device "receiver" over    *)
(* their P2P connection: FileTransferService and its repository, the       *)
(* control messages and the data pump of LeyoApplication, and the worker   *)
(* thread FileReceiveWorker.                                               *)
(*                                                                         *)
(* Each device has one row of the file task with its completed chunks.     *)
(* The connection is FIFO; each end learns of its loss by itself, and what *)
(* was on its way to an end that has lost it is gone.  A connection counts *)
(* for an end once it has handled the other's hello.  A file is the set of *)
(* the chunks it holds; it has the right size as soon as it holds the      *)
(* last one.                                                               *)
(***************************************************************************)
EXTENDS Naturals, Sequences, FiniteSets, FiniteSetsExt, SequencesExt

CONSTANTS
  ChunkCount,      \* FileTransferTask::chunkCount
  ChunksPerTick,   \* kChunksPerPumpTick
  ProgressStep,    \* the chunks of 1 MiB, between two progress reports
  Attempts         \* firings of a retry timer's loop

CONSTANTS          \* bounds for model checking
  Restarting,      \* the devices that may restart
  MaxDisturbances  \* losses of the connection, failures, restarts, later requests of the
                   \* users, and timers that fire and find something to do

ASSUME SizesArePositive ==
  /\ ChunkCount \in Nat \ {0} /\ ChunksPerTick \in Nat \ {0}
  /\ ProgressStep \in Nat \ {0} /\ Attempts \in Nat

Devices == {"sender", "receiver"}
Other(d) == IF d = "sender" THEN "receiver" ELSE "sender"
Chunks == 0 .. ChunkCount - 1
LastChunk == ChunkCount - 1

VARIABLES
  state,      \* file_tasks.state of each device's row, "Absent" without a row
  done,       \* table file_chunks of each device
  reported,   \* file_tasks.bytes_completed of the receiver, in chunks
  link,       \* each end of the connection: "down", "open" or "registered"
  net,        \* the messages on their way to each device
  active,     \* activeOutgoingDataPumpTasks holds the task
  pumps,      \* the pump loops that run
  timers,     \* the firings left of each timer
  chunkQueue, \* processChunk calls queued for the worker thread
  writing,    \* the chunk the worker has written and not recorded yet
  results,    \* chunkProcessed and chunkFailed signals queued for the GUI thread
  temp,       \* the chunks in the part file; what becomes of the finished file is left out
  written,    \* history: the chunks the receiver has ever recorded
  budget      \* what is left of the bounds

rows == <<state, done, reported>>
wire == <<link, net>>
pumping == <<active, pumps>>
worker == <<chunkQueue, writing, results>>
files == <<temp, written>>
vars == <<rows, wire, pumping, timers, worker, files, budget>>

InFlight == {"Transferring", "Completing", "Completed"}
Kickable == {"WaitingAccept", "ReadyToTransfer", "Interrupted", "PendingOffer"}
Resumable == {"WaitingAccept", "ReadyToTransfer", "Transferring", "Interrupted", "Completing"}
Ended == {"Completed", "Failed", "Canceled"}

Nothing == [chunk |-> ChunkCount, bytes |-> 0]

Init ==
  /\ state = [d \in Devices |-> "Absent"]
  /\ done = [d \in Devices |-> {}]
  /\ reported = 0
  /\ link = [d \in Devices |-> "down"]
  /\ net = [d \in Devices |-> << >>]
  /\ active = FALSE /\ pumps = << >>
  /\ timers = [kick |-> 0, offer |-> 0, ready |-> 0, complete |-> 0]
  /\ chunkQueue = << >> /\ writing = Nothing /\ results = << >>
  /\ temp = {} /\ written = {}
  /\ budget = MaxDisturbances

Disturbs == budget > 0 /\ budget' = budget - 1

Control(type) == [type |-> type, chunks |-> {}]
Ready(d) == [type |-> "Ready", chunks |-> done[d]]
Chunk(c) == [type |-> "Chunk", chunks |-> {c}]

Registered(d) == link[d] = "registered"
\* The queues after d has sent the messages over a connection it believes open.
Sent(queues, d, msgs) ==
  IF link[d] # "down" /\ link[Other(d)] # "down"
  THEN [queues EXCEPT ![Other(d)] = @ \o msgs] ELSE queues
Sends(d, msgs) == net' = Sent(net, d, msgs)

SetState(d, s) == state' = [state EXCEPT ![d] = IF @ = "Absent" THEN @ ELSE s]

-----------------------------------------------------------------------------
(* The sender's data pump.  An operator whose comment begins with "Faulty" *)
(* is a version of the next definition with a plausible mistake.           *)

\* A loop keeps its own set of dispatched chunks and its own connection.
Loop(chunks) == [dispatched |-> chunks, alive |-> TRUE]

\* Faulty: everything dispatched is taken for everything received.
AwaitNothing == "Completed"

\* Faulty: nothing ends the wait.
NoTimer(t) == t

\* markOutgoingAwaitingCompletion, which also starts a timer.
AwaitingState == "Completing"
AwaitTimers(t) == [t EXCEPT !.complete = @ + 1]

\* startOutgoingDataTransfer for a row in state s with the chunks of file_chunks; the
\* timers are t after the handler that calls it.
StartTransfer(s, chunks, t) ==
  \/ /\ s \in InFlight \/ active
     /\ SetState("sender", s) /\ timers' = t /\ UNCHANGED pumping
  \/ /\ s \notin InFlight /\ ~active /\ chunks = Chunks
     /\ SetState("sender", AwaitingState) /\ timers' = AwaitTimers(t)
     /\ UNCHANGED pumping
  \/ /\ s \notin InFlight /\ ~active /\ chunks # Chunks
     /\ SetState("sender", "Transferring")
     /\ active' = TRUE /\ pumps' = Append(pumps, Loop(chunks))
     /\ timers' = t

EndLoop(i) == pumps' = RemoveAt(pumps, i)

\* Faulty: the task stays in activeOutgoingDataPumpTasks.
PumpFailsActive(i) ==
  /\ active
  /\ IF pumps[i].alive THEN Disturbs ELSE UNCHANGED budget
  /\ EndLoop(i)
  /\ SetState("sender", "Interrupted")
  /\ UNCHANGED <<done, reported, wire, active, timers, worker, files>>

\* failTransfer: the source cannot be read, or the loop's connection is gone.
PumpFails(i) ==
  /\ active
  /\ IF pumps[i].alive THEN Disturbs ELSE UNCHANGED budget
  /\ active' = FALSE /\ EndLoop(i)
  /\ SetState("sender", "Interrupted")
  /\ UNCHANGED <<done, reported, wire, timers, worker, files>>

\* The task was taken out of activeOutgoingDataPumpTasks.
PumpStops(i) ==
  /\ ~active /\ EndLoop(i)
  /\ UNCHANGED <<rows, wire, active, timers, worker, files, budget>>

\* prepareOutgoingChunkBatch: the next chunks that the loop has not dispatched, in order.
NextBatches(dispatched) ==
  LET todo == Chunks \ dispatched
      size == IF Cardinality(todo) < ChunksPerTick THEN Cardinality(todo) ELSE ChunksPerTick
  IN  {batch \in [1 .. size -> todo] :
         \A k \in 1 .. size : {c \in todo : c < batch[k]} = {batch[i] : i \in 1 .. k - 1}}

PumpSends(i) ==
  /\ active /\ pumps[i].alive
  /\ \E batch \in NextBatches(pumps[i].dispatched) :
       LET dispatched == pumps[i].dispatched \union ToSet(batch)
       IN  /\ Sends("sender", [k \in DOMAIN batch |-> Chunk(batch[k])])
           /\ \/ /\ dispatched = Chunks
                 /\ active' = FALSE /\ EndLoop(i)
                 /\ SetState("sender", AwaitingState) /\ timers' = AwaitTimers(timers)
              \/ /\ dispatched # Chunks
                 /\ pumps' = [pumps EXCEPT ![i].dispatched = dispatched]
                 /\ UNCHANGED <<active, state, timers>>
  /\ UNCHANGED <<done, reported, link, worker, files, budget>>

PumpTick == \E i \in DOMAIN pumps : PumpFails(i) \/ PumpStops(i) \/ PumpSends(i)

-----------------------------------------------------------------------------
(* The timers.  Several loops of one kind may run; a kind has the firings  *)
(* of its last one.  A firing that finds nothing to do ends its loop; as   *)
(* a firing may come late, or never, it is not a step here.                *)

Fire(kind) == timers[kind] > 0 /\ Disturbs

OneLess(kind) == [timers EXCEPT ![kind] = @ - 1]

\* kOutgoingCompleteTimeoutMs after the last chunk; one timer for each time.
CompleteTimer ==
  /\ timers.complete > 0 /\ state["sender"] = "Completing"
  /\ SetState("sender", "Interrupted")
  /\ timers' = OneLess("complete")
  /\ UNCHANGED <<done, reported, wire, pumping, worker, files, budget>>

\* scheduleOptimisticDataPump and the loop that follows a ready message.
KickTimer ==
  /\ Fire("kick") /\ state["sender"] \in Kickable /\ ~active /\ Registered("sender")
  /\ StartTransfer(state["sender"], done["sender"], OneLess("kick"))
  /\ UNCHANGED <<done, reported, wire, worker, files>>

\* scheduleOutgoingOfferRetry.
OfferTimer ==
  /\ Fire("offer") /\ state["sender"] \in {"WaitingAccept", "PendingOffer"}
  /\ Registered("sender")
  /\ Sends("sender", <<Control("Offer")>>)
  /\ StartTransfer(state["sender"], done["sender"], OneLess("offer"))
  /\ UNCHANGED <<done, reported, link, worker, files>>

\* scheduleReadyRetry of the receiver's Offer handler.
ReadyTimer ==
  /\ Fire("ready") /\ state["receiver"] = "ReadyToTransfer" /\ Registered("receiver")
  /\ Sends("receiver", <<Ready("receiver")>>)
  /\ timers' = OneLess("ready")
  /\ UNCHANGED <<rows, link, pumping, worker, files>>

-----------------------------------------------------------------------------
(* The user.                                                               *)

\* createOutgoingTask, the Offer and the timers behind it; offline, a PendingOffer.
SendFile ==
  /\ state["sender"] = "Absent"
  /\ \/ /\ Registered("sender")
        /\ state' = [state EXCEPT !["sender"] = "WaitingAccept"]
        /\ Sends("sender", <<Control("Offer")>>)
        /\ timers' = [timers EXCEPT !.kick = Attempts, !.offer = Attempts]
     \/ /\ ~Registered("sender")
        /\ state' = [state EXCEPT !["sender"] = "PendingOffer"]
        /\ UNCHANGED <<net, timers>>
  /\ UNCHANGED <<done, reported, link, pumping, worker, files, budget>>

\* cancelTransferRequested, and cancelSameNameTransfersRequested, which tells nobody.
CancelTransfer(d) ==
  /\ state[d] \notin Ended \union {"Absent"} /\ Disturbs
  /\ SetState(d, "Canceled")
  /\ active' = (active /\ d # "sender")
  /\ \/ Registered(d) /\ Sends(d, <<Control("Cancel")>>)
     \/ UNCHANGED net
  /\ UNCHANGED <<done, reported, link, pumps, timers, worker, files>>

\* retryTransferRequested.
RetryTransfer(d) ==
  /\ state[d] # "Absent" /\ Registered(d) /\ Disturbs
  /\ Sends(d, << CASE d = "receiver" -> Ready(d)
                   [] d = "sender" /\ state[d] \in {"WaitingAccept", "PendingOffer", "Failed", "Canceled"}
                        -> Control("Offer")
                   [] OTHER -> Control("ResumeRequest") >>)
  /\ UNCHANGED <<rows, link, pumping, timers, worker, files>>

\* resendPendingFileOffersForTarget, then requestFileTransferResumeForTarget; both read
\* loadResumableTasks, which has no PendingOffer.
ResendFor(d) ==
  /\ Sends(d, CASE state[d] = "WaitingAccept" -> <<Control("Offer")>>
                [] state[d] \in Resumable \ {"WaitingAccept"} -> <<Control("ResumeRequest")>>
                [] OTHER -> << >>)
  /\ timers' = IF state[d] = "WaitingAccept" THEN [timers EXCEPT !.kick = Attempts] ELSE timers

\* retryPendingRequested.
RetryPending(d) ==
  /\ state[d] \in Resumable /\ Registered(d) /\ Disturbs
  /\ ResendFor(d)
  /\ UNCHANGED <<rows, link, pumping, worker, files>>

-----------------------------------------------------------------------------
(* The connection and its messages.                                        *)

Connect ==
  /\ \A d \in Devices : link[d] = "down"
  /\ link' = [d \in Devices |-> "open"]
  /\ UNCHANGED <<rows, net, pumping, timers, worker, files, budget>>

HandleHello(d) ==
  /\ link[d] = "open"
  /\ link' = [link EXCEPT ![d] = "registered"]
  /\ ResendFor(d)
  /\ UNCHANGED <<rows, pumping, worker, files, budget>>

\* interruptFileTransfersForTargets; a connection without a hello has no target.
Interrupted(d) ==
  IF Registered(d) /\ state[d] \in Resumable \ {"WaitingAccept"} THEN "Interrupted" ELSE state[d]

\* An end learns that the connection is lost; only the first one is a disturbance.
Disconnect(d) ==
  /\ link[d] # "down"
  /\ IF link[Other(d)] = "down" THEN UNCHANGED budget ELSE Disturbs
  /\ link' = [link EXCEPT ![d] = "down"]
  /\ net' = [net EXCEPT ![d] = << >>]
  /\ SetState(d, Interrupted(d))
  /\ pumps' = [i \in DOMAIN pumps |-> [pumps[i] EXCEPT !.alive = @ /\ d # "sender"]]
  /\ UNCHANGED <<done, reported, active, timers, worker, files>>

\* The tables and the files are kept, the rest of the device's state is not.
Restart(d) ==
  /\ d \in Restarting /\ Disturbs
  /\ link' = [link EXCEPT ![d] = "down"]
  /\ net' = [net EXCEPT ![d] = << >>]
  /\ \/ /\ d = "sender"
        /\ active' = FALSE /\ pumps' = << >>
        /\ timers' = [timers EXCEPT !.kick = 0, !.offer = 0, !.complete = 0]
        /\ UNCHANGED worker
     \/ /\ d = "receiver"
        /\ timers' = [timers EXCEPT !.ready = 0]
        /\ chunkQueue' = << >> /\ writing' = Nothing /\ results' = << >>
        /\ UNCHANGED pumping
  /\ UNCHANGED <<rows, files>>

\* acceptIncomingOffer; then Accept and the ready timer.
HasProgress ==
  \/ state["receiver"] \in InFlight
  \/ reported > 0
  \/ done["receiver"] # {}

HandleOffer ==
  /\ \/ /\ HasProgress
        /\ UNCHANGED <<rows, temp>>
     \/ /\ ~HasProgress
        /\ state' = [state EXCEPT !["receiver"] = "ReadyToTransfer"]
        /\ temp' = {}
        /\ UNCHANGED <<done, reported>>
  /\ net' = Sent([net EXCEPT !["receiver"] = Tail(@)], "receiver", <<Ready("receiver")>>)
  /\ timers' = [timers EXCEPT !.ready = Attempts]
  /\ UNCHANGED <<active, pumps, written>>

\* buildReadyEnvelope finds the row, whatever its direction.
HandleResumeRequest(d) ==
  /\ net' = Sent([net EXCEPT ![d] = Tail(@)], d,
                 IF state[d] = "Absent" THEN << >> ELSE <<Ready(d)>>)
  /\ UNCHANGED <<rows, timers, pumping, files>>

\* applyRemoteReady: the chunks are replaced on either device.
StateAfterReady(d, chunks) ==
  CASE state[d] = "Absent" -> "Absent"
    [] state[d] # "Absent" /\ chunks = Chunks -> "Completed"
    [] state[d] \in InFlight /\ chunks # Chunks -> state[d]
    [] OTHER -> "ReadyToTransfer"

Larger(a, b) == IF a > b THEN a ELSE b

HandleReady(d, chunks) ==
  /\ net' = [net EXCEPT ![d] = Tail(@)]
  /\ done' = [done EXCEPT ![d] = IF state[d] = "Absent" THEN {} ELSE chunks]
  /\ \/ /\ d = "receiver"
        /\ SetState(d, StateAfterReady(d, chunks))
        /\ reported' = IF state[d] \in InFlight THEN Larger(reported, Cardinality(chunks))
                       ELSE Cardinality(chunks)
        /\ UNCHANGED <<timers, pumping>>
     \/ /\ d = "sender"
        /\ LET s == StateAfterReady(d, chunks)
           IN  StartTransfer(s, chunks, [timers EXCEPT !.kick =
                 IF s \in InFlight \union {"Absent"} \/ active THEN @ ELSE Attempts])
        /\ UNCHANGED reported
  /\ UNCHANGED files

\* applyRemoteProgress: any other state than these becomes Transferring.
StateAfterProgress(s) == IF s \in {"Completed", "Completing"} THEN s ELSE "Transferring"

HandleProgress(chunks) ==
  /\ net' = [net EXCEPT !["sender"] = Tail(@)]
  /\ done' = [done EXCEPT !["sender"] = IF state["sender"] = "Absent" THEN {} ELSE chunks]
  /\ SetState("sender", StateAfterProgress(state["sender"]))
  /\ UNCHANGED <<reported, timers, pumping, files>>

\* Reject, Fail, Cancel and Complete: markTaskState without a condition.
HandleEnd(d, s) ==
  /\ net' = [net EXCEPT ![d] = Tail(@)]
  /\ SetState(d, s)
  /\ UNCHANGED <<done, reported, timers, pumping, files>>

Receive(d) ==
  /\ Registered(d) /\ net[d] # << >>
  /\ LET m == Head(net[d])
     IN  \/ /\ m.type = "Offer" /\ HandleOffer /\ UNCHANGED worker
         \/ /\ m.type = "ResumeRequest" /\ HandleResumeRequest(d) /\ UNCHANGED worker
         \/ /\ m.type = "Ready" /\ HandleReady(d, m.chunks) /\ UNCHANGED worker
         \/ /\ m.type = "Progress" /\ HandleProgress(m.chunks) /\ UNCHANGED worker
         \/ /\ m.type = "Cancel" /\ HandleEnd(d, "Canceled") /\ UNCHANGED worker
         \/ /\ m.type = "Fail" /\ HandleEnd(d, "Failed") /\ UNCHANGED worker
         \/ /\ m.type = "Complete" /\ HandleEnd(d, "Completed") /\ UNCHANGED worker
         \/ /\ m.type = "Chunk"      \* handleIncomingChunk
            /\ net' = [net EXCEPT ![d] = Tail(@)]
            /\ chunkQueue' = chunkQueue \o SetToSeq(m.chunks)
            /\ UNCHANGED <<rows, timers, pumping, files, writing, results>>
  /\ UNCHANGED <<link, budget>>

-----------------------------------------------------------------------------
(* The worker thread: processChunk writes the part file, then records.     *)

WorkerWrites ==
  /\ writing = Nothing /\ chunkQueue # << >>
  /\ chunkQueue' = Tail(chunkQueue)
  /\ \/ /\ state["receiver"] = "Absent"
        /\ UNCHANGED <<writing, temp, results, budget>>
     \/ /\ state["receiver"] # "Absent"
        /\ writing' = [chunk |-> Head(chunkQueue), bytes |-> reported]
        /\ temp' = temp \union {Head(chunkQueue)}
        /\ UNCHANGED <<results, budget>>
     \/ /\ state["receiver"] # "Absent" /\ Disturbs
        /\ results' = Append(results, [type |-> "failed", completed |-> FALSE,
                                       publish |-> FALSE, chunks |-> {}])
        /\ UNCHANGED <<writing, temp>>
  /\ UNCHANGED <<rows, wire, pumping, timers, written>>

\* recorded: file_chunks with this chunk; bytes: the row's bytes_completed when it was read.
BytesOf(chunk, recorded, bytes) ==
  IF chunk = LastChunk THEN Cardinality(recorded) ELSE Larger(bytes, chunk + 1)
Publishes(chunk, recorded, bytes) ==
  \/ chunk = 0
  \/ chunk = LastChunk /\ recorded = Chunks
  \/ BytesOf(chunk, recorded, bytes) >= bytes + ProgressStep
Completes(chunk, recorded, bytes) ==
  /\ recorded = Chunks
  /\ chunk = LastChunk \/ Publishes(chunk, recorded, bytes) \/ bytes >= ChunkCount

\* Faulty: everything up to the chunk counts as recorded.
RecordedUpTo(chunk) == done["receiver"] \union 0 .. chunk

\* recordCompletedChunk.
Recorded(chunk) == done["receiver"] \union {chunk}

WorkerRecords ==
  /\ writing # Nothing
  /\ writing' = Nothing
  /\ LET chunk == writing.chunk
         recorded == Recorded(chunk)
         publish == Publishes(chunk, recorded, writing.bytes)
         completed == Completes(chunk, recorded, writing.bytes)
     IN  /\ done' = [done EXCEPT !["receiver"] = recorded]
         /\ written' = written \union {chunk}
         /\ IF publish
            THEN /\ SetState("receiver", IF completed THEN "Completing" ELSE "Transferring")
                 /\ reported' = Cardinality(recorded)
            ELSE UNCHANGED <<state, reported>>
         /\ results' = IF publish \/ completed
                       THEN Append(results, [type |-> "processed", completed |-> completed,
                                             publish |-> publish, chunks |-> recorded])
                       ELSE results
  /\ UNCHANGED <<wire, pumping, timers, chunkQueue, temp, budget>>

\* finalizeIncomingTask, with the messages msgs before it: only the size is compared.  A part
\* file that cannot take the target's place is kept, and the task fails as well.
Finalize(msgs) ==
  \/ /\ LastChunk \in temp
     /\ temp' = {}
     /\ SetState("receiver", "Completed") /\ reported' = ChunkCount
     /\ Sends("receiver", Append(msgs, Control("Complete")))
  \/ /\ SetState("receiver", "Failed")
     /\ Sends("receiver", Append(msgs, Control("Fail")))
     /\ UNCHANGED <<temp, reported>>

\* The chunkProcessed and chunkFailed slots.
HandleResult ==
  /\ results # << >> /\ results' = Tail(results)
  /\ LET r == Head(results)
         progress == IF r.publish THEN <<[type |-> "Progress", chunks |-> r.chunks]>> ELSE << >>
     IN  \/ /\ r.type = "failed"
            /\ SetState("receiver", "Failed")
            /\ Sends("receiver", <<Control("Fail")>>)
            /\ UNCHANGED <<temp, reported>>
         \/ /\ r.type = "processed" /\ r.completed
            /\ Finalize(progress)
         \/ /\ r.type = "processed" /\ ~r.completed
            /\ Sends("receiver", progress)
            /\ UNCHANGED <<state, reported, temp>>
  /\ UNCHANGED <<done, link, pumping, timers, chunkQueue, writing, written, budget>>

-----------------------------------------------------------------------------
User ==
  \/ SendFile
  \/ \E d \in Devices : CancelTransfer(d) \/ RetryTransfer(d) \/ RetryPending(d)

Step(d) == HandleHello(d) \/ Receive(d)

Next ==
  \/ User
  \/ Connect
  \/ \E d \in Devices : Step(d) \/ Disconnect(d) \/ Restart(d)
  \/ PumpTick \/ CompleteTimer \/ KickTimer \/ OfferTimer \/ ReadyTimer
  \/ WorkerWrites \/ WorkerRecords \/ HandleResult

Spec == Init /\ [][Next]_vars

\* Pumps, the completion timer, the worker and the event loops run; users, retry timers and
\* connections owe nothing.
FairSpec ==
  /\ Spec
  /\ WF_vars(PumpTick) /\ WF_vars(CompleteTimer)
  /\ WF_vars(WorkerWrites) /\ WF_vars(WorkerRecords) /\ WF_vars(HandleResult)
  /\ \A d \in Devices : WF_vars(Step(d))

-----------------------------------------------------------------------------
Message == [type : {"Offer", "Ready", "ResumeRequest", "Progress", "Cancel", "Fail",
                    "Complete", "Chunk"}, chunks : SUBSET Chunks]

\* The types of the variables; a task is in activeOutgoingDataPumpTasks only while a loop
\* sends its chunks.
TypeOK ==
  /\ state \in [Devices -> Resumable \union Ended \union {"Absent", "PendingOffer"}]
  /\ state["receiver"] \notin {"WaitingAccept", "PendingOffer"}
  /\ done \in [Devices -> SUBSET Chunks] /\ reported \in 0 .. ChunkCount
  /\ link \in [Devices -> {"down", "open", "registered"}]
  /\ \A d \in Devices : net[d] \in Seq(Message)
  /\ active \in BOOLEAN /\ pumps \in Seq([dispatched : SUBSET Chunks, alive : BOOLEAN])
  /\ active => pumps # << >>
  /\ temp \in SUBSET Chunks /\ written \in SUBSET Chunks

-----------------------------------------------------------------------------
(* Properties.                                                             *)

\* The sender is shown a completed transfer only when the receiver has recorded each of its
\* chunks: the Complete message, a ready message after lost connections and timeouts, and
\* the state after the last dispatched chunk must not run ahead of the receiver's disk.
CompletionIsEarned == state["sender"] = "Completed" => written = Chunks

\* A pump skips the chunks in the sender's table, which ready and progress messages replace
\* in any order; each of them has been on the receiver's disk, or nobody ever sends it.
SkippedChunksWereWritten ==
  /\ done["sender"] \subseteq written
  /\ done["receiver"] \subseteq written

\* A pump loop ends, at the last chunk, with its connection, or when the task is cancelled or
\* restarted under it; and the sender does not wait for the confirmation forever, whatever
\* was lost, as long as its process lives: the timer is not kept over a restart.
SendingEnds ==
  /\ pumps # << >> ~> pumps = << >>
  /\ state["sender"] = "Completing" ~> state["sender"] # "Completing"
=============================================================================
