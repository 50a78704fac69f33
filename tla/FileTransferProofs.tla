-------------------------- MODULE FileTransferProofs --------------------------
(***************************************************************************)
(* Proofs about the transfer of a file, for every number of chunks, every  *)
(* pace of the pump and every bound.                                       *)
(*                                                                         *)
(* The sender completes a transfer because of a message, a ready message   *)
(* or its own table, which messages replace; so the invariant ties each    *)
(* message under way, and each result of the worker not handled yet, to    *)
(* the chunks the receiver has recorded until now.                         *)
(***************************************************************************)
EXTENDS FileTransfer, TLAPS, FiniteSetTheorems, SequenceTheorems

-----------------------------------------------------------------------------
(* The inductive invariant.                                                *)

\* The states of d's row when the receiver has recorded the chunks.
StatesOf(d, recorded) ==
  {s \in Resumable \union Ended \union {"Absent", "PendingOffer"} :
     /\ d = "receiver" => s \notin {"WaitingAccept", "PendingOffer"}
     /\ d = "sender" /\ s = "Completed" => recorded = Chunks}

Rows(recorded) ==
  {s \in [Devices -> Resumable \union Ended \union {"Absent", "PendingOffer"}] :
     \A d \in Devices : s[d] \in StatesOf(d, recorded)}

\* What may be on its way to d when the receiver has recorded the chunks.
MessagesTo(d, recorded) ==
  {m \in Message :
     /\ m.type = "Offer" => d = "receiver"
     /\ m.type = "Chunk" => d = "receiver" /\ \E c \in Chunks : m.chunks = {c}
     /\ m.type = "Progress" => d = "sender"
     /\ m.type \in {"Ready", "Progress"} => m.chunks \subseteq recorded
     /\ m.type = "Complete" => recorded = Chunks}

Nets(recorded) ==
  {n \in [Devices -> Seq(Message)] :
     \A d \in Devices : n[d] \in Seq(MessagesTo(d, recorded))}

Loops == [dispatched : SUBSET Chunks, alive : BOOLEAN]

\* The chunk that the worker has written, with what the row said before.
Writes == {Nothing} \union [chunk : Chunks, bytes : 0 .. ChunkCount]

Results(recorded) ==
  {r \in [type : {"failed", "processed"}, completed : BOOLEAN, publish : BOOLEAN,
          chunks : SUBSET recorded] :
     r.completed => recorded = Chunks}

RowsInv ==
  /\ state \in Rows(written)
  /\ done \in [Devices -> SUBSET written] /\ reported \in 0 .. ChunkCount

WireInv ==
  /\ link \in [Devices -> {"down", "open", "registered"}]
  /\ net \in Nets(written)

PumpsInv == active \in BOOLEAN /\ pumps \in Seq(Loops) /\ (active => pumps # << >>)

WorkerInv == chunkQueue \in Seq(Chunks) /\ writing \in Writes /\ results \in Seq(Results(written))

FilesInv == temp \in SUBSET Chunks /\ written \in SUBSET Chunks

Inv == RowsInv /\ WireInv /\ PumpsInv /\ WorkerInv /\ FilesInv

-----------------------------------------------------------------------------
(* Chunks and sequences.                                                   *)

LEMMA CountOfChunks ==
  /\ IsFiniteSet(Chunks) /\ Cardinality(Chunks) = ChunkCount
  /\ \A S \in SUBSET Chunks : Cardinality(S) \in 0 .. ChunkCount
<1>1. ChunkCount \in Nat \ {0}
  BY SizesArePositive
<1>2. IsFiniteSet(Chunks) /\ Cardinality(Chunks) = ChunkCount
  BY <1>1, FS_Interval DEF Chunks
<1>3. ASSUME NEW S \in SUBSET Chunks PROVE Cardinality(S) \in 0 .. ChunkCount
  BY <1>1, <1>2, FS_Subset, FS_CardinalityType
<1> QED
  BY <1>2, <1>3

\* The sequence of one chunk.
LEMMA OneChunk ==
  ASSUME NEW c \in Chunks
  PROVE  SetToSeq({c}) \in Seq(Chunks)
<1>1. Cardinality({c}) = 1
  BY FS_Singleton
<1> DEFINE f == [i \in 1 .. 1 |-> c]
<1>2. f \in [1 .. 1 -> {c}] /\ IsInjective(f)
  BY DEF IsInjective
<1>3. SetToSeq({c}) \in [1 .. 1 -> {c}]
  BY <1>1, <1>2 DEF SetToSeq
<1> QED
  BY <1>3

LEMMA TailIn ==
  ASSUME NEW S, NEW s \in Seq(S), s # << >>
  PROVE  Tail(s) \in Seq(S) /\ Head(s) \in S
BY HeadTailProperties

LEMMA RemoveAtIn ==
  ASSUME NEW S, NEW s \in Seq(S), NEW i \in DOMAIN s
  PROVE  RemoveAt(s, i) \in Seq(S)
<1>1. DOMAIN s = 1 .. Len(s) /\ Len(s) \in Nat
  BY LenProperties
<1>2. SubSeq(s, 1, i - 1) \in Seq(S) /\ SubSeq(s, i + 1, Len(s)) \in Seq(S)
  BY <1>1, SubSeqProperties
<1> QED
  BY <1>2, ConcatProperties DEF RemoveAt

-----------------------------------------------------------------------------
(* The worker only adds to what is recorded.                               *)

LEMMA Grows ==
  ASSUME NEW old \in SUBSET Chunks, NEW new \in SUBSET Chunks, old \subseteq new
  PROVE  /\ Rows(old) \subseteq Rows(new)
         /\ Nets(old) \subseteq Nets(new)
         /\ [Devices -> SUBSET old] \subseteq [Devices -> SUBSET new]
         /\ Seq(Results(old)) \subseteq Seq(Results(new))
<1>1. old = Chunks => new = Chunks
  OBVIOUS
<1>2. \A d \in Devices : StatesOf(d, old) \subseteq StatesOf(d, new)
  BY <1>1 DEF StatesOf
<1>3. Rows(old) \subseteq Rows(new)
  BY <1>2 DEF Rows
<1>4. ASSUME NEW d \in Devices PROVE Seq(MessagesTo(d, old)) \subseteq Seq(MessagesTo(d, new))
  <2>1. MessagesTo(d, old) \subseteq MessagesTo(d, new)
    BY <1>1 DEF MessagesTo
  <2> QED
    BY <2>1, SeqMonotonic
<1>5. Nets(old) \subseteq Nets(new)
  BY <1>4 DEF Nets
<1>6. Results(old) \subseteq Results(new)
  <2>1. SUBSET old \subseteq SUBSET new
    OBVIOUS
  <2> QED
    BY <1>1, <2>1 DEF Results
<1> QED
  BY <1>3, <1>5, <1>6, SeqMonotonic

-----------------------------------------------------------------------------
(* Parts of the steps.                                                     *)

LEMMA SetStateKeeps ==
  ASSUME Inv, NEW d \in Devices, NEW s \in StatesOf(d, written), SetState(d, s)
  PROVE  state' \in Rows(written)
BY DEF Inv, RowsInv, Rows, StatesOf, SetState

LEMMA Wired ==
  ASSUME NEW n \in Nets(written), NEW d \in Devices, NEW q \in Seq(MessagesTo(d, written))
  PROVE  [n EXCEPT ![d] = q] \in Nets(written)
<1>1. MessagesTo(d, written) \subseteq Message
  BY DEF MessagesTo
<1>2. q \in Seq(Message)
  BY <1>1, SeqMonotonic
<1> QED
  BY <1>2 DEF Nets

LEMMA SentIn ==
  ASSUME NEW n \in Nets(written), NEW d \in Devices,
         NEW msgs \in Seq(MessagesTo(Other(d), written))
  PROVE  Sent(n, d, msgs) \in Nets(written)
<1>1. Other(d) \in Devices
  BY DEF Other, Devices
<1>2. n[Other(d)] \o msgs \in Seq(MessagesTo(Other(d), written))
  BY <1>1, ConcatProperties DEF Nets
<1>3. [n EXCEPT ![Other(d)] = @ \o msgs] = [n EXCEPT ![Other(d)] = n[Other(d)] \o msgs]
  OBVIOUS
<1> QED
  BY <1>1, <1>2, <1>3, Wired DEF Sent

LEMMA Received ==
  ASSUME Inv, NEW d \in Devices, net[d] # << >>
  PROVE  /\ [net EXCEPT ![d] = Tail(@)] \in Nets(written)
         /\ Head(net[d]) \in MessagesTo(d, written)
<1>1. net \in Nets(written) /\ net[d] \in Seq(MessagesTo(d, written))
  BY DEF Inv, WireInv, Nets
<1>2. Tail(net[d]) \in Seq(MessagesTo(d, written)) /\ Head(net[d]) \in MessagesTo(d, written)
  BY <1>1, TailIn
<1>3. [net EXCEPT ![d] = Tail(@)] = [net EXCEPT ![d] = Tail(net[d])]
  OBVIOUS
<1> QED
  BY <1>1, <1>2, <1>3, Wired

\* The messages that may always be sent.
LEMMA Controls ==
  ASSUME NEW d \in Devices
  PROVE  /\ << >> \in Seq(MessagesTo(d, written))
         /\ \A type \in {"ResumeRequest", "Cancel", "Fail"} :
              <<Control(type)>> \in Seq(MessagesTo(d, written))
         /\ <<Control("Offer")>> \in Seq(MessagesTo("receiver", written))
<1>1. \A type \in {"ResumeRequest", "Cancel", "Fail"} : Control(type) \in MessagesTo(d, written)
  BY DEF Control, MessagesTo, Message
<1>2. Control("Offer") \in MessagesTo("receiver", written)
  BY DEF Control, MessagesTo, Message
<1> QED
  BY <1>1, <1>2

LEMMA Readies ==
  ASSUME Inv, NEW d \in Devices
  PROVE  <<Ready(d)>> \in Seq(MessagesTo(Other(d), written))
<1>1. done[d] \subseteq written /\ done[d] \in SUBSET Chunks
  BY DEF Inv, RowsInv, FilesInv
<1>2. Ready(d) \in MessagesTo(Other(d), written)
  BY <1>1 DEF Ready, MessagesTo, Message
<1> QED
  BY <1>2

\* Steps that leave a part alone.
LEMMA PartsKept ==
  ASSUME Inv
  PROVE  /\ UNCHANGED <<rows, written>> => RowsInv'
         /\ UNCHANGED <<wire, written>> => WireInv'
         /\ UNCHANGED pumping => PumpsInv'
         /\ UNCHANGED <<worker, written>> => WorkerInv'
         /\ UNCHANGED files => FilesInv'
<1>1. UNCHANGED <<rows, written>> => RowsInv'
  BY DEF Inv, RowsInv, rows, Rows, StatesOf
<1>2. UNCHANGED <<wire, written>> => WireInv'
  BY DEF Inv, WireInv, wire, Nets, MessagesTo
<1>3. UNCHANGED pumping => PumpsInv'
  BY DEF Inv, PumpsInv, pumping
<1>4. UNCHANGED <<worker, written>> => WorkerInv'
  BY DEF Inv, WorkerInv, worker, Results
<1>5. UNCHANGED files => FilesInv'
  BY DEF Inv, FilesInv, files
<1> QED
  BY <1>1, <1>2, <1>3, <1>4, <1>5

\* What a step that records nothing must show of a part that it changes.
LEMMA RowsHold ==
  ASSUME written' = written, state' \in Rows(written), done' \in [Devices -> SUBSET written],
         reported' \in 0 .. ChunkCount
  PROVE  RowsInv'
BY DEF RowsInv, Rows, StatesOf

LEMMA WireHolds ==
  ASSUME written' = written, net' \in Nets(written),
         link' \in [Devices -> {"down", "open", "registered"}]
  PROVE  WireInv'
BY DEF WireInv, Nets, MessagesTo

LEMMA WorkerHolds ==
  ASSUME written' = written, chunkQueue' \in Seq(Chunks), writing' \in Writes,
         results' \in Seq(Results(written))
  PROVE  WorkerInv'
BY DEF WorkerInv, Results

\* startOutgoingDataTransfer.
LEMMA StartTransferKeeps ==
  ASSUME Inv, NEW s \in StatesOf("sender", written), NEW chunks \in SUBSET Chunks, NEW t,
         StartTransfer(s, chunks, t)
  PROVE  state' \in Rows(written) /\ PumpsInv'
<1>0. "sender" \in Devices
  BY DEF Devices
<1>1. CASE SetState("sender", s) /\ UNCHANGED pumping
  BY <1>0, <1>1, SetStateKeeps, PartsKept
<1>2. CASE SetState("sender", AwaitingState) /\ UNCHANGED pumping
  <2>1. AwaitingState \in StatesOf("sender", written)
    BY DEF AwaitingState, StatesOf, Resumable
  <2> QED
    BY <1>0, <1>2, <2>1, SetStateKeeps, PartsKept
<1>3. CASE /\ SetState("sender", "Transferring")
           /\ active' = TRUE /\ pumps' = Append(pumps, Loop(chunks))
  <2>1. "Transferring" \in StatesOf("sender", written)
    BY DEF StatesOf, Resumable
  <2>2. Loop(chunks) \in Loops
    BY DEF Loop, Loops
  <2>3. pumps' \in Seq(Loops) /\ pumps' # << >>
    BY <1>3, <2>2, AppendProperties DEF Inv, PumpsInv
  <2> QED
    BY <1>0, <1>3, <2>1, <2>3, SetStateKeeps DEF PumpsInv
<1> QED
  BY <1>1, <1>2, <1>3 DEF StartTransfer

-----------------------------------------------------------------------------
(* The actions.                                                            *)

LEMMA PumpFailsKeeps ==
  ASSUME Inv, NEW i \in DOMAIN pumps, PumpFails(i)
  PROVE  Inv'
<1>1. "sender" \in Devices /\ "Interrupted" \in StatesOf("sender", written)
  BY DEF Devices, StatesOf, Resumable
<1>2. /\ active' = FALSE /\ EndLoop(i) /\ SetState("sender", "Interrupted")
      /\ UNCHANGED <<done, reported, wire, timers, worker, files>>
  BY DEF PumpFails
<1>3. UNCHANGED <<done, reported, written>>
  BY <1>2 DEF files
<1>4. RowsInv'
  BY <1>1, <1>2, <1>3, SetStateKeeps, RowsHold DEF Inv, RowsInv
<1>5. PumpsInv'
  BY <1>2, RemoveAtIn DEF EndLoop, Inv, PumpsInv
<1> QED
  BY <1>2, <1>3, <1>4, <1>5, PartsKept DEF Inv

LEMMA PumpStopsKeeps ==
  ASSUME Inv, NEW i \in DOMAIN pumps, PumpStops(i)
  PROVE  Inv'
<1>1. /\ ~active /\ EndLoop(i)
      /\ UNCHANGED <<rows, wire, active, worker, files>>
  BY DEF PumpStops
<1>2. PumpsInv'
  BY <1>1, RemoveAtIn DEF EndLoop, Inv, PumpsInv
<1> QED
  BY <1>1, <1>2, PartsKept DEF Inv, files

LEMMA PumpSendsKeeps ==
  ASSUME Inv, NEW i \in DOMAIN pumps, PumpSends(i)
  PROVE  Inv'
<1>1. "sender" \in Devices /\ AwaitingState \in StatesOf("sender", written)
  BY DEF Devices, AwaitingState, StatesOf, Resumable
<1>2. pumps[i] \in Loops /\ pumps[i].dispatched \in SUBSET Chunks
  <2>1. pumps \in Seq(Loops) /\ i \in 1 .. Len(pumps)
    BY LenProperties DEF Inv, PumpsInv
  <2>2. pumps[i] \in Loops
    BY <2>1, ElementOfSeq
  <2> QED
    BY <2>2 DEF Loops
<1>3. PICK batch \in NextBatches(pumps[i].dispatched) :
        LET dispatched == pumps[i].dispatched \union ToSet(batch)
        IN  /\ Sends("sender", [k \in DOMAIN batch |-> Chunk(batch[k])])
            /\ \/ /\ dispatched = Chunks
                  /\ active' = FALSE /\ EndLoop(i)
                  /\ SetState("sender", AwaitingState) /\ timers' = AwaitTimers(timers)
               \/ /\ dispatched # Chunks
                  /\ pumps' = [pumps EXCEPT ![i].dispatched = dispatched]
                  /\ UNCHANGED <<active, state, timers>>
  BY DEF PumpSends
<1> DEFINE dispatched == pumps[i].dispatched \union ToSet(batch)
           msgs == [k \in DOMAIN batch |-> Chunk(batch[k])]
<1>4. PICK size \in Nat : batch \in [1 .. size -> Chunks]
  <2>1. Cardinality(Chunks \ pumps[i].dispatched) \in Nat /\ ChunksPerTick \in Nat
    BY CountOfChunks, SizesArePositive
  <2> QED
    BY <1>3, <2>1 DEF NextBatches
<1>5. dispatched \in SUBSET Chunks
  BY <1>2, <1>4 DEF ToSet
<1>6. msgs \in Seq(MessagesTo("receiver", written))
  <2>1. \A c \in Chunks : Chunk(c) \in MessagesTo("receiver", written)
    BY DEF Chunk, MessagesTo, Message
  <2>2. msgs \in [1 .. size -> MessagesTo("receiver", written)]
    BY <1>4, <2>1
  <2> QED
    BY <2>2, IsASeq
<1>7. UNCHANGED <<done, reported, link, worker, files, written>>
  BY DEF PumpSends, files
<1>8. WireInv'
  <2>1. net' \in Nets(written)
    BY <1>1, <1>3, <1>6, SentIn DEF Sends, Other, Inv, WireInv
  <2> QED
    BY <1>7, <2>1, WireHolds DEF Inv, WireInv
<1>9. RowsInv' /\ PumpsInv'
  <2>1. CASE active' = FALSE /\ EndLoop(i) /\ SetState("sender", AwaitingState)
    <3>1. RowsInv'
      BY <1>1, <1>7, <2>1, SetStateKeeps, RowsHold DEF Inv, RowsInv
    <3> QED
      BY <2>1, <3>1, RemoveAtIn DEF EndLoop, Inv, PumpsInv
  <2>2. CASE pumps' = [pumps EXCEPT ![i].dispatched = dispatched] /\ UNCHANGED <<active, state>>
    <3>1. [pumps[i] EXCEPT !.dispatched = dispatched] \in Loops
      BY <1>2, <1>5 DEF Loops
    <3>2. pumps' = [pumps EXCEPT ![i] = [pumps[i] EXCEPT !.dispatched = dispatched]]
      BY <2>2
    <3>3. i \in 1 .. Len(pumps)
      BY LenProperties DEF Inv, PumpsInv
    <3>4. pumps' \in Seq(Loops) /\ Len(pumps') = Len(pumps)
      BY <3>1, <3>2, <3>3, ExceptSeq DEF Inv, PumpsInv
    <3>5. PumpsInv'
      BY <2>2, <3>3, <3>4 DEF Inv, PumpsInv
    <3> QED
      BY <1>7, <2>2, <3>5, PartsKept DEF rows
  <2> QED
    BY <1>3, <2>1, <2>2
<1> QED
  BY <1>7, <1>8, <1>9, PartsKept DEF Inv

LEMMA CompleteTimerKeeps ==
  ASSUME Inv, CompleteTimer
  PROVE  Inv'
<1>1. "sender" \in Devices /\ "Interrupted" \in StatesOf("sender", written)
  BY DEF Devices, StatesOf, Resumable
<1>2. /\ SetState("sender", "Interrupted")
      /\ UNCHANGED <<done, reported, written, wire, pumping, worker, files>>
  BY DEF CompleteTimer, files
<1>3. RowsInv'
  BY <1>1, <1>2, SetStateKeeps, RowsHold DEF Inv, RowsInv
<1> QED
  BY <1>2, <1>3, PartsKept DEF Inv

LEMMA KickTimerKeeps ==
  ASSUME Inv, KickTimer
  PROVE  Inv'
<1>1. state["sender"] \in StatesOf("sender", written) /\ done["sender"] \in SUBSET Chunks
  BY DEF Devices, Inv, RowsInv, FilesInv, Rows
<1>2. /\ StartTransfer(state["sender"], done["sender"], OneLess("kick"))
      /\ UNCHANGED <<done, reported, written, wire, worker, files>>
  BY DEF KickTimer, files
<1>3. state' \in Rows(written) /\ PumpsInv'
  BY <1>1, <1>2, StartTransferKeeps
<1>4. RowsInv'
  BY <1>2, <1>3, RowsHold DEF Inv, RowsInv
<1> QED
  BY <1>2, <1>3, <1>4, PartsKept DEF Inv

LEMMA OfferTimerKeeps ==
  ASSUME Inv, OfferTimer
  PROVE  Inv'
<1>1. state["sender"] \in StatesOf("sender", written) /\ done["sender"] \in SUBSET Chunks
  BY DEF Devices, Inv, RowsInv, FilesInv, Rows
<1>2. /\ Sends("sender", <<Control("Offer")>>)
      /\ StartTransfer(state["sender"], done["sender"], OneLess("offer"))
      /\ UNCHANGED <<done, reported, written, link, worker, files>>
  BY DEF OfferTimer, files
<1>3. state' \in Rows(written) /\ PumpsInv'
  BY <1>1, <1>2, StartTransferKeeps
<1>4. RowsInv'
  BY <1>2, <1>3, RowsHold DEF Inv, RowsInv
<1>5. WireInv'
  <2>1. net' \in Nets(written)
    BY <1>2, Controls, SentIn DEF Sends, Other, Devices, Inv, WireInv
  <2> QED
    BY <1>2, <2>1, WireHolds DEF Inv, WireInv
<1> QED
  BY <1>2, <1>3, <1>4, <1>5, PartsKept DEF Inv

LEMMA ReadyTimerKeeps ==
  ASSUME Inv, ReadyTimer
  PROVE  Inv'
<1>1. /\ Sends("receiver", <<Ready("receiver")>>)
      /\ UNCHANGED <<rows, written, link, pumping, worker, files>>
  BY DEF ReadyTimer, files
<1>2. WireInv'
  <2>1. net' \in Nets(written)
    BY <1>1, Readies, SentIn DEF Sends, Devices, Inv, WireInv
  <2> QED
    BY <1>1, <2>1, WireHolds DEF Inv, WireInv
<1> QED
  BY <1>1, <1>2, PartsKept DEF Inv

LEMMA SendFileKeeps ==
  ASSUME Inv, SendFile
  PROVE  Inv'
<1>1. \A s \in {"WaitingAccept", "PendingOffer"} : s \in StatesOf("sender", written)
  BY DEF StatesOf, Resumable
<1>2. UNCHANGED <<done, reported, written, link, pumping, worker, files>>
  BY DEF SendFile, files
<1>3. state' \in Rows(written)
  BY <1>1 DEF SendFile, Inv, RowsInv, Rows, Devices, StatesOf
<1>4. RowsInv'
  BY <1>2, <1>3, RowsHold DEF Inv, RowsInv
<1>5. WireInv'
  <2>1. net' \in Nets(written)
    BY Controls, SentIn DEF SendFile, Sends, Other, Devices, Inv, WireInv
  <2> QED
    BY <1>2, <2>1, WireHolds DEF Inv, WireInv
<1> QED
  BY <1>2, <1>4, <1>5, PartsKept DEF Inv

LEMMA CancelTransferKeeps ==
  ASSUME Inv, NEW d \in Devices, CancelTransfer(d)
  PROVE  Inv'
<1>1. "Canceled" \in StatesOf(d, written) /\ Other(d) \in Devices
  BY DEF Devices, Other, StatesOf, Ended
<1>2. /\ SetState(d, "Canceled")
      /\ UNCHANGED <<done, reported, written, link, pumps, worker, files>>
  BY DEF CancelTransfer, files
<1>3. RowsInv'
  BY <1>1, <1>2, SetStateKeeps, RowsHold DEF Inv, RowsInv
<1>4. WireInv'
  <2>1. net' \in Nets(written)
    BY <1>1, Controls, SentIn DEF CancelTransfer, Sends, Inv, WireInv
  <2> QED
    BY <1>2, <2>1, WireHolds DEF Inv, WireInv
<1>5. PumpsInv'
  <2>1. active' = (active /\ d # "sender")
    BY DEF CancelTransfer
  <2> QED
    BY <1>2, <2>1 DEF Inv, PumpsInv
<1> QED
  BY <1>2, <1>3, <1>4, <1>5, PartsKept DEF Inv

LEMMA RetryTransferKeeps ==
  ASSUME Inv, NEW d \in Devices, RetryTransfer(d)
  PROVE  Inv'
<1>1. UNCHANGED <<rows, written, link, pumping, worker, files>>
  BY DEF RetryTransfer, files
<1>2. Other(d) \in Devices /\ (d = "sender" => Other(d) = "receiver")
  BY DEF Devices, Other
<1>3. PICK m \in {Ready(d), Control("Offer"), Control("ResumeRequest")} :
        Sends(d, <<m>>) /\ (m = Control("Offer") => d = "sender")
  BY DEF RetryTransfer, Ready, Control, Devices
<1>4. <<m>> \in Seq(MessagesTo(Other(d), written))
  BY <1>2, <1>3, Controls, Readies
<1>5. net' \in Nets(written)
  BY <1>3, <1>4, SentIn DEF Sends, Inv, WireInv
<1>6. WireInv'
  BY <1>1, <1>5, WireHolds DEF Inv, WireInv
<1> QED
  BY <1>1, <1>6, PartsKept DEF Inv

\* resendPendingFileOffersForTarget, then requestFileTransferResumeForTarget.
LEMMA ResendForKeeps ==
  ASSUME Inv, NEW d \in Devices, ResendFor(d)
  PROVE  net' \in Nets(written)
<1>1. Other(d) \in Devices /\ (state[d] = "WaitingAccept" => Other(d) = "receiver")
  BY DEF Devices, Other, Inv, RowsInv, Rows, StatesOf
<1>2. PICK msgs \in {<<Control("Offer")>>, <<Control("ResumeRequest")>>, << >>} :
        Sends(d, msgs) /\ (msgs = <<Control("Offer")>> => state[d] = "WaitingAccept")
  BY DEF ResendFor, Control
<1>3. msgs \in Seq(MessagesTo(Other(d), written))
  BY <1>1, <1>2, Controls
<1> QED
  BY <1>2, <1>3, SentIn DEF Sends, Inv, WireInv

LEMMA RetryPendingKeeps ==
  ASSUME Inv, NEW d \in Devices, RetryPending(d)
  PROVE  Inv'
<1>1. /\ ResendFor(d)
      /\ UNCHANGED <<rows, written, link, pumping, worker, files>>
  BY DEF RetryPending, files
<1>2. WireInv'
  BY <1>1, ResendForKeeps, WireHolds DEF Inv, WireInv
<1> QED
  BY <1>1, <1>2, PartsKept DEF Inv

LEMMA ConnectKeeps ==
  ASSUME Inv, Connect
  PROVE  Inv'
<1>1. /\ link' = [d \in Devices |-> "open"]
      /\ UNCHANGED <<rows, written, net, pumping, worker, files>>
  BY DEF Connect, files
<1>2. WireInv'
  BY <1>1, WireHolds DEF Inv, WireInv
<1> QED
  BY <1>1, <1>2, PartsKept DEF Inv

LEMMA HandleHelloKeeps ==
  ASSUME Inv, NEW d \in Devices, HandleHello(d)
  PROVE  Inv'
<1>1. /\ link' = [link EXCEPT ![d] = "registered"] /\ ResendFor(d)
      /\ UNCHANGED <<rows, written, pumping, worker, files>>
  BY DEF HandleHello, files
<1>2. link' \in [Devices -> {"down", "open", "registered"}]
  BY <1>1 DEF Inv, WireInv
<1>3. WireInv'
  BY <1>1, <1>2, ResendForKeeps, WireHolds
<1> QED
  BY <1>1, <1>3, PartsKept DEF Inv

LEMMA DisconnectKeeps ==
  ASSUME Inv, NEW d \in Devices, Disconnect(d)
  PROVE  Inv'
<1>1. Interrupted(d) \in StatesOf(d, written)
  BY DEF Interrupted, Inv, RowsInv, Rows, StatesOf, Resumable
<1>2. /\ link' = [link EXCEPT ![d] = "down"] /\ net' = [net EXCEPT ![d] = << >>]
      /\ SetState(d, Interrupted(d))
      /\ pumps' = [i \in DOMAIN pumps |-> [pumps[i] EXCEPT !.alive = @ /\ d # "sender"]]
      /\ UNCHANGED <<done, reported, written, active, worker, files>>
  BY DEF Disconnect, files
<1>3. RowsInv'
  BY <1>1, <1>2, SetStateKeeps, RowsHold DEF Inv, RowsInv
<1>4. WireInv'
  <2>1. net' \in Nets(written) /\ link' \in [Devices -> {"down", "open", "registered"}]
    BY <1>2, Controls, Wired DEF Inv, WireInv
  <2> QED
    BY <1>2, <2>1, WireHolds
<1>5. PumpsInv'
  <2>1. pumps \in Seq(Loops) /\ DOMAIN pumps = 1 .. Len(pumps) /\ Len(pumps) \in Nat
    BY LenProperties DEF Inv, PumpsInv
  <2>2. ASSUME NEW i \in DOMAIN pumps
        PROVE  [pumps[i] EXCEPT !.alive = @ /\ d # "sender"] \in Loops
    <3>1. pumps[i] \in Loops
      BY <2>1, ElementOfSeq
    <3>2. (pumps[i].alive /\ d # "sender") \in BOOLEAN
      OBVIOUS
    <3> QED
      BY <3>1, <3>2 DEF Loops
  <2>3. pumps' \in [1 .. Len(pumps) -> Loops]
    BY <1>2, <2>1, <2>2
  <2>4. pumps' \in Seq(Loops) /\ Len(pumps') = Len(pumps)
    BY <2>1, <2>3, IsASeq, LenProperties
  <2> QED
    BY <1>2, <2>1, <2>4 DEF Inv, PumpsInv
<1> QED
  BY <1>2, <1>3, <1>4, <1>5, PartsKept DEF Inv

LEMMA RestartKeeps ==
  ASSUME Inv, NEW d \in Devices, Restart(d)
  PROVE  Inv'
<1>1. /\ link' = [link EXCEPT ![d] = "down"] /\ net' = [net EXCEPT ![d] = << >>]
      /\ UNCHANGED <<rows, written, files>>
  BY DEF Restart, files
<1>2. WireInv'
  <2>1. net' \in Nets(written) /\ link' \in [Devices -> {"down", "open", "registered"}]
    BY <1>1, Controls, Wired DEF Inv, WireInv
  <2> QED
    BY <1>1, <2>1, WireHolds
<1>3. PumpsInv' /\ WorkerInv'
  <2>1. CASE active' = FALSE /\ pumps' = << >> /\ UNCHANGED worker
    <3>1. PumpsInv'
      BY <2>1, EmptySeq DEF PumpsInv
    <3>2. WorkerInv'
      BY <1>1, <2>1, PartsKept
    <3> QED
      BY <3>1, <3>2
  <2>2. CASE chunkQueue' = << >> /\ writing' = Nothing /\ results' = << >> /\ UNCHANGED pumping
    <3>1. Nothing \in Writes
      BY DEF Writes
    <3>2. WorkerInv'
      BY <1>1, <2>2, <3>1, WorkerHolds
    <3> QED
      BY <2>2, <3>2, PartsKept
  <2> QED
    BY <2>1, <2>2 DEF Restart
<1> QED
  BY <1>1, <1>2, <1>3, PartsKept DEF Inv

-----------------------------------------------------------------------------
(* The messages.                                                           *)

\* What a handler shows; Receive says the rest.
LEMMA HandledHolds ==
  ASSUME Inv, RowsInv', net' \in Nets(written), PumpsInv', WorkerInv', FilesInv',
         written' = written, UNCHANGED link
  PROVE  Inv'
BY WireHolds DEF Inv, WireInv

LEMMA HandleOfferKeeps ==
  ASSUME Inv, Registered("receiver"), net["receiver"] # << >>,
         HandleOffer, UNCHANGED worker, UNCHANGED link
  PROVE  Inv'
<1>1. "receiver" \in Devices /\ "ReadyToTransfer" \in StatesOf("receiver", written)
  BY DEF Devices, StatesOf, Resumable
<1>2. UNCHANGED <<pumping, done, reported, written>>
  BY DEF HandleOffer, rows, pumping
<1>3. net' \in Nets(written)
  BY <1>1, Received, Readies, SentIn DEF HandleOffer
<1>4. RowsInv'
  <2>1. CASE UNCHANGED rows
    BY <1>2, <2>1, PartsKept
  <2>2. CASE state' = [state EXCEPT !["receiver"] = "ReadyToTransfer"]
    <3>1. state' \in Rows(written)
      BY <1>1, <2>2 DEF Inv, RowsInv, Rows, StatesOf
    <3> QED
      BY <1>2, <3>1, RowsHold DEF Inv, RowsInv
  <2> QED
    BY <2>1, <2>2 DEF HandleOffer
<1>5. FilesInv'
  BY DEF HandleOffer, Inv, FilesInv
<1> QED
  BY <1>2, <1>3, <1>4, <1>5, PartsKept, HandledHolds

LEMMA HandleResumeRequestKeeps ==
  ASSUME Inv, NEW d \in Devices, net[d] # << >>,
         HandleResumeRequest(d), UNCHANGED worker, UNCHANGED link
  PROVE  Inv'
<1>1. UNCHANGED <<rows, pumping, files, written>>
  BY DEF HandleResumeRequest, files
<1>2. Other(d) \in Devices
  BY DEF Devices, Other
<1>3. (IF state[d] = "Absent" THEN << >> ELSE <<Ready(d)>>) \in Seq(MessagesTo(Other(d), written))
  BY <1>2, Controls, Readies
<1>4. net' \in Nets(written)
  BY <1>3, Received, SentIn DEF HandleResumeRequest
<1> QED
  BY <1>1, <1>4, PartsKept, HandledHolds

LEMMA HandleReadyKeeps ==
  ASSUME Inv, NEW d \in Devices, net[d] # << >>, NEW chunks \in SUBSET written,
         HandleReady(d, chunks), UNCHANGED worker, UNCHANGED link
  PROVE  Inv'
<1>1. net' \in Nets(written) /\ UNCHANGED <<files, written>>
  BY Received DEF HandleReady, files
<1>2. chunks \in SUBSET Chunks /\ (chunks = Chunks => written = Chunks)
  BY DEF Inv, FilesInv
<1>3. done' \in [Devices -> SUBSET written]
  BY DEF HandleReady, Inv, RowsInv
<1>4. StateAfterReady(d, chunks) \in StatesOf(d, written)
  BY <1>2 DEF StateAfterReady, Inv, RowsInv, Rows, StatesOf, Resumable, Ended
<1>5. reported' \in 0 .. ChunkCount /\ state' \in Rows(written) /\ PumpsInv'
  <2>1. CASE d = "receiver"
    <3>1. Cardinality(chunks) \in 0 .. ChunkCount
      BY <1>2, CountOfChunks
    <3> QED
      BY <1>4, <2>1, <3>1, SetStateKeeps, PartsKept DEF HandleReady, Larger, Inv, RowsInv
  <2>2. CASE d = "sender"
    <3>1. PICK t : StartTransfer(StateAfterReady(d, chunks), chunks, t)
      BY <2>2 DEF HandleReady
    <3>2. state' \in Rows(written) /\ PumpsInv'
      BY <1>2, <1>4, <2>2, <3>1, StartTransferKeeps
    <3> QED
      BY <2>2, <3>2 DEF HandleReady, Inv, RowsInv
  <2> QED
    BY <2>1, <2>2 DEF Devices
<1>6. RowsInv'
  BY <1>1, <1>3, <1>5, RowsHold
<1> QED
  BY <1>1, <1>5, <1>6, PartsKept, HandledHolds

LEMMA HandleProgressKeeps ==
  ASSUME Inv, net["sender"] # << >>, NEW chunks \in SUBSET written,
         HandleProgress(chunks), UNCHANGED worker, UNCHANGED link
  PROVE  Inv'
<1>0. "sender" \in Devices
  BY DEF Devices
<1>1. net' \in Nets(written) /\ UNCHANGED <<files, written, pumping, reported>>
  BY <1>0, Received DEF HandleProgress, files
<1>2. done' \in [Devices -> SUBSET written]
  BY DEF HandleProgress, Inv, RowsInv
<1>3. StateAfterProgress(state["sender"]) \in StatesOf("sender", written)
  BY <1>0 DEF StateAfterProgress, Inv, RowsInv, Rows, StatesOf, Resumable
<1>4. state' \in Rows(written)
  BY <1>0, <1>3, SetStateKeeps DEF HandleProgress
<1>5. RowsInv'
  BY <1>1, <1>2, <1>4, RowsHold DEF Inv, RowsInv
<1> QED
  BY <1>1, <1>5, PartsKept, HandledHolds

LEMMA HandleEndKeeps ==
  ASSUME Inv, NEW d \in Devices, net[d] # << >>, NEW s \in StatesOf(d, written),
         HandleEnd(d, s), UNCHANGED worker, UNCHANGED link
  PROVE  Inv'
<1>1. net' \in Nets(written) /\ UNCHANGED <<files, written, pumping, done, reported>>
  BY Received DEF HandleEnd, files
<1>2. state' \in Rows(written)
  BY SetStateKeeps DEF HandleEnd
<1>3. RowsInv'
  BY <1>1, <1>2, RowsHold DEF Inv, RowsInv
<1> QED
  BY <1>1, <1>3, PartsKept, HandledHolds

\* handleIncomingChunk.
LEMMA HandleChunkKeeps ==
  ASSUME Inv, NEW d \in Devices, net[d] # << >>, NEW c \in Chunks,
         net' = [net EXCEPT ![d] = Tail(@)],
         chunkQueue' = chunkQueue \o SetToSeq({c}),
         UNCHANGED <<rows, timers, pumping, files, writing, results>>, UNCHANGED link
  PROVE  Inv'
<1>1. net' \in Nets(written) /\ UNCHANGED written
  BY Received DEF files
<1>2. chunkQueue' \in Seq(Chunks)
  BY OneChunk, ConcatProperties DEF Inv, WorkerInv
<1>3. WorkerInv'
  BY <1>1, <1>2, WorkerHolds DEF Inv, WorkerInv
<1> QED
  BY <1>1, <1>3, PartsKept, HandledHolds

LEMMA ReceiveKeeps ==
  ASSUME Inv, NEW d \in Devices, Receive(d)
  PROVE  Inv'
<1>1. net[d] # << >> /\ Registered(d) /\ UNCHANGED link
  BY DEF Receive
<1> DEFINE m == Head(net[d])
<1>2. m \in MessagesTo(d, written)
  BY <1>1, Received
<1> HIDE DEF m
<1>3. CASE m.type = "Offer" /\ HandleOffer /\ UNCHANGED worker
  BY <1>1, <1>2, <1>3, HandleOfferKeeps DEF MessagesTo
<1>4. CASE m.type = "ResumeRequest" /\ HandleResumeRequest(d) /\ UNCHANGED worker
  BY <1>1, <1>4, HandleResumeRequestKeeps
<1>5. CASE m.type = "Ready" /\ HandleReady(d, m.chunks) /\ UNCHANGED worker
  BY <1>1, <1>2, <1>5, HandleReadyKeeps DEF MessagesTo
<1>6. CASE m.type = "Progress" /\ HandleProgress(m.chunks) /\ UNCHANGED worker
  BY <1>1, <1>2, <1>6, HandleProgressKeeps DEF MessagesTo
<1>7. CASE m.type = "Cancel" /\ HandleEnd(d, "Canceled") /\ UNCHANGED worker
  <2>1. "Canceled" \in StatesOf(d, written)
    BY DEF StatesOf, Ended
  <2> QED
    BY <1>1, <1>7, <2>1, HandleEndKeeps
<1>8. CASE m.type = "Fail" /\ HandleEnd(d, "Failed") /\ UNCHANGED worker
  <2>1. "Failed" \in StatesOf(d, written)
    BY DEF StatesOf, Ended
  <2> QED
    BY <1>1, <1>8, <2>1, HandleEndKeeps
<1>9. CASE m.type = "Complete" /\ HandleEnd(d, "Completed") /\ UNCHANGED worker
  <2>1. "Completed" \in StatesOf(d, written)
    BY <1>2, <1>9 DEF StatesOf, Ended, MessagesTo
  <2> QED
    BY <1>1, <1>9, <2>1, HandleEndKeeps
<1>10. CASE /\ m.type = "Chunk"
            /\ net' = [net EXCEPT ![d] = Tail(@)]
            /\ chunkQueue' = chunkQueue \o SetToSeq(m.chunks)
            /\ UNCHANGED <<rows, timers, pumping, files, writing, results>>
  <2>1. PICK c \in Chunks : m.chunks = {c}
    BY <1>2, <1>10 DEF MessagesTo
  <2> QED
    BY <1>1, <1>10, <2>1, HandleChunkKeeps
<1> QED
  BY <1>3, <1>4, <1>5, <1>6, <1>7, <1>8, <1>9, <1>10 DEF Receive, m

-----------------------------------------------------------------------------
(* The worker thread.                                                      *)

LEMMA WorkerWritesKeeps ==
  ASSUME Inv, WorkerWrites
  PROVE  Inv'
<1>1. /\ chunkQueue # << >> /\ chunkQueue' = Tail(chunkQueue)
      /\ UNCHANGED <<rows, wire, pumping, written>>
  BY DEF WorkerWrites
<1>2. chunkQueue' \in Seq(Chunks) /\ Head(chunkQueue) \in Chunks
  BY <1>1, TailIn DEF Inv, WorkerInv
<1>3. FilesInv'
  BY <1>1, <1>2 DEF WorkerWrites, Inv, FilesInv
<1>4. writing' \in Writes
  BY <1>2 DEF WorkerWrites, Inv, WorkerInv, RowsInv, Writes
<1>5. results' \in Seq(Results(written))
  <2> DEFINE failed == [type |-> "failed", completed |-> FALSE, publish |-> FALSE, chunks |-> {}]
  <2>1. failed \in Results(written)
    BY DEF Results
  <2>2. UNCHANGED results \/ results' = Append(results, failed)
    BY DEF WorkerWrites
  <2> HIDE DEF failed
  <2> QED
    BY <2>1, <2>2, AppendProperties DEF Inv, WorkerInv
<1>6. WorkerInv'
  BY <1>1, <1>2, <1>4, <1>5, WorkerHolds
<1> QED
  BY <1>1, <1>3, <1>6, PartsKept DEF Inv

LEMMA WorkerRecordsKeeps ==
  ASSUME Inv, WorkerRecords
  PROVE  Inv'
<1> DEFINE chunk == writing.chunk
           recorded == Recorded(chunk)
           publish == Publishes(chunk, recorded, writing.bytes)
           completed == Completes(chunk, recorded, writing.bytes)
           result == [type |-> "processed", completed |-> completed,
                      publish |-> publish, chunks |-> recorded]
<1>1. /\ writing # Nothing /\ writing' = Nothing
      /\ done' = [done EXCEPT !["receiver"] = recorded]
      /\ written' = written \union {chunk}
      /\ IF publish
         THEN /\ SetState("receiver", IF completed THEN "Completing" ELSE "Transferring")
              /\ reported' = Cardinality(recorded)
         ELSE UNCHANGED <<state, reported>>
      /\ results' = IF publish \/ completed THEN Append(results, result) ELSE results
      /\ UNCHANGED <<wire, pumping, chunkQueue, temp>>
  BY DEF WorkerRecords
<1>2. chunk \in Chunks
  BY <1>1 DEF Inv, WorkerInv, Writes
<1>3. written' \in SUBSET Chunks /\ written \subseteq written'
  BY <1>1, <1>2 DEF Inv, FilesInv
<1>4. recorded \in SUBSET written'
  BY <1>1 DEF Recorded, Inv, RowsInv, Devices
<1>5. completed => written' = Chunks
  BY <1>3, <1>4 DEF Completes
<1>6. publish \in BOOLEAN /\ completed \in BOOLEAN
  BY DEF Publishes, Completes
<1>7. result \in Results(written')
  <2> HIDE DEF publish, completed, recorded
  <2> QED
    BY <1>4, <1>5, <1>6 DEF Results
<1>8. Cardinality(recorded) \in 0 .. ChunkCount
  BY <1>3, <1>4, CountOfChunks
<1> HIDE DEF result, recorded, publish, completed, chunk
<1>9. /\ Rows(written) \subseteq Rows(written') /\ Nets(written) \subseteq Nets(written')
      /\ [Devices -> SUBSET written] \subseteq [Devices -> SUBSET written']
      /\ Seq(Results(written)) \subseteq Seq(Results(written'))
  BY <1>3, Grows DEF Inv, FilesInv
<1>10. state' \in Rows(written')
  <2>1. "receiver" \in Devices
    BY DEF Devices
  <2>2. (IF completed THEN "Completing" ELSE "Transferring") \in StatesOf("receiver", written)
    BY DEF StatesOf, Resumable
  <2>3. state' \in Rows(written)
    BY <1>1, <2>1, <2>2, SetStateKeeps DEF Inv, RowsInv
  <2> QED
    BY <1>9, <2>3
<1>11. done' \in [Devices -> SUBSET written'] /\ reported' \in 0 .. ChunkCount
  BY <1>1, <1>4, <1>8, <1>9 DEF Inv, RowsInv
<1>12. RowsInv'
  BY <1>10, <1>11 DEF RowsInv, Rows, StatesOf
<1>13. WireInv'
  <2>1. net' \in Nets(written')
    BY <1>1, <1>9 DEF wire, Inv, WireInv
  <2> QED
    BY <1>1, <2>1 DEF wire, Inv, WireInv, Nets, MessagesTo
<1>14. WorkerInv'
  <2>1. results' \in Seq(Results(written'))
    BY <1>1, <1>7, <1>9, AppendProperties DEF Inv, WorkerInv
  <2> QED
    BY <1>1, <2>1 DEF Inv, WorkerInv, Writes, Results
<1>15. FilesInv'
  BY <1>1, <1>3 DEF Inv, FilesInv
<1> QED
  BY <1>1, <1>12, <1>13, <1>14, <1>15, PartsKept DEF Inv

LEMMA HandleResultKeeps ==
  ASSUME Inv, HandleResult
  PROVE  Inv'
<1> DEFINE r == Head(results)
           progress == IF r.publish THEN <<[type |-> "Progress", chunks |-> r.chunks]>> ELSE << >>
<1>1. /\ results # << >> /\ results' = Tail(results)
      /\ UNCHANGED <<done, link, pumping, chunkQueue, writing, written>>
  BY DEF HandleResult
<1>2. r \in Results(written) /\ results' \in Seq(Results(written))
  BY <1>1, TailIn DEF Inv, WorkerInv
<1>3. "receiver" \in Devices /\ Other("receiver") = "sender" /\ "sender" \in Devices
  BY DEF Devices, Other
<1>4. progress \in Seq(MessagesTo("sender", written))
  <2> HIDE DEF r
  <2>1. [type |-> "Progress", chunks |-> r.chunks] \in MessagesTo("sender", written)
    BY <1>2 DEF Results, MessagesTo, Message, Inv, FilesInv
  <2> QED
    BY <2>1
<1> HIDE DEF progress
<1>5. \A s \in {"Completed", "Failed"} : s \in StatesOf("receiver", written)
  BY DEF StatesOf, Ended
<1>6. CASE /\ SetState("receiver", "Failed") /\ Sends("receiver", <<Control("Fail")>>)
           /\ UNCHANGED <<temp, reported>>
  <2>1. net' \in Nets(written)
    BY <1>3, <1>6, Controls, SentIn DEF Sends, Inv, WireInv
  <2>2. state' \in Rows(written)
    BY <1>3, <1>5, <1>6, SetStateKeeps
  <2> QED
    BY <1>1, <1>2, <1>6, <2>1, <2>2, RowsHold, WireHolds, WorkerHolds, PartsKept
    DEF Inv, RowsInv, WireInv, WorkerInv, FilesInv
<1>7. CASE r.completed /\ Finalize(progress)
  <2>1. written = Chunks
    BY <1>2, <1>7 DEF Results
  <2>2. \A type \in {"Complete", "Fail"} : Control(type) \in MessagesTo("sender", written)
    BY <2>1 DEF Control, MessagesTo, Message
  <2>3. \A type \in {"Complete", "Fail"} :
          Append(progress, Control(type)) \in Seq(MessagesTo("sender", written))
    BY <1>4, <2>2, AppendProperties
  <2>4. net' \in Nets(written)
    BY <1>3, <1>7, <2>3, SentIn DEF Finalize, Sends, Inv, WireInv
  <2>5. state' \in Rows(written)
    BY <1>3, <1>5, <1>7, SetStateKeeps DEF Finalize
  <2>6. reported' \in 0 .. ChunkCount
    BY <1>7, SizesArePositive DEF Finalize, Inv, RowsInv
  <2>7. FilesInv'
    BY <1>1, <1>7 DEF Finalize, Inv, FilesInv
  <2> QED
    BY <1>1, <1>2, <2>4, <2>5, <2>6, <2>7, RowsHold, WireHolds, WorkerHolds, PartsKept
    DEF Inv, RowsInv, WireInv, WorkerInv
<1>8. CASE Sends("receiver", progress) /\ UNCHANGED <<state, reported, temp>>
  <2>1. net' \in Nets(written)
    BY <1>3, <1>4, <1>8, SentIn DEF Sends, Inv, WireInv
  <2> QED
    BY <1>1, <1>2, <1>8, <2>1, RowsHold, WireHolds, WorkerHolds, PartsKept
    DEF Inv, RowsInv, WireInv, WorkerInv, FilesInv
<1> QED
  BY <1>6, <1>7, <1>8 DEF HandleResult, progress

-----------------------------------------------------------------------------
(* The invariant holds.                                                    *)

LEMMA InitInv == Init => Inv
<1> SUFFICES ASSUME Init PROVE Inv
  OBVIOUS
<1>1. RowsInv
  BY SizesArePositive DEF Init, RowsInv, Rows, StatesOf
<1>2. WireInv
  <2>1. \A S : << >> \in Seq(S)
    BY EmptySeq
  <2> QED
    BY <2>1 DEF Init, WireInv, Nets
<1>3. PumpsInv
  BY EmptySeq DEF Init, PumpsInv
<1>4. WorkerInv
  <2>1. \A S : << >> \in Seq(S)
    BY EmptySeq
  <2> QED
    BY <2>1 DEF Init, WorkerInv, Writes
<1>5. FilesInv
  BY DEF Init, FilesInv
<1> QED
  BY <1>1, <1>2, <1>3, <1>4, <1>5 DEF Inv

LEMMA NextInv == Inv /\ [Next]_vars => Inv'
<1> SUFFICES ASSUME Inv, [Next]_vars PROVE Inv'
  OBVIOUS
<1>1. CASE User
  BY <1>1, SendFileKeeps, CancelTransferKeeps, RetryTransferKeeps, RetryPendingKeeps DEF User
<1>2. CASE Connect
  BY <1>2, ConnectKeeps
<1>3. CASE \E d \in Devices : Step(d) \/ Disconnect(d) \/ Restart(d)
  BY <1>3, HandleHelloKeeps, ReceiveKeeps, DisconnectKeeps, RestartKeeps DEF Step
<1>4. CASE PumpTick
  BY <1>4, PumpFailsKeeps, PumpStopsKeeps, PumpSendsKeeps DEF PumpTick
<1>5. CASE CompleteTimer \/ KickTimer \/ OfferTimer \/ ReadyTimer
  BY <1>5, CompleteTimerKeeps, KickTimerKeeps, OfferTimerKeeps, ReadyTimerKeeps
<1>6. CASE WorkerWrites \/ WorkerRecords \/ HandleResult
  BY <1>6, WorkerWritesKeeps, WorkerRecordsKeeps, HandleResultKeeps
<1>7. CASE UNCHANGED vars
  BY <1>7, PartsKept DEF vars, files, Inv
<1> QED
  BY <1>1, <1>2, <1>3, <1>4, <1>5, <1>6, <1>7 DEF Next

LEMMA Invariance == Spec => []Inv
BY InitInv, NextInv, PTL DEF Spec

-----------------------------------------------------------------------------
\* Both rows, the connection, the pump, the worker and the files are well typed, and a task
\* is in activeOutgoingDataPumpTasks only while a loop sends its chunks.
THEOREM TypeCorrect == Spec => []TypeOK
<1>1. Inv => TypeOK
  <2> SUFFICES ASSUME Inv PROVE TypeOK
    OBVIOUS
  <2>1. state \in [Devices -> Resumable \union Ended \union {"Absent", "PendingOffer"}]
    BY DEF Inv, RowsInv, Rows
  <2>2. state["receiver"] \notin {"WaitingAccept", "PendingOffer"}
    BY DEF Inv, RowsInv, Rows, StatesOf, Devices
  <2>3. done \in [Devices -> SUBSET Chunks] /\ reported \in 0 .. ChunkCount
    BY DEF Inv, RowsInv, FilesInv
  <2>4. \A d \in Devices : net[d] \in Seq(Message)
    BY DEF Inv, WireInv, Nets
  <2> QED
    BY <2>1, <2>2, <2>3, <2>4
    DEF TypeOK, Inv, RowsInv, WireInv, PumpsInv, FilesInv, Loops
<1> QED
  BY <1>1, Invariance, PTL

\* The sender's row says "Completed" only when the receiver has recorded every chunk.
THEOREM CompletionIsAlwaysEarned == Spec => []CompletionIsEarned
<1>1. Inv => CompletionIsEarned
  BY DEF Inv, RowsInv, Rows, StatesOf, CompletionIsEarned, Devices
<1> QED
  BY <1>1, Invariance, PTL

\* No pump skips a chunk that was never on the receiver's disk.
THEOREM SkippedChunksAreOnDisk == Spec => []SkippedChunksWereWritten
<1>1. Inv => SkippedChunksWereWritten
  BY DEF Inv, RowsInv, SkippedChunksWereWritten, Devices
<1> QED
  BY <1>1, Invariance, PTL
=============================================================================
