--------------------------- MODULE PlanarAudioRing ---------------------------
(***************************************************************************)
(* The lock-free ring between the input and the output callback            *)
(* (audio_bridge.cpp, PlanarAudioRing), for one producer and one consumer  *)
(* that run concurrently, as its header allows.  The two indices count     *)
(* frames and never wrap in practice (64 bits); a cell is the index modulo *)
(* the capacity.  A call loads an index, runs its loops and stores an      *)
(* index, each in a step of its own.  A frame stands for its samples in    *)
(* all channels.  The counters of lost frames, which are only displayed,   *)
(* are left out.                                                           *)
(***************************************************************************)
EXTENDS Integers, Sequences

CONSTANTS Capacity,     \* capacityFrames
          MaxBlock,     \* frames of a block
          Generations,  \* generations of the DSP pipeline
          MaxOffered    \* bound on the frames the producer offers

ASSUME RingAssumption ==
  /\ Capacity \in Nat \ {0}
  /\ MaxBlock \in Nat \ {0}
  /\ MaxOffered \in Nat

VARIABLES
  readFrame, writeFrame,    \* the shared indices
  samples, generations,     \* per cell
  producer, consumer,       \* the calls in progress
  offered, delivered        \* frames given to write; the block read last

producerVars == <<writeFrame, samples, generations, producer, offered>>
consumerVars == <<readFrame, consumer, delivered>>
ringVars == <<producerVars, consumerVars>>

Silence == 0
NoGeneration == 0
Cells == 0 .. Capacity - 1
CellOf(frame) == frame % Capacity
Least(m, n) == IF m <= n THEN m ELSE n

\* accepted and copied are what the call computed from the indices it loaded.
Producers == [pc : {"idle", "samples", "generations", "publish"}, frames : 0 .. MaxBlock,
              accepted : 0 .. MaxBlock, generation : Generations \cup {NoGeneration}]
Consumers == [pc : {"idle", "copy", "check", "publish", "discard"}, frames : 0 .. MaxBlock,
              prefix : 0 .. MaxBlock, copied : 0 .. Capacity,
              generation : Generations \cup {NoGeneration}]

IdleProducer == [pc |-> "idle", frames |-> 0, accepted |-> 0, generation |-> NoGeneration]
IdleConsumer == [pc |-> "idle", frames |-> 0, prefix |-> 0, copied |-> 0,
                 generation |-> NoGeneration]

RingTypeOK ==
  /\ writeFrame \in Nat /\ readFrame \in 0 .. writeFrame
  /\ samples \in [Cells -> Nat]
  /\ generations \in [Cells -> Generations \cup {NoGeneration}]
  /\ producer \in Producers
  /\ consumer \in Consumers
  /\ offered \in Nat
  /\ delivered \in Seq(Nat)

RingInit ==
  /\ readFrame = 0 /\ writeFrame = 0
  /\ samples = [c \in Cells |-> Silence]
  /\ generations = [c \in Cells |-> NoGeneration]
  /\ producer = IdleProducer /\ consumer = IdleConsumer
  /\ offered = 0 /\ delivered = <<>>

-----------------------------------------------------------------------------
(* The producer: write. *)

QueuedFrames == Least(writeFrame - readFrame, Capacity)

AvailablePlusOne == Capacity - QueuedFrames + 1

AvailableFrames == Capacity - QueuedFrames

\* readFrame is loaded once; the consumer can only raise it afterwards.
BeginWrite(frames, generation) ==
  /\ producer.pc = "idle"
  /\ offered + frames <= MaxOffered
  /\ producer' = [pc |-> "samples", frames |-> frames,
                  accepted |-> Least(frames, AvailableFrames), generation |-> generation]
  /\ UNCHANGED <<writeFrame, samples, generations, offered, consumerVars>>

\* The cells after the accepted frames were copied from the head of a block.
Filled(cells, block) ==
  [c \in Cells |-> LET at == CellOf(c - writeFrame)
                   IN IF at < producer.accepted THEN block[at + 1] ELSE cells[c]]

CopyIntoRing ==
  /\ producer.pc = "samples"
  /\ samples' = Filled(samples, [i \in 1 .. producer.frames |-> offered + i])
  /\ producer' = [producer EXCEPT !.pc = "generations"]
  /\ UNCHANGED <<writeFrame, generations, offered, consumerVars>>

MarkGenerations ==
  /\ producer.pc = "generations"
  /\ generations' = Filled(generations, [i \in 1 .. producer.frames |-> producer.generation])
  /\ producer' = [producer EXCEPT !.pc = "publish"]
  /\ UNCHANGED <<writeFrame, samples, offered, consumerVars>>

\* The frames that found no room are forgotten.
PublishWrite ==
  /\ producer.pc = "publish"
  /\ writeFrame' = writeFrame + producer.accepted
  /\ offered' = offered + producer.frames
  /\ producer' = IdleProducer
  /\ UNCHANGED <<samples, generations, consumerVars>>

-----------------------------------------------------------------------------
(* The consumer: readWithSilencePrefix and discardQueuedFrames. *)

CopiedFrames(wanted) == Least(wanted, QueuedFrames)

\* writeFrame is loaded once.  read is the call without a prefix.
BeginRead(frames, prefix, generation) ==
  /\ consumer.pc = "idle"
  /\ prefix <= frames
  /\ consumer' = [pc |-> "copy", frames |-> frames, prefix |-> prefix,
                  copied |-> CopiedFrames(frames - prefix),
                  generation |-> generation]
  /\ UNCHANGED <<readFrame, delivered, producerVars>>

\* The caller's buffer: what is not copied stays silent.
CopyFromRing ==
  /\ consumer.pc = "copy"
  /\ delivered' = [i \in 1 .. consumer.frames |->
       IF i > consumer.prefix /\ i <= consumer.prefix + consumer.copied
       THEN samples[CellOf(readFrame + i - consumer.prefix - 1)]
       ELSE Silence]
  /\ consumer' = [consumer EXCEPT !.pc = "check"]
  /\ UNCHANGED <<readFrame, producerVars>>

IsForeignNever(frame) == FALSE

\* Another pipeline produced the frame.
IsForeign(frame) == generations[CellOf(frame)] # consumer.generation

\* Such frames are consumed as silence.
SilenceForeignFrames ==
  /\ consumer.pc = "check"
  /\ delivered' = [i \in 1 .. consumer.frames |->
       IF /\ i > consumer.prefix /\ i <= consumer.prefix + consumer.copied
          /\ IsForeign(readFrame + i - consumer.prefix - 1)
       THEN Silence
       ELSE delivered[i]]
  /\ consumer' = [consumer EXCEPT !.pc = "publish"]
  /\ UNCHANGED <<readFrame, producerVars>>

PublishRead ==
  /\ consumer.pc = "publish"
  /\ readFrame' = readFrame + consumer.copied
  /\ consumer' = IdleConsumer
  /\ UNCHANGED <<delivered, producerVars>>

\* discardQueuedFrames loads writeFrame.
BeginDiscard ==
  /\ consumer.pc = "idle"
  /\ consumer' = [IdleConsumer EXCEPT !.pc = "discard", !.copied = QueuedFrames]
  /\ UNCHANGED <<readFrame, delivered, producerVars>>

LatestWriteFrame == writeFrame

\* The writeFrame that was loaded: frames committed since are kept.
DiscardTarget == readFrame + consumer.copied

Discard ==
  /\ consumer.pc = "discard"
  /\ readFrame' = DiscardTarget
  /\ consumer' = IdleConsumer
  /\ UNCHANGED <<delivered, producerVars>>

-----------------------------------------------------------------------------
RingNext ==
  \/ \E frames \in 1 .. MaxBlock, g \in Generations : BeginWrite(frames, g)
  \/ CopyIntoRing \/ MarkGenerations \/ PublishWrite
  \/ \E frames \in 1 .. MaxBlock, g \in Generations :
       \E prefix \in 0 .. frames : BeginRead(frames, prefix, g)
  \/ CopyFromRing \/ SilenceForeignFrames \/ PublishRead
  \/ BeginDiscard \/ Discard

RingSpec == RingInit /\ [][RingNext]_ringVars
-----------------------------------------------------------------------------
(* Properties *)

\* The two sides share no lock, yet the cells that a write in progress fills and
\* the cells of the frames still queued, which a read may copy, are different
\* ones; so it does not matter in which order their loops interleave.
CellsHaveOneOwner ==
  \A i \in 0 .. producer.accepted - 1, frame \in readFrame .. writeFrame - 1 :
    CellOf(writeFrame + i) # CellOf(frame)

Queue == [i \in 1 .. writeFrame - readFrame |->
            [frame |-> samples[CellOf(readFrame + i - 1)],
             generation |-> generations[CellOf(readFrame + i - 1)]]]

Contract == INSTANCE AudioFrameQueue WITH
  queue <- Queue,
  writing <- producer.pc # "idle", accepted <- producer.accepted,
  reading <- CASE consumer.pc = "idle" -> "nothing"
               [] consumer.pc = "discard" -> "discard"
               [] OTHER -> "frames",
  taken <- consumer.copied,
  delivered <- IF consumer.pc \in {"idle", "discard"} THEN delivered ELSE <<>>

\* The ring is the queue its header describes: in order, nothing twice, nothing
\* of another pipeline, across the wrap of the cells and with both sides running.
ImplementsQueue == Contract!QueueSpec
=============================================================================
