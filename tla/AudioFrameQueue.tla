--------------------------- MODULE AudioFrameQueue ---------------------------
(***************************************************************************)
(* What PlanarAudioRing (audio_bridge.h) promises to the audio callbacks:  *)
(* a bounded queue of frames.  A call works on the queue as it was when    *)
(* the call began, whatever the other side does meanwhile: a write appends *)
(* the head of its block that had room, a read hands out the oldest frames *)
(* in order, as silence when another pipeline produced them, and a discard *)
(* drops the frames that were queued, no others.                           *)
(***************************************************************************)
EXTENDS Integers, Sequences

CONSTANTS Capacity,     \* frames the queue holds
          MaxBlock,     \* frames of a block
          Generations   \* generations of the DSP pipeline

VARIABLES queue,               \* frames, oldest first
          writing, accepted,   \* a write runs; the frames it had room for
          reading, taken,      \* the call that runs; the frames it takes
          offered,             \* frames given to write so far
          delivered            \* what the last read handed out, if it ended

queueVars == <<queue, writing, accepted, reading, taken, offered, delivered>>

\* Frames are numbered from 1 in the order they were offered.
Silence == 0

Least(m, n) == IF m <= n THEN m ELSE n

QueueInit ==
  /\ queue = <<>> /\ offered = 0 /\ delivered = <<>>
  /\ writing = FALSE /\ accepted = 0
  /\ reading = "nothing" /\ taken = 0

BeginPut(frames) ==
  /\ ~writing /\ writing' = TRUE
  /\ accepted' = Least(frames, Capacity - Len(queue))
  /\ UNCHANGED <<queue, reading, taken, offered, delivered>>

\* The frames of the block without room are lost.
Put(frames, generation) ==
  /\ writing /\ writing' = FALSE
  /\ accepted <= frames /\ accepted' = 0
  /\ queue' = queue \o [i \in 1 .. accepted |->
                          [frame |-> offered + i, generation |-> generation]]
  /\ offered' = offered + frames
  /\ UNCHANGED <<reading, taken, delivered>>

BeginTake(wanted) ==
  /\ reading = "nothing" /\ reading' = "frames"
  /\ taken' = Least(wanted, Len(queue))
  /\ delivered' = <<>>
  /\ UNCHANGED <<queue, writing, accepted, offered>>

Take(frames, prefix, generation) ==
  /\ reading = "frames" /\ reading' = "nothing"
  /\ prefix + taken <= frames /\ taken' = 0
  /\ queue' = SubSeq(queue, taken + 1, Len(queue))
  /\ delivered' = [i \in 1 .. frames |->
       IF /\ i > prefix /\ i <= prefix + taken
          /\ queue[i - prefix].generation = generation
       THEN queue[i - prefix].frame
       ELSE Silence]
  /\ UNCHANGED <<writing, accepted, offered>>

\* A discard takes all frames that are queued when it begins.
BeginDrop ==
  /\ reading = "nothing" /\ reading' = "discard"
  /\ taken' = Len(queue)
  /\ UNCHANGED <<queue, writing, accepted, offered, delivered>>

Drop ==
  /\ reading = "discard" /\ reading' = "nothing"
  /\ taken' = 0
  /\ queue' = SubSeq(queue, taken + 1, Len(queue))
  /\ UNCHANGED <<writing, accepted, offered, delivered>>

QueueNext ==
  \/ \E frames \in 1 .. MaxBlock : BeginPut(frames)
  \/ \E frames \in 1 .. MaxBlock, generation \in Generations : Put(frames, generation)
  \/ \E wanted \in 0 .. MaxBlock : BeginTake(wanted)
  \/ \E frames \in 1 .. MaxBlock, generation \in Generations :
       \E prefix \in 0 .. frames : Take(frames, prefix, generation)
  \/ BeginDrop \/ Drop

QueueSpec == QueueInit /\ [][QueueNext]_queueVars
=============================================================================
