--------------------------- MODULE PositionHistory ---------------------------
(* The position history of internal/sim/history.go: a ring of one sample    *)
(* per tick.  Reset forgets the samples and leaves them in the buffer.      *)
EXTENDS Integers

CONSTANTS PositionSamples, NoSample, HistoryCapacity

ASSUME PositionHistoryConstants ==
  /\ HistoryCapacity \in Nat \ {0}
  /\ NoSample \notin PositionSamples

VARIABLES
  buf,    \* the ring
  first,  \* the slot of the oldest sample (start)
  taken   \* how many samples it holds (count)

historyVars == <<buf, first, taken>>

newPositionHistory ==
  /\ buf = [s \in 0..(HistoryCapacity - 1) |-> NoSample]
  /\ first = 0
  /\ taken = 0

SampleSlot(i) == (first + i) % HistoryCapacity

AppendFree(s) ==
  /\ taken < HistoryCapacity
  /\ buf' = [buf EXCEPT ![SampleSlot(taken)] = s]
  /\ taken' = taken + 1
  /\ UNCHANGED first

AppendFull(s) ==
  /\ taken = HistoryCapacity
  /\ buf' = [buf EXCEPT ![first] = s]
  /\ first' = SampleSlot(1)
  /\ UNCHANGED taken

Reset ==
  /\ first' = 0
  /\ taken' = 0
  /\ UNCHANGED buf

HistoryNext == Reset \/ \E s \in PositionSamples : AppendFree(s) \/ AppendFull(s)

HistorySpec == newPositionHistory /\ [][HistoryNext]_historyVars

-----------------------------------------------------------------------------

Samples == [i \in 1..taken |-> buf[SampleSlot(i - 1)]]

SampleMemory == INSTANCE BoundedMemory
  WITH Things <- PositionSamples, Capacity <- HistoryCapacity, kept <- Samples

(* Samples returns the last samples since the last Reset, oldest first:     *)
(* nothing recorded before a Reset comes back.                              *)
KeepsTheLastSamples == SampleMemory!RepeatingSpec

=============================================================================
