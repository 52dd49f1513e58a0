--------------------------- MODULE TrimmingBuffer ---------------------------
(***************************************************************************)
(* The TrimmingBuffer with one user: the read buffer of ping6-datasend,    *)
(* which adds what it read and takes what it sends, or the order buffer of *)
(* ping6-datarecv, which adds a packet and keeps its slice.                *)
(***************************************************************************)
EXTENDS TrimOps

CONSTANT MaxBytes   \* bound: bytes ever added

ASSUME MaxBytesAssumption == MaxBytes \in Nat

VARIABLES
  user,     \* "reader" (ping6-datasend) or "orderer" (ping6-datarecv)
  ring,     \* the TrimmingBufferImpl
  slices    \* the slices that borrow from it and have not been dropped

bufferVars == <<user, ring, slices>>

BufferInit ==
  /\ user \in {"reader", "orderer"}
  /\ ring = NewBuffer
  /\ slices = {}

Fits(n) == n <= SpaceLeft(ring) /\ ring.del.offset + ring.len + n <= MaxBytes

Add(n) ==
  /\ user = "reader" /\ Fits(n)
  /\ ring' = AddBytes(ring, n)
  /\ UNCHANGED <<user, slices>>

(* take: at most size bytes, and None if there are none. *)
TakeSlice(size) ==
  LET n == IF Available(ring) < size THEN Available(ring) ELSE size
      l == ring.first
      r == ring.first + n - 1
  IN  /\ user = "reader" /\ n > 0
      /\ slices' = slices \cup SliceMade(ring, l, r)
      /\ ring' = HandOut(ring, l, r)
      /\ UNCHANGED user

AddSlicing(n) ==
  LET added == AddBytes(ring, n)
      l == ring.len
      r == added.len - 1
  IN  /\ user = "orderer" /\ Fits(n)
      /\ slices' = slices \cup SliceMade(added, l, r)
      /\ ring' = HandOut(added, l, r)
      /\ UNCHANGED user

DropSlice(s) ==
  /\ slices' = slices \ {s}
  /\ ring' = DropBytes(ring, s)
  /\ UNCHANGED user

Cleanup ==
  /\ ring' = CleanUp(ring)
  /\ UNCHANGED <<user, slices>>

BufferNext ==
  \/ \E n \in 1..Capacity : Add(n) \/ TakeSlice(n) \/ AddSlicing(n)
  \/ \E s \in slices : DropSlice(s)
  \/ Cleanup

BufferSpec == BufferInit /\ [][BufferNext]_bufferVars

-----------------------------------------------------------------------------
(* A slice is a raw pointer: as long as it lives, the memory under it      *)
(* holds the bytes it was made from, whatever has been added or drained.   *)
SlicesKeepTheirBytes ==
  \A s \in slices : \A k \in 0..s.len - 1 : ring.mem[s.start + k] = s.from + k

Bytes(s) == s.from..s.from + s.len - 1

(* Every byte handed out is under exactly one live slice or tracked as     *)
(* deleted: none is freed twice (track_range would panic), none is lost.   *)
(* When a slice is dropped its address is found in one of the halves, at   *)
(* the position its bytes have now: slice_to_range does not panic.         *)
EveryByteIsAccountedFor ==
  LET deleted == Cover(ring.del.ranges)
      held    == UNION {Bytes(s) : s \in slices}
  IN  /\ deleted \cup held = ring.del.offset..ring.del.offset + ring.first - 1
      /\ deleted \cap held = {}
      /\ \A s, t \in slices : s # t => Bytes(s) \cap Bytes(t) = {}
      /\ \A s \in slices :
           (InBeginning(ring, s) \/ InEnding(ring, s))
             /\ PositionOf(ring, s) = s.from - ring.del.offset
=============================================================================
