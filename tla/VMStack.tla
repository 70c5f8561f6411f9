------------------------------- MODULE VMStack -------------------------------
(***************************************************************************)
(* The register stack of a VM thread (details/vm/stack.{h,hxx,cpp}): a     *)
(* chain of malloc'ed chunks.  A push that does not fit in the current     *)
(* chunk opens another one; a pop that empties a chunk leaves it, and one  *)
(* emptied chunk is kept aside for the next push.                          *)
(*                                                                         *)
(* A chunk is named by an element of ChunkId (its address); `heap' is the  *)
(* set of addresses malloc has given out and free has not taken back.      *)
(* `frames' is not in the code: it is what the callers hold, the register  *)
(* pointers push returned and pop has not consumed (Executor::call keeps   *)
(* them in its locals).                                                    *)
(***************************************************************************)
EXTENDS Integers, Sequences

CONSTANTS
  ChunkId,          \* the addresses malloc can return
  NoChunk,          \* nullptr
  Value,            \* the contents of a register
  Junk,             \* 0xDEDE..., the filling of a fresh frame in debug builds
  debugmode,        \* Yuni::debugmode
  blockmax,         \* Chunk::blockmax
  blockSizeWanted,  \* Chunk::blockSizeWanted
  MaxCount,         \* bound: the largest frame (Executor::call asserts one)
  MaxDepth          \* bound: the number of live frames

ASSUME StackAssumption ==
  /\ NoChunk \notin ChunkId
  /\ Junk \in Value
  /\ debugmode \in BOOLEAN
  /\ blockmax \in Nat \ {0}
  /\ blockSizeWanted \in Nat \ {0}
  /\ MaxCount \in Nat \ {0}
  /\ MaxDepth \in Nat

VARIABLES
  alive,     \* the Stack object exists
  chain,     \* the chunks from the first one to `current', linked by `previous'
  chunk,     \* remains, capacity and cursor of each chunk
  reserve,   \* the emptied chunk kept for next time, or NoChunk
  heap,      \* the chunks malloc'ed and not freed
  mem,       \* the registers of each chunk
  frames     \* the live frames, innermost last

vars == << alive, chain, chunk, reserve, heap, mem, frames >>

(* No chunk is larger than this, whatever the loop of pushNewChunk does.   *)
Words == 0 .. blockmax + blockSizeWanted + MaxCount

Chunk == [remains : Nat, capacity : Nat, cursor : Nat]

Frame == [chunk : ChunkId, base : Nat, size : 1 .. MaxCount]

current == chain[Len(chain)]

(* The chunks a walk along `previous' reaches.                             *)
Linked == {chain[i] : i \in 1 .. Len(chain)}

TopFrame == frames[Len(frames)]

-----------------------------------------------------------------------------
(* Handing out registers.                                                  *)

(* The capacity of a new chunk: blockmax, enlarged by blockSizeWanted for  *)
(* as long as the request does not fit.                                    *)
GrownCapacity(count, capacity) ==
  \E n \in 0 .. count :
    /\ capacity = blockmax + n * blockSizeWanted
    /\ capacity >= count
    /\ n > 0 => capacity - blockSizeWanted < count

(* A slip: the frame starts at the first register of the chunk.            *)
EnterAtBlock(c, st, count) ==
  /\ chunk' = [chunk EXCEPT ![c] = [remains  |-> st.remains - count,
                                    capacity |-> st.capacity,
                                    cursor   |-> st.cursor + count]]
  /\ frames' = Append(frames, [chunk |-> c, base |-> 0, size |-> count])
  /\ UNCHANGED mem

(* The tail of push, once `current' is the chunk c in state st: the frame  *)
(* starts at its cursor.                                                   *)
Enter(c, st, count) ==
  /\ chunk' = [chunk EXCEPT ![c] = [remains  |-> st.remains - count,
                                    capacity |-> st.capacity,
                                    cursor   |-> st.cursor + count]]
  /\ frames' = Append(frames, [chunk |-> c, base |-> st.cursor, size |-> count])
  /\ mem' = IF debugmode
            THEN [mem EXCEPT ![c] =
                    [w \in Words |-> IF w \in st.cursor .. st.cursor + count - 1
                                     THEN Junk ELSE mem[c][w]]]
            ELSE mem

CanPush(count) == alive /\ count \in 1 .. MaxCount /\ Len(frames) < MaxDepth

PushInPlace(count) ==
  /\ CanPush(count)
  /\ chunk[current].remains >= count
  /\ Enter(current, chunk[current], count)
  /\ UNCHANGED << alive, chain, reserve, heap >>

(* pushNewChunk takes the reserve back when it is large enough.            *)
PushInReserve(count) ==
  /\ CanPush(count)
  /\ chunk[current].remains < count
  /\ reserve # NoChunk
  /\ count <= chunk[reserve].capacity
  /\ chain' = Append(chain, reserve)
  /\ reserve' = NoChunk
  /\ Enter(reserve, [chunk[reserve] EXCEPT !.cursor = 0], count)
  /\ UNCHANGED << alive, heap >>

(* It allocates otherwise; a reserve that is too small stays in place.     *)
PushInNewChunk(count) ==
  /\ CanPush(count)
  /\ chunk[current].remains < count
  /\ ~ (reserve # NoChunk /\ count <= chunk[reserve].capacity)
  /\ \E c \in ChunkId \ heap, capacity \in Words :
       /\ GrownCapacity(count, capacity)
       /\ heap' = heap \cup {c}
       /\ chain' = Append(chain, c)
       /\ Enter(c, [remains |-> capacity, capacity |-> capacity, cursor |-> 0], count)
  /\ UNCHANGED << alive, reserve >>

-----------------------------------------------------------------------------
(* Giving them back.  The caller pops its own frame, by its size.          *)

Popped(count) ==
  [remains  |-> chunk[current].remains + count,
   capacity |-> chunk[current].capacity,
   cursor   |-> chunk[current].cursor - count]

Leave ==
  /\ alive
  /\ frames # << >>
  /\ frames' = SubSeq(frames, 1, Len(frames) - 1)
  /\ chunk' = [chunk EXCEPT ![current] = Popped(TopFrame.size)]
  /\ UNCHANGED << alive, mem >>

PopInPlace ==
  /\ Leave
  /\ Popped(TopFrame.size).remains # chunk[current].capacity
  /\ UNCHANGED << chain, reserve, heap >>

(* Slips: the chunk goes to the reserve one register too early, and over a *)
(* chunk that is already there.                                            *)
PopToReserveEarly ==
  /\ Leave
  /\ Popped(TopFrame.size).remains >= chunk[current].capacity - 1
  /\ reserve = NoChunk
  /\ Len(chain) > 1
  /\ reserve' = current
  /\ chain' = SubSeq(chain, 1, Len(chain) - 1)
  /\ UNCHANGED heap

PopOverReserve ==
  /\ Leave
  /\ Popped(TopFrame.size).remains = chunk[current].capacity
  /\ reserve' = current
  /\ chain' = SubSeq(chain, 1, Len(chain) - 1)
  /\ UNCHANGED heap

(* popChunk: the chunk is empty again.                                     *)
PopToReserve ==
  /\ Leave
  /\ Popped(TopFrame.size).remains = chunk[current].capacity
  /\ reserve = NoChunk
  /\ reserve' = current
  /\ chain' = SubSeq(chain, 1, Len(chain) - 1)
  /\ UNCHANGED heap

PopAndFree ==
  /\ Leave
  /\ Popped(TopFrame.size).remains = chunk[current].capacity
  /\ reserve # NoChunk
  /\ heap' = heap \ {current}
  /\ chain' = SubSeq(chain, 1, Len(chain) - 1)
  /\ UNCHANGED reserve

-----------------------------------------------------------------------------
(* Use and lifetime.                                                       *)

(* The running function writes a register of its own frame.                *)
Write(r, v) ==
  /\ alive
  /\ frames # << >>
  /\ r < TopFrame.size
  /\ mem' = [mem EXCEPT ![TopFrame.chunk][TopFrame.base + r] = v]
  /\ UNCHANGED << alive, chain, chunk, reserve, heap, frames >>

(* ~Stack frees the reserve and the whole chain; when an exception left    *)
(* the interpreter, the frames it abandoned go with them.                  *)
Destroy ==
  /\ alive
  /\ alive' = FALSE
  /\ heap' = heap \ ({reserve} \cup Linked)
  /\ frames' = << >>
  /\ UNCHANGED << chain, chunk, reserve, mem >>

(* The constructor opens a first chunk and takes one register off its      *)
(* `remains', so that pop never finds that chunk empty.                    *)
Init ==
  /\ alive = TRUE
  /\ \E c \in ChunkId :
       /\ chain = << c >>
       /\ heap = {c}
       /\ \E capacity \in Words :
            /\ GrownCapacity(1, capacity)
            /\ chunk = [d \in ChunkId |->
                 [remains  |-> IF d = c THEN capacity - 1 ELSE 0,
                  capacity |-> IF d = c THEN capacity ELSE 0,
                  cursor   |-> 0]]
  /\ reserve = NoChunk
  /\ mem = [d \in ChunkId |-> [w \in Words |-> Junk]]
  /\ frames = << >>

Next ==
  \/ \E count \in 1 .. MaxCount :
       PushInPlace(count) \/ PushInReserve(count) \/ PushInNewChunk(count)
  \/ PopInPlace \/ PopToReserve \/ PopAndFree
  \/ \E r \in 0 .. MaxCount - 1, v \in Value : Write(r, v)
  \/ Destroy

Spec == Init /\ [][Next]_vars

-----------------------------------------------------------------------------
(* Properties.                                                             *)

TypeOK ==
  /\ alive \in BOOLEAN
  /\ chain \in Seq(ChunkId)
  /\ chunk \in [ChunkId -> Chunk]
  /\ reserve \in ChunkId \cup {NoChunk}
  /\ heap \subseteq ChunkId
  /\ mem \in [ChunkId -> [Words -> Value]]
  /\ frames \in Seq(Frame)

(* Every block malloc gave out is either in the chain or the reserve, and  *)
(* nothing else is in them: no chunk is leaked by popChunk, used after it  *)
(* was freed, or linked twice; ~Stack leaves nothing behind.               *)
NoChunkLost ==
  IF alive
  THEN /\ heap = Linked \cup ({reserve} \ {NoChunk})
       /\ \A i, j \in 1 .. Len(chain) : chain[i] = chain[j] => i = j
       /\ reserve \notin Linked
  ELSE heap = {}

(* `current' is never null while the stack is alive, not even when the     *)
(* program pops its last frame (the comment of popChunk fears it is): push *)
(* and ~Stack dereference it without a test.                               *)
CurrentExists == alive => chain # << >>

(* The asserts of push and pop on `registers' and `cursor', and that a     *)
(* chunk taken from the reserve is entirely free.                          *)
CursorInBounds ==
  alive =>
    /\ \A i \in 1 .. Len(chain) :
         /\ chunk[chain[i]].cursor >= 0
         /\ chunk[chain[i]].cursor + chunk[chain[i]].remains
              = chunk[chain[i]].capacity - (IF i = 1 THEN 1 ELSE 0)
    /\ reserve # NoChunk => chunk[reserve].remains = chunk[reserve].capacity

(* A live frame lies below the cursor of a chunk of the chain.             *)
FramesInChain ==
  \A f \in {frames[i] : i \in 1 .. Len(frames)} :
    \E k \in 1 .. Len(chain) :
      /\ f.chunk = chain[k]
      /\ f.base + f.size <= chunk[chain[k]].cursor

(* The pile of frames the callers see.                                     *)
Pile ==
  [i \in 1 .. Len(frames) |->
     [r \in 0 .. frames[i].size - 1 |->
        mem[frames[i].chunk][frames[i].base + r]]]

Frames == INSTANCE FrameStack WITH pile <- Pile

(* The chunks implement the pile of private frames: whatever is pushed,    *)
(* written and popped above it, a frame still holds what its function      *)
(* wrote when the call returns into it.                                    *)
ImplementsFrameStack == Frames!Spec
=============================================================================
