---------------------------- MODULE VMStackProofs ----------------------------
(***************************************************************************)
(* Proofs about VMStack for any sizes of chunks and frames and any number  *)
(* of addresses: no chunk is lost or shared, the live frames stay inside   *)
(* the chain, and the chunks implement FrameStack.                         *)
(***************************************************************************)
EXTENDS VMStack, SequenceTheorems, TLAPS

End(i) == frames[i].base + frames[i].size

(* What holds of the chunks.  Only the first one may be empty, and its     *)
(* missing register keeps popChunk away from it.                           *)
Accounted(i) ==
  /\ chunk[chain[i]].cursor + chunk[chain[i]].remains
       = chunk[chain[i]].capacity - (IF i = 1 THEN 1 ELSE 0)
  /\ chunk[chain[i]].capacity \in Words
  /\ i > 1 => chunk[chain[i]].cursor > 0

SpareOK ==
  reserve # NoChunk => /\ chunk[reserve].remains = chunk[reserve].capacity
                       /\ chunk[reserve].capacity \in Words

ChunksOK ==
  /\ chain # << >>
  /\ NoChunkLost
  /\ \A i \in 1 .. Len(chain) : Accounted(i)
  /\ SpareOK

(* A frame begins where the one below it ends, or at the start of the      *)
(* chunk that follows.                                                     *)
Follows(i, j) ==
  \/ frames[j].chunk = frames[i].chunk /\ frames[j].base = End(i)
  \/ \E k \in 1 .. Len(chain) - 1 :
       /\ frames[i].chunk = chain[k]
       /\ frames[j].chunk = chain[k + 1]
       /\ frames[j].base = 0
       /\ End(i) = chunk[chain[k]].cursor

FirstFrame ==
  /\ frames[1].base = 0
  /\ \/ frames[1].chunk = chain[1]
     \/ /\ Len(chain) > 1
        /\ frames[1].chunk = chain[2]
        /\ chunk[chain[1]].cursor = 0

LastFrame ==
  /\ frames[Len(frames)].chunk = current
  /\ End(Len(frames)) = chunk[current].cursor

Packed ==
  /\ frames = << >> => Len(chain) = 1 /\ chunk[current].cursor = 0
  /\ frames # << >> => FirstFrame /\ LastFrame
  /\ \A i \in 1 .. Len(frames) - 1 : Follows(i, i + 1)

Placed(i) ==
  \E k \in 1 .. Len(chain) :
    /\ frames[i].chunk = chain[k]
    /\ End(i) <= chunk[chain[k]].cursor

Disjoint ==
  \A i, j \in 1 .. Len(frames) :
    i < j /\ frames[i].chunk = frames[j].chunk => End(i) <= frames[j].base

IInv ==
  /\ TypeOK
  /\ alive => ChunksOK /\ Packed /\ Disjoint /\ \A i \in 1 .. Len(frames) : Placed(i)
  /\ ~ alive => frames = << >> /\ heap = {}

-----------------------------------------------------------------------------
(* A sequence without its last element.                                    *)
LEMMA FrontSeq ==
  ASSUME NEW S, NEW s \in Seq(S), NEW t, s # << >>, t = SubSeq(s, 1, Len(s) - 1)
  PROVE  /\ t \in Seq(S)
         /\ Len(t) = Len(s) - 1
         /\ \A i \in 1 .. Len(s) - 1 : t[i] = s[i]
<1>1. PICK n \in Nat : n = Len(s) - 1 /\ \A i \in 1 .. n : s[i] \in S
  <2>1. Len(s) \in Nat \ {0}
    BY EmptySeq
  <2>2. \A i \in 1 .. Len(s) : s[i] \in S
    OBVIOUS
  <2>3. Len(s) - 1 \in Nat
    BY <2>1
  <2>4. \A i \in 1 .. Len(s) - 1 : s[i] \in S
    BY <2>1, <2>2
  <2> QED
    BY <2>3, <2>4
<1>2. /\ t \in Seq(S)
      /\ Len(t) = IF 1 <= n THEN n - 1 + 1 ELSE 0
      /\ \A i \in 1 .. n - 1 + 1 : t[i] = s[1 + i - 1]
  BY <1>1, SubSeqProperties
<1>3. Len(t) = n
  BY <1>2
<1>4. ASSUME NEW i \in 1 .. n PROVE t[i] = s[i]
  BY <1>2
<1> QED
  BY <1>1, <1>2, <1>3, <1>4

(* Below a length, or the last index of the sequence one longer.           *)
LEMMA Extended ==
  ASSUME NEW n \in Nat, NEW m, m = n + 1, NEW i \in 1 .. m
  PROVE  i \in 1 .. n \/ i = m
OBVIOUS

(* The capacity a new chunk gets fits the request and the registers TLC    *)
(* and the type invariant reserve for a chunk.                             *)
LEMMA Growth ==
  ASSUME NEW count \in 1 .. MaxCount, NEW capacity \in Words,
         GrownCapacity(count, capacity)
  PROVE  capacity \in Nat /\ capacity >= count
BY StackAssumption DEF Words, GrownCapacity

LEMMA InitIInv == Init => IInv
<1> SUFFICES ASSUME Init PROVE IInv
  OBVIOUS
<1> USE StackAssumption
<1>1. PICK c \in ChunkId, capacity \in Words :
        /\ chain = << c >>
        /\ heap = {c}
        /\ GrownCapacity(1, capacity)
        /\ chunk = [d \in ChunkId |->
             [remains  |-> IF d = c THEN capacity - 1 ELSE 0,
              capacity |-> IF d = c THEN capacity ELSE 0,
              cursor   |-> 0]]
  BY DEF Init
<1>2. capacity \in Nat /\ capacity >= 1
  BY <1>1, Growth
<1>3. Len(chain) = 1 /\ chain[1] = c /\ chain \in Seq(ChunkId) /\ current = c
  BY <1>1 DEF current
<1>4. chunk[c] = [remains |-> capacity - 1, capacity |-> capacity, cursor |-> 0]
  BY <1>1
<1>5. TypeOK
  <2>1. chunk \in [ChunkId -> Chunk]
    BY <1>1, <1>2 DEF Chunk
  <2>2. mem \in [ChunkId -> [Words -> Value]]
    BY DEF Init
  <2>3. frames \in Seq(Frame)
    BY DEF Init
  <2> QED
    BY <1>1, <1>3, <2>1, <2>2, <2>3 DEF Init, TypeOK
<1>6. ChunksOK
  <2>1. NoChunkLost
    <3>1. Linked = {c}
      BY <1>3 DEF Linked
    <3>2. \A i \in 1 .. Len(chain) : i = 1
      BY <1>3
    <3>3. alive /\ reserve = NoChunk
      BY DEF Init
    <3>4. heap = Linked \cup ({reserve} \ {NoChunk})
      BY <1>1, <3>1, <3>3
    <3>5. reserve \notin Linked
      BY <1>1, <3>1, <3>3
    <3> QED
      BY <3>2, <3>3, <3>4, <3>5 DEF NoChunkLost
  <2>2. \A i \in 1 .. Len(chain) :
          /\ i = 1
          /\ chunk[chain[i]].cursor = 0
          /\ chunk[chain[i]].remains = capacity - 1
          /\ chunk[chain[i]].capacity = capacity
    BY <1>3, <1>4
  <2>3. chain # << >> /\ reserve = NoChunk
    BY <1>1 DEF Init
  <2> QED
    BY <1>2, <2>1, <2>2, <2>3 DEF ChunksOK, Accounted, SpareOK
<1>7. Packed /\ Disjoint /\ \A i \in 1 .. Len(frames) : Placed(i)
  BY <1>3, <1>4 DEF Init, Packed, Disjoint, Placed
<1> QED
  BY <1>5, <1>6, <1>7 DEF Init, IInv

-----------------------------------------------------------------------------
(* What the common end of the pushes does, and what it leaves alone.       *)
LEMMA EnterFrames ==
  ASSUME TypeOK,
         NEW c \in ChunkId, NEW st \in Chunk, NEW count \in 1 .. MaxCount,
         Enter(c, st, count)
  PROVE  /\ frames' \in Seq(Frame)
         /\ Len(frames') = Len(frames) + 1
         /\ \A i \in 1 .. Len(frames) : frames'[i] = frames[i]
         /\ frames'[Len(frames')] = [chunk |-> c, base |-> st.cursor, size |-> count]
<1> DEFINE f == [chunk |-> c, base |-> st.cursor, size |-> count]
<1>1. f \in Frame
  BY DEF Frame, Chunk
<1>2. frames \in Seq(Frame) /\ frames' = Append(frames, f)
  BY DEF TypeOK, Enter
<1> HIDE DEF f
<1>3. /\ frames' \in Seq(Frame)
      /\ Len(frames') = Len(frames) + 1
      /\ \A i \in 1 .. Len(frames) : frames'[i] = frames[i]
      /\ frames'[Len(frames')] = f
  BY <1>1, <1>2
<1> QED
  BY <1>3 DEF f

LEMMA EnterChunk ==
  ASSUME TypeOK,
         NEW c \in ChunkId, NEW st \in Chunk, NEW count \in 1 .. MaxCount,
         count <= st.remains,
         Enter(c, st, count)
  PROVE  /\ chunk' \in [ChunkId -> Chunk]
         /\ chunk'[c].cursor = st.cursor + count
         /\ chunk'[c].remains = st.remains - count
         /\ chunk'[c].capacity = st.capacity
         /\ \A d \in ChunkId : d # c => chunk'[d] = chunk[d]
<1> DEFINE rec == [remains  |-> st.remains - count,
                   capacity |-> st.capacity,
                   cursor   |-> st.cursor + count]
<1>1. rec \in Chunk
  BY DEF Chunk
<1>2. chunk' = [chunk EXCEPT ![c] = rec]
  BY DEF Enter
<1> HIDE DEF rec
<1>3. /\ chunk' \in [ChunkId -> Chunk]
      /\ chunk'[c] = rec
      /\ \A d \in ChunkId : d # c => chunk'[d] = chunk[d]
  BY <1>1, <1>2 DEF TypeOK
<1> QED
  BY <1>3 DEF rec

LEMMA EnterMem ==
  ASSUME TypeOK,
         NEW c \in ChunkId, NEW st \in Chunk, NEW count \in 1 .. MaxCount,
         Enter(c, st, count)
  PROVE  /\ mem' \in [ChunkId -> [Words -> Value]]
         /\ \A d \in ChunkId, w \in Words :
              d # c \/ w < st.cursor => mem'[d][w] = mem[d][w]
<1>1. mem' \in [ChunkId -> [Words -> Value]]
  BY StackAssumption DEF TypeOK, Enter
<1>2. ASSUME NEW d \in ChunkId, NEW w \in Words, d # c \/ w < st.cursor
      PROVE  mem'[d][w] = mem[d][w]
  <2>1. st.cursor \in Nat /\ w \in Int
    BY StackAssumption DEF Chunk, Words
  <2> QED
    BY <1>2, <2>1 DEF TypeOK, Enter
<1> QED
  BY <1>1, <1>2

(* The shape of a live stack, spelled out.                                 *)
LEMMA Shape ==
  ASSUME IInv, alive
  PROVE  /\ TypeOK /\ ChunksOK /\ Packed /\ Disjoint
         /\ \A i \in 1 .. Len(frames) : Placed(i)
         /\ Len(chain) \in Nat \ {0}
         /\ current = chain[Len(chain)]
         /\ current \in ChunkId
         /\ Len(frames) \in Nat
         /\ frames # << >> => Len(frames) \in Nat \ {0}
BY DEF IInv, TypeOK, ChunksOK, current

LEMMA ChunkShape ==
  ASSUME IInv, alive, NEW i \in 1 .. Len(chain)
  PROVE  /\ chain[i] \in ChunkId
         /\ chunk[chain[i]].cursor \in Nat
         /\ chunk[chain[i]].remains \in Nat
         /\ chunk[chain[i]].capacity \in Nat
         /\ chain[i] \in Linked
         /\ chain[i] # reserve
         /\ i # Len(chain) => chain[i] # current
         /\ Accounted(i)
<1>1. TypeOK /\ ChunksOK /\ current = chain[Len(chain)] /\ Len(chain) \in Nat \ {0}
  BY Shape
<1>2. chain[i] \in ChunkId
  BY <1>1 DEF TypeOK
<1>3. chunk[chain[i]] \in Chunk
  BY <1>1, <1>2 DEF TypeOK
<1>4. chain[i] \in Linked /\ chain[i] # reserve
  BY <1>1 DEF Linked, ChunksOK, NoChunkLost
<1>5. i # Len(chain) => chain[i] # current
  BY <1>1 DEF ChunksOK, NoChunkLost
<1>6. Accounted(i)
  BY <1>1 DEF ChunksOK
<1> QED
  BY <1>2, <1>3, <1>4, <1>5, <1>6 DEF Chunk

LEMMA FrameShape ==
  ASSUME IInv, alive, NEW i \in 1 .. Len(frames)
  PROVE  /\ frames[i].chunk \in ChunkId
         /\ frames[i].base \in Nat
         /\ frames[i].size \in 1 .. MaxCount
         /\ frames[i].size \in Nat
         /\ End(i) \in Nat
<1>1. frames[i] \in Frame
  BY Shape DEF TypeOK
<1> QED
  BY <1>1, StackAssumption DEF Frame, End

LEMMA PushInPlaceIInv ==
  ASSUME IInv, NEW count \in 1 .. MaxCount, PushInPlace(count)
  PROVE  IInv'
<1> USE StackAssumption
<1>1. alive /\ alive' = alive /\ chain' = chain /\ reserve' = reserve /\ heap' = heap
  BY DEF PushInPlace, CanPush
<1>2. TypeOK /\ ChunksOK /\ Packed /\ Disjoint /\ \A i \in 1 .. Len(frames) : Placed(i)
  BY <1>1, Shape
<1>3. /\ Len(chain) \in Nat \ {0} /\ current \in ChunkId /\ current = chain[Len(chain)]
      /\ \A i \in 1 .. Len(chain) :
           /\ chain[i] \in ChunkId
           /\ chunk[chain[i]].cursor \in Nat
           /\ i # Len(chain) => chain[i] # current
  <2>1. Len(chain) \in Nat \ {0} /\ current \in ChunkId /\ current = chain[Len(chain)]
    BY <1>1, Shape
  <2>2. ASSUME NEW i \in 1 .. Len(chain)
        PROVE chain[i] \in ChunkId /\ chunk[chain[i]].cursor \in Nat
    BY <1>1, ChunkShape
  <2>3. ASSUME NEW i \in 1 .. Len(chain), i # Len(chain)
        PROVE chain[i] # current
    BY <1>1, <2>3, ChunkShape
  <2> QED
    BY <2>1, <2>2, <2>3
<1>4. chunk[current] \in Chunk /\ count <= chunk[current].remains
  BY <1>2, <1>3 DEF TypeOK, PushInPlace, Chunk
<1>5. Enter(current, chunk[current], count)
  BY DEF PushInPlace
<1> DEFINE st == chunk[current]
<1>6. /\ frames' \in Seq(Frame)
      /\ Len(frames') = Len(frames) + 1
      /\ \A i \in 1 .. Len(frames) : frames'[i] = frames[i]
      /\ frames'[Len(frames')] = [chunk |-> current, base |-> st.cursor, size |-> count]
  BY <1>2, <1>3, <1>4, <1>5, EnterFrames
<1>c. /\ chunk' \in [ChunkId -> Chunk]
      /\ chunk'[current].cursor = st.cursor + count
      /\ chunk'[current].remains = st.remains - count
      /\ chunk'[current].capacity = st.capacity
      /\ \A d \in ChunkId : d # current => chunk'[d] = chunk[d]
  BY <1>2, <1>3, <1>4, <1>5, EnterChunk
<1>m. mem' \in [ChunkId -> [Words -> Value]]
  BY <1>2, <1>3, <1>4, <1>5, EnterMem
<1>k. ASSUME NEW k \in 1 .. Len(chain), k # Len(chain)
      PROVE  chunk'[chain[k]] = chunk[chain[k]]
  BY <1>3, <1>c, <1>k
<1>7. TypeOK'
  BY <1>1, <1>2, <1>6, <1>c, <1>m DEF TypeOK
<1>8. ChunksOK'
  <2>1. NoChunkLost'
    BY <1>1, <1>2 DEF ChunksOK, NoChunkLost, Linked
  <2>2. \A i \in 1 .. Len(chain) : chain[i] \in ChunkId
    BY <1>2 DEF TypeOK
  <2>3. ASSUME NEW i \in 1 .. Len(chain)
        PROVE  Accounted(i)'
    <3>1. CASE i = Len(chain)
      <4>1. Accounted(i) /\ chain[i] = current /\ chain'[i] = current
        BY <1>1, <1>2, <1>3, <3>1 DEF ChunksOK
      <4> QED
        <5>1. /\ st.cursor + st.remains = st.capacity - (IF i = 1 THEN 1 ELSE 0)
              /\ st.capacity \in Words
              /\ st.cursor \in Nat /\ st.remains \in Nat /\ st.capacity \in Nat
          BY <1>4, <4>1 DEF Accounted, Chunk
        <5>2. /\ chunk'[chain'[i]].cursor = st.cursor + count
              /\ chunk'[chain'[i]].remains = st.remains - count
              /\ chunk'[chain'[i]].capacity = st.capacity
          BY <1>6, <1>c, <4>1
        <5> HIDE DEF st
        <5> QED
          BY <5>1, <5>2 DEF Accounted
    <3>2. CASE i # Len(chain)
      <4>1. chain[i] # current
        BY <1>1, <1>2, <1>3, <3>2 DEF ChunksOK, NoChunkLost
      <4> QED
        BY <1>1, <1>2, <1>6, <1>c, <2>2, <4>1 DEF ChunksOK, Accounted
    <3> QED
      BY <3>1, <3>2
  <2>4. SpareOK'
    <3>1. reserve # current
      BY <1>1, <1>2, <1>3 DEF ChunksOK, NoChunkLost, Linked
    <3> QED
      BY <1>1, <1>2, <1>6, <1>c, <3>1 DEF ChunksOK, SpareOK, TypeOK
  <2> QED
    BY <1>1, <1>2, <2>1, <2>3, <2>4 DEF ChunksOK
<1>9. Packed'
  <2>1. frames' # << >>
    BY <1>2, <1>6, <1>c DEF TypeOK
  <2>2. FirstFrame'
    <3>1. CASE frames = << >>
      <4>1. Len(chain) = 1 /\ current = chain[1] /\ st.cursor = 0
        BY <1>2, <1>3, <3>1 DEF Packed
      <4>2. Len(frames') = 1
        BY <1>6, <1>c, <3>1
      <4>3. frames'[1] = [chunk |-> chain'[1], base |-> 0, size |-> count]
        BY <1>1, <1>6, <1>c, <4>1, <4>2
      <4> QED
        BY <4>3 DEF FirstFrame
    <3>2. CASE frames # << >>
      <4>1. FirstFrame /\ Len(frames) \in Nat \ {0} /\ frames'[1] = frames[1]
        BY <1>2, <1>6, <1>c, <3>2 DEF Packed, TypeOK
      <4>2. ASSUME Len(chain) > 1
            PROVE  chunk'[chain[1]] = chunk[chain[1]]
        BY <1>3, <1>k, <4>2
      <4> QED
        BY <1>1, <4>1, <4>2 DEF FirstFrame
    <3> QED
      BY <3>1, <3>2
  <2>3. LastFrame'
    BY <1>1, <1>3, <1>6, <1>c DEF LastFrame, End, current
  <2>4. ASSUME NEW i \in 1 .. Len(frames') - 1
        PROVE  Follows(i, i + 1)'
    <3>1. CASE i = Len(frames)
      <4>1. frames # << >> /\ i \in 1 .. Len(frames)
        BY <1>2, <1>6, <1>c, <3>1 DEF TypeOK
      <4>2. LastFrame /\ frames'[i] = frames[i]
        BY <1>2, <1>6, <1>c, <3>1, <4>1 DEF Packed
      <4> QED
        BY <1>1, <1>6, <1>c, <3>1, <4>1, <4>2 DEF LastFrame, Follows, End
    <3>2. CASE i # Len(frames)
      <4>1. i \in 1 .. Len(frames) - 1 /\ Len(frames) \in Nat
        BY <1>2, <1>6, <1>c, <3>2 DEF TypeOK
      <4>2. Follows(i, i + 1) /\ frames'[i] = frames[i] /\ frames'[i + 1] = frames[i + 1]
        BY <1>2, <1>6, <1>c, <4>1 DEF Packed
      <4>3. ASSUME NEW k \in 1 .. Len(chain) - 1
            PROVE  chunk'[chain[k]] = chunk[chain[k]]
        BY <1>3, <1>k
      <4> QED
        BY <1>1, <4>2, <4>3 DEF Follows, End
    <3> QED
      BY <3>1, <3>2
  <2> QED
    BY <2>1, <2>2, <2>3, <2>4 DEF Packed
<1>10. Disjoint'
  <2> SUFFICES ASSUME NEW i \in 1 .. Len(frames'), NEW j \in 1 .. Len(frames'),
                      i < j, frames'[i].chunk = frames'[j].chunk
               PROVE  frames'[i].base + frames'[i].size <= frames'[j].base
    BY DEF Disjoint, End
  <2>1. i \in 1 .. Len(frames) /\ frames'[i] = frames[i] /\ Len(frames) \in Nat
    BY <1>2, <1>6, <1>c DEF TypeOK
  <2>2. CASE j \in 1 .. Len(frames)
    BY <1>2, <1>6, <1>c, <2>1, <2>2 DEF Disjoint, End
  <2>3. CASE j = Len(frames')
    BY <1>2, <1>6, <1>c, <2>1, <2>3 DEF Placed, End
  <2>4. j \in 1 .. Len(frames) \/ j = Len(frames')
    <3>1. Len(frames') = Len(frames) + 1
      BY <1>6, <1>c
    <3> QED
      BY <2>1, <3>1
  <2> QED
    BY <2>2, <2>3, <2>4
<1>11. ASSUME NEW i \in 1 .. Len(frames')
       PROVE  Placed(i)'
  <2>0. Len(frames) \in Nat
    BY <1>2 DEF TypeOK
  <2>1. CASE i \in 1 .. Len(frames)
    <3>1. PICK k \in 1 .. Len(chain) :
            frames[i].chunk = chain[k] /\ End(i) <= chunk[chain[k]].cursor
      BY <1>2, <2>1 DEF Placed
    <3>2. End(i) \in Nat /\ chunk[chain[k]].cursor \in Nat
      BY <1>1, <1>3, <2>1, FrameShape
    <3>3. CASE chain[k] = current
      <4>1. chunk'[chain[k]].cursor = chunk[chain[k]].cursor + count
        BY <1>6, <1>c, <3>3
      <4>2. End(i)' = End(i) /\ frames'[i].chunk = chain'[k] /\ k \in 1 .. Len(chain')
        BY <1>1, <1>6, <2>1, <3>1 DEF End
      <4>3. End(i) <= chunk'[chain'[k]].cursor
        BY <1>1, <3>1, <3>2, <4>1
      <4> QED
        BY <4>2, <4>3 DEF Placed
    <3>4. CASE chain[k] # current
      <4>1. chunk'[chain[k]] = chunk[chain[k]]
        BY <1>3, <1>6, <1>c, <3>4
      <4> QED
        BY <1>1, <1>6, <1>c, <2>1, <3>1, <4>1 DEF Placed, End
    <3> QED
      BY <3>3, <3>4
  <2>2. CASE i = Len(frames')
    <3>1. End(i)' = chunk'[chain'[Len(chain)]].cursor
      BY <1>1, <1>3, <1>6, <1>c, <2>2 DEF End
    <3>2. End(i)' \in Nat
      BY <1>4, <1>6, <1>c, <2>2 DEF End, Chunk
    <3> QED
      BY <1>1, <1>3, <1>6, <1>c, <2>2, <3>1, <3>2 DEF Placed
  <2> QED
    BY <1>6, <1>c, <2>0, <2>1, <2>2
<1> QED
  BY <1>1, <1>7, <1>8, <1>9, <1>10, <1>11 DEF IInv
-----------------------------------------------------------------------------

(* The two pushes that open a chunk c: one never linked, and free.         *)
LEMMA OpenChunkIInv ==
  ASSUME IInv, alive, alive' = alive,
         NEW count \in 1 .. MaxCount, NEW c \in ChunkId, NEW st \in Chunk,
         c \notin Linked,
         st.cursor = 0, st.remains = st.capacity, count <= st.capacity,
         st.capacity \in Words,
         chain' = Append(chain, c),
         Enter(c, st, count),
         reserve' # c, reserve' = reserve \/ reserve' = NoChunk,
         heap' \subseteq ChunkId,
         heap' = (Linked \cup {c}) \cup ({reserve'} \ {NoChunk})
  PROVE  IInv'
<1> USE StackAssumption
<1>2. TypeOK /\ ChunksOK /\ Packed /\ Disjoint /\ \A i \in 1 .. Len(frames) : Placed(i)
  BY Shape
<1>3. Len(chain) \in Nat \ {0} /\ current \in ChunkId /\ current = chain[Len(chain)]
  BY Shape
<1>4. /\ chain' \in Seq(ChunkId)
      /\ Len(chain') = Len(chain) + 1
      /\ \A k \in 1 .. Len(chain) : chain'[k] = chain[k]
      /\ chain'[Len(chain')] = c
  BY <1>2 DEF TypeOK
<1>5. ASSUME NEW k \in 1 .. Len(chain)
      PROVE  chain[k] # c /\ chain[k] \in ChunkId
  BY ChunkShape
<1>6. /\ frames' \in Seq(Frame)
      /\ Len(frames') = Len(frames) + 1
      /\ \A i \in 1 .. Len(frames) : frames'[i] = frames[i]
      /\ frames'[Len(frames')] = [chunk |-> c, base |-> 0, size |-> count]
  BY <1>2, EnterFrames
<1>c. /\ chunk' \in [ChunkId -> Chunk]
      /\ chunk'[c].cursor = count
      /\ chunk'[c].remains = st.capacity - count
      /\ chunk'[c].capacity = st.capacity
      /\ \A d \in ChunkId : d # c => chunk'[d] = chunk[d]
  BY <1>2, EnterChunk DEF Chunk
<1>m. mem' \in [ChunkId -> [Words -> Value]]
  BY <1>2, EnterMem
<1>k. ASSUME NEW k \in 1 .. Len(chain)
      PROVE  chunk'[chain'[k]] = chunk[chain[k]]
  BY <1>4, <1>5, <1>c
<1>l. Len(frames) \in Nat /\ st.capacity \in Nat
  BY <1>2 DEF TypeOK, Chunk
<1>7. TypeOK'
  BY <1>2, <1>4, <1>6, <1>c, <1>m DEF TypeOK
<1>8. ChunksOK'
  <2>1. Linked' = Linked \cup {c}
    <3>1. ASSUME NEW d \in Linked' PROVE d \in Linked \cup {c}
      <4>1. PICK k \in 1 .. Len(chain') : d = chain'[k]
        BY DEF Linked
      <4>2. CASE k \in 1 .. Len(chain)
        BY <1>4, <4>1, <4>2 DEF Linked
      <4>3. CASE k = Len(chain')
        BY <1>4, <4>1, <4>3
      <4> QED
        BY <1>3, <1>4, <4>2, <4>3
    <3>2. ASSUME NEW d \in Linked PROVE d \in Linked'
      <4>1. PICK k \in 1 .. Len(chain) : d = chain[k]
        BY DEF Linked
      <4>2. k \in 1 .. Len(chain') /\ d = chain'[k]
        BY <1>3, <1>4, <4>1
      <4> QED
        BY <4>2 DEF Linked
    <3>3. c \in Linked'
      <4>1. Len(chain') \in 1 .. Len(chain')
        BY <1>3, <1>4
      <4> QED
        BY <1>4, <4>1 DEF Linked
    <3> QED
      BY <3>1, <3>2, <3>3
  <2>2. ASSUME NEW i \in 1 .. Len(chain'), NEW j \in 1 .. Len(chain'),
               chain'[i] = chain'[j]
        PROVE  i = j
    <3>1. i \in 1 .. Len(chain) \/ i = Len(chain')
      BY <1>3, <1>4
    <3>2. j \in 1 .. Len(chain) \/ j = Len(chain')
      BY <1>3, <1>4
    <3>3. \A p, q \in 1 .. Len(chain) : chain[p] = chain[q] => p = q
      BY <1>2 DEF ChunksOK, NoChunkLost
    <3> QED
      BY <1>4, <1>5, <2>2, <3>1, <3>2, <3>3
  <2>3. reserve' \notin Linked'
    <3>1. reserve \notin Linked /\ NoChunk \notin Linked
      BY <1>2, <1>5 DEF ChunksOK, NoChunkLost, Linked
    <3> QED
      BY <2>1, <3>1
  <2>4. NoChunkLost'
    BY <2>1, <2>2, <2>3 DEF NoChunkLost
  <2>5. ASSUME NEW i \in 1 .. Len(chain')
        PROVE  Accounted(i)'
    <3>1. CASE i = Len(chain')
      <4>1. /\ chunk'[chain'[i]].cursor = count
            /\ chunk'[chain'[i]].remains = st.capacity - count
            /\ chunk'[chain'[i]].capacity = st.capacity
        BY <1>4, <1>c, <3>1
      <4>2. i > 1 /\ i # 1
        BY <1>3, <1>4, <3>1
      <4> QED
        BY <1>l, <4>1, <4>2 DEF Accounted
    <3>2. CASE i \in 1 .. Len(chain)
      <4>1. Accounted(i)
        BY <3>2, ChunkShape
      <4> QED
        BY <1>k, <3>2, <4>1 DEF Accounted
    <3> QED
      BY <1>3, <1>4, <3>1, <3>2
  <2>6. SpareOK'
    BY <1>2, <1>c DEF ChunksOK, SpareOK, TypeOK
  <2>7. chain' # << >>
    BY <1>3, <1>4
  <2> QED
    BY <2>4, <2>5, <2>6, <2>7 DEF ChunksOK
<1>9. Packed'
  <2>1. frames' # << >>
    BY <1>6, <1>l
  <2>2. FirstFrame'
    <3>1. CASE frames = << >>
      <4>1. Len(chain) = 1 /\ chunk[current].cursor = 0 /\ current = chain[1]
        BY <1>2, <1>3, <3>1 DEF Packed
      <4>2. Len(frames') = 1 /\ Len(chain') = 2 /\ chunk'[chain'[1]].cursor = 0
        BY <1>4, <1>6, <1>k, <3>1, <4>1
      <4>3. frames'[1] = [chunk |-> chain'[2], base |-> 0, size |-> count]
        BY <1>4, <1>6, <4>2
      <4> QED
        BY <4>2, <4>3 DEF FirstFrame
    <3>2. CASE frames # << >>
      <4>1. FirstFrame /\ 1 \in 1 .. Len(frames) /\ frames'[1] = frames[1]
        BY <1>2, <1>6, <3>2 DEF Packed, TypeOK
      <4>2. chain'[1] = chain[1] /\ chunk'[chain'[1]] = chunk[chain[1]]
        BY <1>3, <1>4, <1>k
      <4>3. ASSUME Len(chain) > 1 PROVE Len(chain') > 1 /\ chain'[2] = chain[2]
        BY <1>3, <1>4, <4>3
      <4> QED
        BY <4>1, <4>2, <4>3 DEF FirstFrame
    <3> QED
      BY <3>1, <3>2
  <2>3. LastFrame'
    <3>1. current' = c
      BY <1>4 DEF current
    <3> QED
      BY <1>6, <1>c, <3>1 DEF LastFrame, End
  <2>4. ASSUME NEW i \in 1 .. Len(frames') - 1
        PROVE  Follows(i, i + 1)'
    <3>0. i \in 1 .. Len(frames) /\ frames'[i] = frames[i]
      BY <1>6, <1>l
    <3>1. CASE i = Len(frames)
      <4>1. LastFrame
        BY <1>2, <3>0 DEF Packed, TypeOK
      <4>2. /\ Len(chain) \in 1 .. Len(chain') - 1
            /\ frames'[i].chunk = chain'[Len(chain)]
            /\ chunk'[chain'[Len(chain)]] = chunk[current]
            /\ chain'[Len(chain) + 1] = c
        BY <1>3, <1>4, <1>k, <3>0, <3>1, <4>1 DEF LastFrame
      <4>3. End(i)' = chunk'[chain'[Len(chain)]].cursor
        BY <3>0, <3>1, <4>1, <4>2 DEF LastFrame, End
      <4>4. frames'[i + 1].chunk = c /\ frames'[i + 1].base = 0
        BY <1>6, <3>1
      <4> QED
        BY <4>2, <4>3, <4>4 DEF Follows
    <3>2. CASE i # Len(frames)
      <4>1. i \in 1 .. Len(frames) - 1 /\ frames'[i + 1] = frames[i + 1]
        BY <1>6, <1>l, <3>0, <3>2, SMTT(30)
      <4>2. Follows(i, i + 1)
        BY <1>2, <4>1 DEF Packed
      <4>3. ASSUME NEW k \in 1 .. Len(chain) - 1
            PROVE  /\ k \in 1 .. Len(chain') - 1
                   /\ chain'[k] = chain[k]
                   /\ chain'[k + 1] = chain[k + 1]
                   /\ chunk'[chain'[k]] = chunk[chain[k]]
        BY <1>3, <1>4, <1>k
      <4>4. End(i)' = End(i)
        BY <3>0 DEF End
      <4>5. CASE frames[i + 1].chunk = frames[i].chunk /\ frames[i + 1].base = End(i)
        BY <3>0, <4>1, <4>4, <4>5 DEF Follows
      <4>6. ASSUME NEW k \in 1 .. Len(chain) - 1,
                   frames[i].chunk = chain[k], frames[i + 1].chunk = chain[k + 1],
                   frames[i + 1].base = 0, End(i) = chunk[chain[k]].cursor
            PROVE  Follows(i, i + 1)'
        <5>1. /\ k \in 1 .. Len(chain') - 1
              /\ frames'[i].chunk = chain'[k]
              /\ frames'[i + 1].chunk = chain'[k + 1]
              /\ frames'[i + 1].base = 0
              /\ End(i)' = chunk'[chain'[k]].cursor
          BY <3>0, <4>1, <4>3, <4>4, <4>6
        <5> QED
          BY <5>1 DEF Follows
      <4> QED
        BY <4>2, <4>5, <4>6 DEF Follows
    <3> QED
      BY <3>1, <3>2
  <2> QED
    BY <2>1, <2>2, <2>3, <2>4 DEF Packed
<1>10. Disjoint'
  <2> SUFFICES ASSUME NEW i \in 1 .. Len(frames'), NEW j \in 1 .. Len(frames'),
                      i < j, frames'[i].chunk = frames'[j].chunk
               PROVE  frames'[i].base + frames'[i].size <= frames'[j].base
    BY DEF Disjoint, End
  <2>1. i \in 1 .. Len(frames) /\ frames'[i] = frames[i]
    BY <1>6, <1>l
  <2>2. CASE j \in 1 .. Len(frames)
    BY <1>2, <1>6, <2>1, <2>2 DEF Disjoint, End
  <2>3. j # Len(frames')
    BY <1>2, <1>5, <1>6, <2>1, SMTT(30) DEF Placed
  <2>4. Len(frames') = Len(frames) + 1 /\ Len(frames) \in Nat
    BY <1>6, <1>l
  <2>5. j \in 1 .. Len(frames) \/ j = Len(frames')
    BY <2>4, Extended
  <2> QED
    BY <2>2, <2>3, <2>5
<1>11. ASSUME NEW i \in 1 .. Len(frames')
       PROVE  Placed(i)'
  <2>1. CASE i \in 1 .. Len(frames)
    <3>1. PICK k \in 1 .. Len(chain) :
            frames[i].chunk = chain[k] /\ End(i) <= chunk[chain[k]].cursor
      BY <1>2, <2>1 DEF Placed
    <3>2. k \in 1 .. Len(chain') /\ chain'[k] = chain[k]
      BY <1>3, <1>4, <3>1
    <3>3. chunk'[chain'[k]] = chunk[chain[k]]
      BY <1>k, <3>1
    <3> QED
      BY <1>6, <2>1, <3>1, <3>2, <3>3 DEF Placed, End
  <2>2. CASE i = Len(frames')
    <3>1. Len(chain') \in 1 .. Len(chain')
      BY <1>3, <1>4
    <3> QED
      BY <1>4, <1>6, <1>c, <2>2, <3>1 DEF Placed, End
  <2> QED
    BY <1>6, <1>l, <2>1, <2>2
<1> QED
  BY <1>7, <1>8, <1>9, <1>10, <1>11 DEF IInv

LEMMA PushInReserveIInv ==
  ASSUME IInv, NEW count \in 1 .. MaxCount, PushInReserve(count)
  PROVE  IInv'
<1> USE StackAssumption
<1> DEFINE st == [chunk[reserve] EXCEPT !.cursor = 0]
<1>1. alive /\ alive' = alive /\ heap' = heap /\ reserve' = NoChunk /\ reserve # NoChunk
  BY DEF PushInReserve, CanPush
<1>2. TypeOK /\ ChunksOK
  BY <1>1, Shape
<1>3. reserve \in ChunkId /\ reserve \notin Linked /\ NoChunk \notin Linked
  BY <1>1, <1>2, ChunkShape DEF TypeOK, ChunksOK, NoChunkLost, Linked
<1>4. chunk[reserve] \in Chunk
  BY <1>2, <1>3 DEF TypeOK
<1>5. /\ st \in Chunk /\ st.cursor = 0
      /\ st.remains = chunk[reserve].remains /\ st.capacity = chunk[reserve].capacity
  BY <1>4 DEF Chunk
<1>6. st.remains = st.capacity /\ st.capacity \in Words /\ count <= st.capacity
  BY <1>1, <1>2, <1>5 DEF PushInReserve, ChunksOK, SpareOK
<1>7. chain' = Append(chain, reserve) /\ Enter(reserve, st, count)
  BY DEF PushInReserve
<1>8. heap' \subseteq ChunkId /\ heap' = (Linked \cup {reserve}) \cup ({reserve'} \ {NoChunk})
  BY <1>1, <1>2 DEF TypeOK, ChunksOK, NoChunkLost
<1>9. reserve' # reserve
  BY <1>1
<1> HIDE DEF st
<1> QED
  BY <1>1, <1>3, <1>5, <1>6, <1>7, <1>8, <1>9, OpenChunkIInv

LEMMA PushInNewChunkIInv ==
  ASSUME IInv, NEW count \in 1 .. MaxCount, PushInNewChunk(count)
  PROVE  IInv'
<1> USE StackAssumption
<1>1. alive /\ alive' = alive /\ reserve' = reserve
  BY DEF PushInNewChunk, CanPush
<1>2. PICK c \in ChunkId \ heap, capacity \in Words :
        /\ GrownCapacity(count, capacity)
        /\ heap' = heap \cup {c}
        /\ chain' = Append(chain, c)
        /\ Enter(c, [remains |-> capacity, capacity |-> capacity, cursor |-> 0], count)
  BY DEF PushInNewChunk
<1> DEFINE st == [remains |-> capacity, capacity |-> capacity, cursor |-> 0]
<1>3. capacity \in Nat /\ capacity >= count
  BY <1>2, Growth
<1>4. /\ st \in Chunk /\ st.cursor = 0 /\ st.remains = st.capacity
      /\ count <= st.capacity /\ st.capacity \in Words
  BY <1>3 DEF Chunk
<1>5. TypeOK /\ heap = Linked \cup ({reserve} \ {NoChunk})
  BY <1>1, Shape DEF ChunksOK, NoChunkLost
<1>6. c \notin Linked /\ reserve' # c
  BY <1>1, <1>5 DEF TypeOK
<1>7. heap' \subseteq ChunkId /\ heap' = (Linked \cup {c}) \cup ({reserve'} \ {NoChunk})
  BY <1>1, <1>2, <1>5 DEF TypeOK
<1>8. chain' = Append(chain, c) /\ Enter(c, st, count)
  BY <1>2
<1> HIDE DEF st
<1> QED
  BY <1>1, <1>4, <1>6, <1>7, <1>8, OpenChunkIInv
-----------------------------------------------------------------------------

-----------------------------------------------------------------------------
(* The common part of the pops: the innermost frame is the last one of the *)
(* current chunk, whose cursor falls back to where that frame began.       *)
LEMMA Leaving ==
  ASSUME IInv, Leave
  PROVE  /\ alive /\ alive' /\ alive' = alive
         /\ Len(frames) \in Nat \ {0}
         /\ frames' \in Seq(Frame)
         /\ Len(frames') = Len(frames) - 1
         /\ \A i \in 1 .. Len(frames') : frames'[i] = frames[i]
         /\ frames[Len(frames)].chunk = current
         /\ frames[Len(frames)].base \in Nat
         /\ chunk' \in [ChunkId -> Chunk]
         /\ chunk'[current].cursor = frames[Len(frames)].base
         /\ chunk'[current].remains = Popped(TopFrame.size).remains
         /\ chunk'[current].capacity = chunk[current].capacity
         /\ chunk[current].capacity \in Nat
         /\ Popped(TopFrame.size).remains \in Nat
         /\ frames[Len(frames)].base + Popped(TopFrame.size).remains
              = chunk[current].cursor + chunk[current].remains
         /\ \A d \in ChunkId : d # current => chunk'[d] = chunk[d]
         /\ mem' = mem
<1> USE StackAssumption
<1> DEFINE n == Len(frames)
           rec == Popped(TopFrame.size)
<1>1. alive /\ alive' /\ alive' = alive /\ mem' = mem /\ frames # << >>
  BY DEF Leave
<1>2. TypeOK /\ Packed /\ n \in Nat \ {0} /\ current \in ChunkId
  BY <1>1, Shape
<1>3. /\ frames' \in Seq(Frame)
      /\ Len(frames') = n - 1
      /\ \A i \in 1 .. Len(frames') : frames'[i] = frames[i]
  <2>1. frames' = SubSeq(frames, 1, Len(frames) - 1) /\ frames \in Seq(Frame)
    BY <1>2 DEF Leave, TypeOK
  <2>2. /\ frames' \in Seq(Frame)
        /\ Len(frames') = Len(frames) - 1
        /\ \A i \in 1 .. Len(frames) - 1 : frames'[i] = frames[i]
    BY <1>1, <2>1, FrontSeq
  <2> QED
    BY <2>2
<1>4. /\ frames[n].base \in Nat /\ frames[n].size \in Nat
      /\ frames[n].chunk = current
      /\ frames[n].base + frames[n].size = chunk[current].cursor
  BY <1>1, <1>2, FrameShape DEF Packed, LastFrame, End
<1>5. chunk[current] \in Chunk
  BY <1>2 DEF TypeOK
<1>6. /\ rec.remains = chunk[current].remains + frames[n].size
      /\ rec.capacity = chunk[current].capacity
      /\ rec.cursor = frames[n].base
      /\ rec \in Chunk
  <2>1. /\ chunk[current].remains \in Nat /\ chunk[current].capacity \in Nat
        /\ chunk[current].cursor \in Nat
    BY <1>5 DEF Chunk
  <2> HIDE DEF n
  <2>2. chunk[current].cursor - frames[n].size = frames[n].base
    BY <1>4, <2>1
  <2>3. rec = [remains  |-> chunk[current].remains + frames[n].size,
               capacity |-> chunk[current].capacity,
               cursor   |-> frames[n].base]
    BY <2>2 DEF Popped, TopFrame, n
  <2>4. chunk[current].remains + frames[n].size \in Nat
    BY <1>4, <2>1
  <2> QED
    BY <1>4, <2>1, <2>3, <2>4 DEF Chunk
<1>7. chunk' = [chunk EXCEPT ![current] = rec]
  BY DEF Leave
<1>8. /\ chunk' \in [ChunkId -> Chunk]
      /\ chunk'[current] = rec
      /\ \A d \in ChunkId : d # current => chunk'[d] = chunk[d]
  <2> HIDE DEF rec
  <2> QED
    BY <1>2, <1>6, <1>7 DEF TypeOK
<1>9. rec.remains \in Nat /\ chunk[current].capacity \in Nat
  BY <1>5, <1>6 DEF Chunk
<1>10. frames[n].base + rec.remains = chunk[current].cursor + chunk[current].remains
  BY <1>4, <1>5, <1>6, SMTT(30) DEF Chunk
<1> QED
  BY <1>1, <1>2, <1>3, <1>4, <1>6, <1>8, <1>9, <1>10

(* A frame of the current chunk under the innermost one keeps the cursor   *)
(* off the start of the chunk.                                             *)
LEMMA UnderTop ==
  ASSUME IInv, Leave, NEW i \in 1 .. Len(frames) - 1, frames[i].chunk = current
  PROVE  End(i) <= frames[Len(frames)].base /\ End(i) > 0
<1>1. alive /\ Len(frames) \in Nat \ {0} /\ frames[Len(frames)].chunk = current
  BY Leaving
<1>2. Disjoint /\ i \in 1 .. Len(frames) /\ Len(frames) \in 1 .. Len(frames)
  BY <1>1, Shape
<1>3. End(i) <= frames[Len(frames)].base
  BY <1>1, <1>2 DEF Disjoint
<1>4. End(i) > 0
  BY <1>1, <1>2, StackAssumption, FrameShape DEF End
<1> QED
  BY <1>3, <1>4

LEMMA PopInPlaceIInv ==
  ASSUME IInv, PopInPlace
  PROVE  IInv'
<1> USE StackAssumption
<1> DEFINE n == Len(frames)
<1>1. /\ Leave /\ chain' = chain /\ reserve' = reserve /\ heap' = heap
      /\ Popped(TopFrame.size).remains # chunk[current].capacity
  BY DEF PopInPlace
<1>2. alive /\ alive' = alive /\ n \in Nat \ {0} /\ mem' = mem
  BY <1>1, Leaving
<1>3. /\ frames' \in Seq(Frame)
      /\ Len(frames') = n - 1
      /\ \A i \in 1 .. Len(frames') : frames'[i] = frames[i]
      /\ frames[n].chunk = current /\ frames[n].base \in Nat
  BY <1>1, Leaving
<1>4. /\ chunk' \in [ChunkId -> Chunk]
      /\ chunk'[current].cursor = frames[n].base
      /\ chunk'[current].remains \in Nat
      /\ chunk'[current].capacity = chunk[current].capacity
      /\ chunk[current].capacity \in Nat
      /\ chunk'[current].remains # chunk[current].capacity
      /\ frames[n].base + chunk'[current].remains
           = chunk[current].cursor + chunk[current].remains
      /\ \A d \in ChunkId : d # current => chunk'[d] = chunk[d]
  BY <1>1, Leaving
<1>5. TypeOK /\ ChunksOK /\ Packed /\ Disjoint /\ \A i \in 1 .. Len(frames) : Placed(i)
  BY <1>2, Shape
<1>6. Len(chain) \in Nat \ {0} /\ current = chain[Len(chain)] /\ current \in ChunkId
  BY <1>2, Shape
<1>k. ASSUME NEW k \in 1 .. Len(chain), k # Len(chain)
      PROVE  chunk'[chain[k]] = chunk[chain[k]] /\ chain[k] # current
  BY <1>2, <1>4, <1>k, ChunkShape
<1>z. Len(chain) > 1 => frames[n].base > 0
  <2>1. Accounted(Len(chain))
    BY <1>2, <1>6, ChunkShape
  <2> QED
    BY <1>3, <1>4, <1>6, <2>1 DEF Accounted
<1>7. TypeOK'
  BY <1>1, <1>2, <1>3, <1>4, <1>5 DEF TypeOK
<1>8. ChunksOK'
  <2>1. NoChunkLost'
    BY <1>1, <1>2, <1>5 DEF ChunksOK, NoChunkLost, Linked
  <2>2. ASSUME NEW i \in 1 .. Len(chain)
        PROVE  Accounted(i)'
    <3>0. Accounted(i)
      BY <1>2, ChunkShape
    <3>1. CASE i = Len(chain)
      <4>1. chunk'[chain'[i]] = chunk'[current] /\ chunk[chain[i]] = chunk[current]
        BY <1>1, <1>6, <3>1
      <4> QED
        BY <1>3, <1>4, <1>z, <3>0, <3>1, <4>1 DEF Accounted
    <3>2. CASE i # Len(chain)
      BY <1>1, <1>k, <3>0, <3>2 DEF Accounted
    <3> QED
      BY <3>1, <3>2
  <2>3. SpareOK'
    <3>1. reserve # current
      BY <1>2, <1>6, ChunkShape
    <3> QED
      BY <1>1, <1>4, <1>5, <3>1 DEF ChunksOK, SpareOK, TypeOK
  <2> QED
    BY <1>1, <1>5, <2>1, <2>2, <2>3 DEF ChunksOK
<1>9. Packed'
  <2>1. CASE n = 1
    <3>1. FirstFrame
      BY <1>2, <1>5, <2>1 DEF Packed, TypeOK
    <3>2. Len(chain) = 1
      <4>1. frames[n].base = 0
        BY <2>1, <3>1 DEF FirstFrame
      <4> DEFINE m == Len(chain)
      <4>2. m \in Nat \ {0} /\ ~ (m > 1)
        BY <1>6, <1>z, <4>1
      <4> HIDE DEF m
      <4>3. m = 1
        BY <4>2
      <4> QED
        BY <4>3 DEF m
    <3>3. frames' = << >> /\ current' = current /\ chunk'[current].cursor = 0
      BY <1>1, <1>3, <1>4, <2>1, <3>1 DEF FirstFrame, current
    <3> QED
      BY <1>1, <1>3, <2>1, <3>2, <3>3 DEF Packed
  <2>2. CASE n > 1
    <3>1. frames' # << >> /\ Len(frames') = n - 1 /\ n - 1 \in 1 .. n - 1
      BY <1>2, <1>3, <2>2
    <3>2. FirstFrame'
      <4>1. FirstFrame /\ frames'[1] = frames[1]
        BY <1>2, <1>3, <1>5, <2>2 DEF Packed, TypeOK
      <4>2. Len(chain) > 1 => chunk'[chain[1]] = chunk[chain[1]]
        BY <1>6, <1>k
      <4> QED
        BY <1>1, <4>1, <4>2 DEF FirstFrame
    <3>3. frames[n - 1].chunk = current /\ frames[n].base = End(n - 1)
      <4>1. Follows(n - 1, n)
        BY <1>2, <1>5, <3>1 DEF Packed
      <4>2. ASSUME NEW k \in 1 .. Len(chain) - 1, frames[n].base = 0 PROVE FALSE
        BY <1>3, <1>6, <1>z, <4>2
      <4> QED
        BY <1>3, <4>1, <4>2 DEF Follows
    <3>4. LastFrame'
      <4>1. frames'[n - 1] = frames[n - 1] /\ current' = current
        BY <1>1, <1>3, <3>1 DEF current
      <4> QED
        BY <1>4, <3>1, <3>3, <4>1 DEF LastFrame, End
    <3>5. ASSUME NEW i \in 1 .. Len(frames') - 1
          PROVE  Follows(i, i + 1)'
      <4>1. Follows(i, i + 1) /\ frames'[i] = frames[i] /\ frames'[i + 1] = frames[i + 1]
        BY <1>2, <1>3, <1>5 DEF Packed
      <4>2. ASSUME NEW k \in 1 .. Len(chain) - 1
            PROVE  chunk'[chain[k]] = chunk[chain[k]]
        BY <1>6, <1>k
      <4> QED
        BY <1>1, <4>1, <4>2 DEF Follows, End
    <3> QED
      BY <3>1, <3>2, <3>4, <3>5 DEF Packed
  <2> HIDE DEF n
  <2> QED
    BY <1>2, <2>1, <2>2
<1>10. Disjoint'
  <2>1. ASSUME NEW i \in 1 .. Len(frames'), NEW j \in 1 .. Len(frames'),
               i < j, frames'[i].chunk = frames'[j].chunk
        PROVE  End(i)' <= frames'[j].base
    <3>1. i \in 1 .. n /\ j \in 1 .. n
      BY <1>2, <1>3
    <3>2. frames'[i] = frames[i] /\ frames'[j] = frames[j]
      BY <1>3
    <3>3. End(i)' = End(i)
      BY <3>2 DEF End
    <3> QED
      BY <1>5, <2>1, <3>1, <3>2, <3>3 DEF Disjoint
  <2> QED
    BY <2>1 DEF Disjoint
<1>11. ASSUME NEW i \in 1 .. Len(frames')
       PROVE  Placed(i)'
  <2>0. i \in 1 .. n - 1 /\ i \in 1 .. n /\ frames'[i] = frames[i]
    BY <1>2, <1>3
  <2>1. PICK k \in 1 .. Len(chain) :
          frames[i].chunk = chain[k] /\ End(i) <= chunk[chain[k]].cursor
    BY <1>5, <2>0 DEF Placed
  <2>2. CASE k = Len(chain)
    <3>1. End(i) <= chunk'[chain[k]].cursor
      BY <1>1, <1>4, <1>6, <2>0, <2>1, <2>2, UnderTop
    <3> QED
      BY <1>1, <2>0, <2>1, <3>1 DEF Placed, End
  <2>3. CASE k # Len(chain)
    BY <1>1, <1>k, <2>0, <2>1, <2>3 DEF Placed, End
  <2> QED
    BY <2>2, <2>3
<1> QED
  BY <1>1, <1>2, <1>7, <1>8, <1>9, <1>10, <1>11 DEF IInv
-----------------------------------------------------------------------------

(* The two pops that empty the current chunk: the previous one becomes     *)
(* current, and it ends with the frame that is now the innermost.          *)
LEMMA CloseChunkIInv ==
  ASSUME IInv, Leave,
         Popped(TopFrame.size).remains = chunk[current].capacity,
         chain' = SubSeq(chain, 1, Len(chain) - 1),
         reserve' = reserve \/ reserve' = current,
         heap' \subseteq ChunkId,
         heap' = (Linked \ {current}) \cup ({reserve'} \ {NoChunk})
  PROVE  IInv'
<1> USE StackAssumption
<1> DEFINE n == Len(frames)
           m == Len(chain)
<1>2. alive /\ alive' = alive /\ n \in Nat \ {0} /\ mem' = mem
  BY Leaving
<1>3. /\ frames' \in Seq(Frame)
      /\ Len(frames') = n - 1
      /\ \A i \in 1 .. Len(frames') : frames'[i] = frames[i]
      /\ frames[n].chunk = current /\ frames[n].base \in Nat
  BY Leaving
<1>4. /\ chunk' \in [ChunkId -> Chunk]
      /\ chunk'[current].cursor = frames[n].base
      /\ chunk'[current].remains = chunk[current].capacity
      /\ chunk'[current].capacity = chunk[current].capacity
      /\ chunk[current].capacity \in Nat
      /\ frames[n].base + chunk[current].capacity
           = chunk[current].cursor + chunk[current].remains
      /\ \A d \in ChunkId : d # current => chunk'[d] = chunk[d]
  BY Leaving
<1>5. TypeOK /\ ChunksOK /\ Packed /\ Disjoint /\ \A i \in 1 .. Len(frames) : Placed(i)
  BY <1>2, Shape
<1>6. m \in Nat \ {0} /\ current = chain[m] /\ current \in ChunkId
  BY <1>2, Shape
<1>k. ASSUME NEW k \in 1 .. m, k # m
      PROVE  chunk'[chain[k]] = chunk[chain[k]] /\ chain[k] # current
  BY <1>2, <1>4, <1>k, ChunkShape
<1>z. m > 1 /\ frames[n].base = 0
  <2>1. Accounted(m)
    BY <1>2, <1>6, ChunkShape
  <2>2. chunk[current].cursor + chunk[current].remains
          = chunk[current].capacity - (IF m = 1 THEN 1 ELSE 0)
    BY <1>6, <2>1 DEF Accounted
  <2>3. /\ frames[n].base \in Nat /\ chunk[current].capacity \in Nat
        /\ frames[n].base + chunk[current].capacity
             = chunk[current].capacity - (IF m = 1 THEN 1 ELSE 0)
    BY <1>3, <1>4, <2>2
  <2>4. m # 1 /\ frames[n].base = 0
    <3> HIDE DEF m, n
    <3> QED
      BY <2>3
  <2>5. m > 1
    <3> HIDE DEF m
    <3> QED
      BY <1>6, <2>4
  <2> QED
    BY <2>4, <2>5
<1>p. /\ chain' \in Seq(ChunkId)
      /\ Len(chain') = m - 1
      /\ \A k \in 1 .. m - 1 : chain'[k] = chain[k]
  <2>1. chain \in Seq(ChunkId) /\ chain # << >>
    BY <1>5 DEF TypeOK, ChunksOK
  <2>2. chain' = SubSeq(chain, 1, Len(chain) - 1)
    OBVIOUS
  <2>3. /\ chain' \in Seq(ChunkId)
        /\ Len(chain') = Len(chain) - 1
        /\ \A k \in 1 .. Len(chain) - 1 : chain'[k] = chain[k]
    BY ONLY <2>1, <2>2, FrontSeq
  <2> QED
    BY <2>3
<1>u. ASSUME NEW i \in 1 .. n - 1
      PROVE  frames[i].chunk # current /\ i \in 1 .. n
  <2>1. i \in 1 .. n
    BY <1>2
  <2>2. ASSUME frames[i].chunk = current PROVE FALSE
    <3>1. End(i) <= 0 /\ End(i) > 0
      BY <1>z, <2>2, UnderTop
    <3>2. End(i) \in Nat
      BY <1>2, <2>1, FrameShape
    <3> QED
      BY <3>1, <3>2
  <2> QED
    BY <2>1, <2>2
<1>7. TypeOK'
  BY <1>2, <1>3, <1>4, <1>5, <1>6, <1>p DEF TypeOK
<1>8. ChunksOK'
  <2>1. Linked' = Linked \ {current}
    <3>1. ASSUME NEW d \in Linked' PROVE d \in Linked \ {current}
      <4>1. PICK k \in 1 .. Len(chain') : d = chain'[k]
        BY DEF Linked
      <4>2. k \in 1 .. m /\ k # m /\ d = chain[k]
        BY <1>6, <1>p, <4>1
      <4> QED
        BY <1>k, <4>2 DEF Linked
    <3>2. ASSUME NEW d \in Linked \ {current} PROVE d \in Linked'
      <4>1. PICK k \in 1 .. m : d = chain[k]
        BY DEF Linked
      <4>2. k \in 1 .. Len(chain') /\ d = chain'[k]
        BY <1>6, <1>p, <3>2, <4>1
      <4> QED
        BY <4>2 DEF Linked
    <3> QED
      BY <3>1, <3>2
  <2>2. \A i, j \in 1 .. Len(chain') : chain'[i] = chain'[j] => i = j
    <3>1. \A p, q \in 1 .. m : chain[p] = chain[q] => p = q
      BY <1>2, <1>5 DEF ChunksOK, NoChunkLost
    <3> QED
      BY <1>6, <1>p, <3>1
  <2>3. reserve' \notin Linked'
    BY <1>2, <1>5, <2>1 DEF ChunksOK, NoChunkLost
  <2>4. NoChunkLost'
    BY <1>2, <2>1, <2>2, <2>3 DEF NoChunkLost
  <2>5. ASSUME NEW i \in 1 .. Len(chain')
        PROVE  Accounted(i)'
    <3>1. i \in 1 .. m /\ i # m /\ chain'[i] = chain[i]
      BY <1>6, <1>p
    <3>2. Accounted(i)
      BY <1>2, <3>1, ChunkShape
    <3> QED
      BY <1>k, <3>1, <3>2 DEF Accounted
  <2>6. SpareOK'
    <3>1. CASE reserve' = current
      <4>1. Accounted(m)
        BY <1>2, <1>6, ChunkShape
      <4> QED
        BY <1>4, <1>6, <3>1, <4>1 DEF SpareOK, Accounted
    <3>2. CASE reserve' = reserve
      <4>1. reserve # current
        BY <1>2, <1>6, ChunkShape
      <4> QED
        BY <1>4, <1>5, <3>2, <4>1 DEF ChunksOK, SpareOK, TypeOK
    <3> QED
      BY <3>1, <3>2
  <2>7. chain' # << >>
    <3>1. Len(chain') > 0
      <4> HIDE DEF m
      <4> QED
        BY <1>6, <1>p, <1>z
    <3> QED
      BY <3>1, SMTT(30)
  <2> QED
    BY <2>4, <2>5, <2>6, <2>7 DEF ChunksOK
<1>c. current' = chain[m - 1] /\ m - 1 \in 1 .. m /\ m - 1 # m
  BY <1>6, <1>p, <1>z DEF current
<1>9. Packed'
  <2>1. CASE n = 1
    <3>1. FirstFrame
      BY <1>2, <1>5, <2>1 DEF Packed, TypeOK
    <3>2. frames[1].chunk # chain[1]
      BY <1>3, <1>6, <1>k, <1>z, <2>1
    <3>3. chain[2] = current /\ chunk[chain[1]].cursor = 0
      BY <1>3, <2>1, <3>1, <3>2 DEF FirstFrame
    <3>4. m = 2
      <4>1. 2 \in 1 .. m
        BY <1>6, <1>z
      <4>2. ~ (2 # m)
        BY <1>k, <3>3, <4>1
      <4> QED
        BY <4>2
    <3>5. chunk'[current'].cursor = 0
      BY <1>c, <1>k, <3>3, <3>4
    <3>6. Len(chain') = 1
      BY <1>p, <3>4
    <3>7. frames' = << >>
      BY <1>3, <2>1
    <3> QED
      BY <1>3, <2>1, <3>5, <3>6, <3>7 DEF Packed
  <2>2. CASE n > 1
    <3>1. frames' # << >> /\ Len(frames') = n - 1 /\ n - 1 \in 1 .. n - 1
      BY <1>2, <1>3, <2>2
    <3>2. FirstFrame'
      <4>1. FirstFrame /\ frames'[1] = frames[1] /\ frames[1].chunk # current
        BY <1>2, <1>3, <1>5, <1>u, <2>2 DEF Packed, TypeOK
      <4>2. chain'[1] = chain[1] /\ chunk'[chain[1]] = chunk[chain[1]]
        BY <1>6, <1>k, <1>p, <1>z
      <4>3. ASSUME frames[1].chunk = chain[2]
            PROVE  Len(chain') > 1 /\ chain'[2] = chain[2]
        BY <1>6, <1>p, <1>z, <4>1, <4>3
      <4> QED
        BY <4>1, <4>2, <4>3 DEF FirstFrame
    <3>3. LastFrame'
      <4>1. Follows(n - 1, n) /\ frames[n - 1].chunk # current
        BY <1>2, <1>5, <1>u, <3>1 DEF Packed
      <4>2. PICK k \in 1 .. m - 1 :
              /\ frames[n - 1].chunk = chain[k]
              /\ current = chain[k + 1]
              /\ End(n - 1) = chunk[chain[k]].cursor
        BY <1>3, <4>1 DEF Follows
      <4>3. k = m - 1
        BY <1>6, <1>k, <4>2
      <4>4. frames'[n - 1] = frames[n - 1] /\ chunk'[current'] = chunk[chain[k]]
        BY <1>3, <1>c, <1>k, <3>1, <4>3
      <4> QED
        BY <1>c, <3>1, <4>2, <4>3, <4>4 DEF LastFrame, End
    <3>4. ASSUME NEW i \in 1 .. Len(frames') - 1
          PROVE  Follows(i, i + 1)'
      <4>1. /\ Follows(i, i + 1)
            /\ frames'[i] = frames[i] /\ frames'[i + 1] = frames[i + 1]
            /\ frames[i + 1].chunk # current
        <5>1. /\ i \in 1 .. n - 1 /\ i + 1 \in 1 .. n - 1
              /\ i \in 1 .. Len(frames') /\ i + 1 \in 1 .. Len(frames')
          BY <1>2, <1>3
        <5>2. Follows(i, i + 1)
          BY <1>5, <5>1 DEF Packed
        <5> QED
          BY <1>3, <1>u, <5>1, <5>2
      <4>2. ASSUME NEW k \in 1 .. m - 1, frames[i + 1].chunk = chain[k + 1]
            PROVE  /\ k \in 1 .. Len(chain') - 1
                   /\ chain'[k] = chain[k] /\ chain'[k + 1] = chain[k + 1]
                   /\ chunk'[chain'[k]] = chunk[chain[k]]
        <5>1. k + 1 # m
          BY <1>6, <4>1, <4>2
        <5>2. k \in 1 .. m /\ k # m /\ k + 1 \in 1 .. m - 1 /\ k \in 1 .. Len(chain') - 1
          BY <1>6, <1>p, <5>1
        <5>3. chain'[k] = chain[k] /\ chain'[k + 1] = chain[k + 1]
          BY <1>p, <5>2
        <5>4. chunk'[chain[k]] = chunk[chain[k]]
          BY <1>k, <5>2
        <5> QED
          BY <5>2, <5>3, <5>4
      <4> QED
        BY <4>1, <4>2 DEF Follows, End
    <3> QED
      BY <3>1, <3>2, <3>3, <3>4 DEF Packed
  <2> HIDE DEF n
  <2> QED
    BY <1>2, <2>1, <2>2
<1>10. Disjoint'
  <2>1. ASSUME NEW i \in 1 .. Len(frames'), NEW j \in 1 .. Len(frames'),
               i < j, frames'[i].chunk = frames'[j].chunk
        PROVE  End(i)' <= frames'[j].base
    <3>1. i \in 1 .. n /\ j \in 1 .. n
      BY <1>2, <1>3
    <3>2. frames'[i] = frames[i] /\ frames'[j] = frames[j]
      BY <1>3
    <3>3. End(i)' = End(i)
      BY <3>2 DEF End
    <3> QED
      BY <1>5, <2>1, <3>1, <3>2, <3>3 DEF Disjoint
  <2> QED
    BY <2>1 DEF Disjoint
<1>11. ASSUME NEW i \in 1 .. Len(frames')
       PROVE  Placed(i)'
  <2>0. i \in 1 .. n - 1 /\ i \in 1 .. n /\ frames'[i] = frames[i]
    BY <1>2, <1>3
  <2>1. PICK k \in 1 .. m :
          frames[i].chunk = chain[k] /\ End(i) <= chunk[chain[k]].cursor
    BY <1>5, <2>0 DEF Placed
  <2>2. k # m /\ k \in 1 .. Len(chain') /\ chain'[k] = chain[k]
    BY <1>6, <1>p, <1>u, <2>0, <2>1
  <2> QED
    BY <1>k, <2>0, <2>1, <2>2 DEF Placed, End
<1> QED
  BY <1>2, <1>7, <1>8, <1>9, <1>10, <1>11 DEF IInv

LEMMA PopToReserveIInv ==
  ASSUME IInv, PopToReserve
  PROVE  IInv'
<1>1. alive /\ TypeOK /\ ChunksOK
  BY Shape DEF PopToReserve, Leave
<1>2. current \in ChunkId /\ current \in Linked
  BY <1>1, Shape, ChunkShape DEF Linked
<1>3. Leave /\ reserve = NoChunk /\ reserve' = current /\ heap' = heap
  BY DEF PopToReserve
<1>4. heap' = (Linked \ {current}) \cup ({reserve'} \ {NoChunk})
  BY <1>1, <1>2, <1>3, StackAssumption DEF ChunksOK, NoChunkLost
<1>5. heap' \subseteq ChunkId
  BY <1>1, <1>3 DEF TypeOK
<1> QED
  BY <1>3, <1>4, <1>5, CloseChunkIInv DEF PopToReserve

LEMMA PopAndFreeIInv ==
  ASSUME IInv, PopAndFree
  PROVE  IInv'
<1>1. alive /\ TypeOK /\ ChunksOK
  BY Shape DEF PopAndFree, Leave
<1>2. current \in ChunkId /\ current \in Linked
  BY <1>1, Shape, ChunkShape DEF Linked
<1>3. Leave /\ reserve' = reserve /\ heap' = heap \ {current}
  BY DEF PopAndFree
<1>4. heap' = (Linked \ {current}) \cup ({reserve'} \ {NoChunk})
  BY <1>1, <1>2, <1>3, StackAssumption DEF ChunksOK, NoChunkLost
<1>5. heap' \subseteq ChunkId
  BY <1>1, <1>3 DEF TypeOK
<1> QED
  BY <1>3, <1>4, <1>5, CloseChunkIInv DEF PopAndFree

-----------------------------------------------------------------------------
LEMMA WriteIInv ==
  ASSUME IInv, NEW r \in 0 .. MaxCount - 1, NEW v \in Value, Write(r, v)
  PROVE  IInv'
<1>1. TypeOK /\ TypeOK'
  BY DEF IInv, TypeOK, Write
<1> QED
  BY <1>1 DEF IInv, Write, ChunksOK, NoChunkLost, Linked, Accounted, SpareOK,
              Packed, FirstFrame, LastFrame, Follows, End, current, Disjoint, Placed

LEMMA DestroyIInv ==
  ASSUME IInv, Destroy
  PROVE  IInv'
<1>1. alive /\ alive' = FALSE /\ frames' = << >>
  BY DEF Destroy
<1>2. TypeOK /\ heap = Linked \cup ({reserve} \ {NoChunk})
  BY <1>1, Shape DEF ChunksOK, NoChunkLost
<1>3. heap' = {}
  BY <1>2 DEF Destroy
<1>4. TypeOK'
  <2>1. chain' = chain /\ chunk' = chunk /\ reserve' = reserve /\ mem' = mem
    BY DEF Destroy
  <2>2. /\ chain' \in Seq(ChunkId) /\ chunk' \in [ChunkId -> Chunk]
        /\ reserve' \in ChunkId \cup {NoChunk}
        /\ mem' \in [ChunkId -> [Words -> Value]]
    BY <1>2, <2>1 DEF TypeOK
  <2>3. frames' \in Seq(Frame)
    BY <1>1
  <2> QED
    BY <1>1, <1>3, <2>2, <2>3 DEF TypeOK
<1> QED
  BY <1>1, <1>3, <1>4 DEF IInv

LEMMA StepIInv == IInv /\ [Next]_vars => IInv'
<1> SUFFICES ASSUME IInv, [Next]_vars PROVE IInv'
  OBVIOUS
<1>1. CASE UNCHANGED vars
  BY <1>1 DEF IInv, TypeOK, vars, ChunksOK, NoChunkLost, Linked, Accounted, SpareOK,
              Packed, FirstFrame, LastFrame, Follows, End, current, Disjoint, Placed
<1>2. ASSUME NEW count \in 1 .. MaxCount, PushInPlace(count) PROVE IInv'
  BY <1>2, PushInPlaceIInv
<1>3. ASSUME NEW count \in 1 .. MaxCount, PushInReserve(count) PROVE IInv'
  BY <1>3, PushInReserveIInv
<1>4. ASSUME NEW count \in 1 .. MaxCount, PushInNewChunk(count) PROVE IInv'
  BY <1>4, PushInNewChunkIInv
<1>5. CASE PopInPlace
  BY <1>5, PopInPlaceIInv
<1>6. CASE PopToReserve
  BY <1>6, PopToReserveIInv
<1>7. CASE PopAndFree
  BY <1>7, PopAndFreeIInv
<1>8. ASSUME NEW r \in 0 .. MaxCount - 1, NEW v \in Value, Write(r, v) PROVE IInv'
  BY <1>8, WriteIInv
<1>9. CASE Destroy
  BY <1>9, DestroyIInv
<1> QED
  BY <1>1, <1>2, <1>3, <1>4, <1>5, <1>6, <1>7, <1>8, <1>9 DEF Next
-----------------------------------------------------------------------------

(* The chunks in use, the reserve and what malloc gave out always agree,   *)
(* and `current' is never null: stack.cpp needs no test on it.             *)
THEOREM ChunkSafety == Spec => [](TypeOK /\ NoChunkLost /\ CurrentExists /\ CursorInBounds)
<1>1. IInv => TypeOK /\ NoChunkLost /\ CurrentExists /\ CursorInBounds
  <2> SUFFICES ASSUME IInv
               PROVE  TypeOK /\ NoChunkLost /\ CurrentExists /\ CursorInBounds
    OBVIOUS
  <2>1. TypeOK /\ NoChunkLost /\ CurrentExists
    BY DEF IInv, ChunksOK, NoChunkLost, CurrentExists
  <2>2. ASSUME alive PROVE CursorInBounds
    <3>1. ASSUME NEW i \in 1 .. Len(chain)
          PROVE  /\ chunk[chain[i]].cursor >= 0
                 /\ chunk[chain[i]].cursor + chunk[chain[i]].remains
                      = chunk[chain[i]].capacity - (IF i = 1 THEN 1 ELSE 0)
      BY <2>2, ChunkShape DEF Accounted
    <3>2. SpareOK
      BY <2>2, Shape DEF ChunksOK
    <3> QED
      BY <3>1, <3>2 DEF CursorInBounds, SpareOK
  <2> QED
    BY <2>1, <2>2 DEF CursorInBounds
<1> QED
  BY <1>1, InitIInv, StepIInv, PTL DEF Spec

(* The registers a caller holds stay inside a chunk of the chain, below    *)
(* its cursor: no push hands them out again and no popChunk frees them.    *)
THEOREM FramesSafety == Spec => []FramesInChain
<1>1. IInv => FramesInChain
  <2> SUFFICES ASSUME IInv, NEW i \in 1 .. Len(frames)
               PROVE  \E k \in 1 .. Len(chain) :
                        /\ frames[i].chunk = chain[k]
                        /\ frames[i].base + frames[i].size <= chunk[chain[k]].cursor
    BY DEF FramesInChain
  <2>1. Placed(i)
    BY DEF IInv
  <2> QED
    BY <2>1 DEF Placed, End
<1> QED
  BY <1>1, InitIInv, StepIInv, PTL DEF Spec

-----------------------------------------------------------------------------
(* The pile of frames the callers see, and how each step changes it.       *)
Content(i) == [r \in 0 .. frames[i].size - 1 |-> mem[frames[i].chunk][frames[i].base + r]]

Registers == UNION {[0 .. count - 1 -> Value] : count \in 1 .. MaxCount}

LEMMA EndInWords ==
  ASSUME IInv, alive, NEW i \in 1 .. Len(frames)
  PROVE  End(i) \in Nat /\ End(i) <= blockmax + blockSizeWanted + MaxCount
<1> USE StackAssumption
<1>1. PICK k \in 1 .. Len(chain) :
        frames[i].chunk = chain[k] /\ End(i) <= chunk[chain[k]].cursor
  <2>1. Placed(i)
    BY Shape
  <2> QED
    BY <2>1 DEF Placed
<1>2. /\ chunk[chain[k]].cursor \in Nat /\ chunk[chain[k]].remains \in Nat
      /\ chunk[chain[k]].capacity \in Nat /\ Accounted(k)
  BY ChunkShape
<1>3. chunk[chain[k]].cursor + chunk[chain[k]].remains
        = chunk[chain[k]].capacity - (IF k = 1 THEN 1 ELSE 0)
  BY <1>2 DEF Accounted
<1>4. chunk[chain[k]].capacity <= blockmax + blockSizeWanted + MaxCount
  BY <1>2 DEF Accounted, Words
<1>5. chunk[chain[k]].cursor <= chunk[chain[k]].capacity
  BY <1>2, <1>3
<1>6. End(i) \in Nat
  BY FrameShape
<1> QED
  BY <1>1, <1>2, <1>4, <1>5, <1>6

LEMMA InWords ==
  ASSUME IInv, alive, NEW i \in 1 .. Len(frames), NEW r \in 0 .. frames[i].size - 1
  PROVE  frames[i].base + r \in Words /\ frames[i].base + r < End(i)
<1>1. frames[i].base \in Nat /\ frames[i].size \in Nat
  BY FrameShape
<1>2. End(i) \in Nat /\ End(i) <= blockmax + blockSizeWanted + MaxCount
  BY EndInWords
<1>3. frames[i].base + r \in Nat /\ frames[i].base + r < End(i)
  BY <1>1, SMTT(30) DEF End
<1>4. frames[i].base + r <= blockmax + blockSizeWanted + MaxCount
  BY <1>2, <1>3, StackAssumption
<1> QED
  BY <1>3, <1>4, StackAssumption DEF Words

PileOK ==
  /\ Pile \in Seq(Registers)
  /\ Len(Pile) = Len(frames)
  /\ Len(frames) \in Nat
  /\ \A i \in 1 .. Len(frames) : Pile[i] = Content(i) /\ Content(i) \in Registers

LEMMA PileShape == IInv => PileOK
<1> SUFFICES ASSUME IInv PROVE PileOK
  OBVIOUS
<1>1. Len(frames) \in Nat
  BY DEF IInv, TypeOK
<1>2. ASSUME NEW i \in 1 .. Len(frames)
      PROVE  Content(i) \in Registers
  <2>1. alive /\ TypeOK
    BY <1>1 DEF IInv
  <2>2. frames[i].chunk \in ChunkId /\ frames[i].size \in 1 .. MaxCount
    BY <2>1, FrameShape
  <2>3. ASSUME NEW r \in 0 .. frames[i].size - 1
        PROVE  mem[frames[i].chunk][frames[i].base + r] \in Value
    BY <2>1, <2>2, InWords DEF TypeOK
  <2>4. Content(i) \in [0 .. frames[i].size - 1 -> Value]
    BY <2>3 DEF Content
  <2> QED
    BY <2>2, <2>4 DEF Registers
<1>3. Pile = [i \in 1 .. Len(frames) |-> Content(i)]
  BY DEF Pile, Content
<1>4. Pile \in [1 .. Len(frames) -> Registers]
  BY <1>2, <1>3
<1>5. Pile \in Seq(Registers) /\ Len(Pile) = Len(frames)
  BY <1>1, <1>4
<1> QED
  BY <1>1, <1>2, <1>3, <1>5 DEF PileOK

LEMMA PileShapeNext == IInv' => PileOK'
BY PileShape, PTL

(* A push adds one frame and disturbs none: the registers it may overwrite *)
(* lie above the cursor of the chunk it enters.                            *)
LEMMA PushPile ==
  ASSUME IInv, IInv', alive, alive',
         NEW count \in 1 .. MaxCount, NEW c \in ChunkId, NEW st \in Chunk,
         Enter(c, st, count),
         \A i \in 1 .. Len(frames) : frames[i].chunk = c => End(i) <= st.cursor
  PROVE  \E frame \in [0 .. count - 1 -> Value] : Pile' = Append(Pile, frame)
<1> USE StackAssumption
<1>1. PileOK /\ PileOK'
  BY PileShape, PileShapeNext
<1>2. TypeOK
  BY DEF IInv
<1>n. PICK n \in Nat : n = Len(frames)
  BY <1>1 DEF PileOK
<1>3. /\ Len(frames') = n + 1 /\ n + 1 \in 1 .. n + 1
      /\ \A i \in 1 .. n : frames'[i] = frames[i]
      /\ frames'[n + 1].size = count
  <2>1. /\ Len(frames') = Len(frames) + 1
        /\ \A i \in 1 .. Len(frames) : frames'[i] = frames[i]
        /\ frames'[Len(frames')] = [chunk |-> c, base |-> st.cursor, size |-> count]
    BY <1>2, EnterFrames
  <2> QED
    BY <1>n, <2>1
<1>o. ASSUME NEW i \in 1 .. n
      PROVE  i \in 1 .. Len(frames) /\ Pile[i] = Content(i)
  BY <1>1, <1>n DEF PileOK
<1>p. ASSUME NEW i \in 1 .. n + 1
      PROVE  Pile'[i] = Content(i)' /\ Content(i)' \in Registers
  BY <1>1, <1>3 DEF PileOK
<1>q. Pile \in Seq(Registers) /\ Len(Pile) = n
  BY <1>1, <1>n DEF PileOK
<1>r. Pile' \in Seq(Registers) /\ Len(Pile') = n + 1
  BY <1>1, <1>3 DEF PileOK
<1>4. \A d \in ChunkId, w \in Words : d # c \/ w < st.cursor => mem'[d][w] = mem[d][w]
  BY <1>2, EnterMem
<1>5. ASSUME NEW i \in 1 .. n
      PROVE  Content(i)' = Content(i)
  <2>1. frames'[i] = frames[i] /\ i \in 1 .. Len(frames)
    BY <1>3, <1>o
  <2>2. ASSUME NEW r \in 0 .. frames[i].size - 1
        PROVE  mem'[frames[i].chunk][frames[i].base + r] = mem[frames[i].chunk][frames[i].base + r]
    <3>1. frames[i].chunk \in ChunkId /\ End(i) \in Nat
      BY <2>1, FrameShape
    <3>2. frames[i].base + r \in Words /\ frames[i].base + r < End(i)
      BY <2>1, InWords
    <3>3. frames[i].base + r \in Int /\ st.cursor \in Nat
      BY <3>2 DEF Words, Chunk
    <3>4. frames[i].chunk # c \/ frames[i].base + r < st.cursor
      BY <2>1, <3>1, <3>2, <3>3
    <3> QED
      BY <1>4, <3>1, <3>2, <3>4
  <2> QED
    BY <2>1, <2>2 DEF Content
<1>6. Content(n + 1)' \in [0 .. count - 1 -> Value]
  <2>1. Content(n + 1)' \in Registers
    BY <1>3, <1>p
  <2>2. PICK k \in 1 .. MaxCount : Content(n + 1)' \in [0 .. k - 1 -> Value]
    BY <2>1 DEF Registers
  <2>3. DOMAIN Content(n + 1)' = 0 .. count - 1
    BY <1>3 DEF Content
  <2> QED
    BY <2>2, <2>3
<1>7. Pile' = Append(Pile, Content(n + 1)')
  <2> DEFINE f == Content(n + 1)'
             t == Append(Pile, f)
  <2>1. f \in Registers
    BY <1>3, <1>p
  <2> HIDE DEF f
  <2>2. /\ t \in Seq(Registers) /\ Len(t) = n + 1
        /\ \A i \in 1 .. n : t[i] = Pile[i]
        /\ t[n + 1] = f
    BY <1>n, <1>q, <2>1
  <2>4. ASSUME NEW i \in 1 .. n + 1 PROVE Pile'[i] = t[i]
    <3>1. CASE i = n + 1
      <4>1. Pile'[n + 1] = Content(n + 1)'
        BY <1>3, <1>p
      <4> QED
        BY <2>2, <3>1, <4>1 DEF f
    <3>2. CASE i \in 1 .. n
      <4>1. Pile'[i] = Content(i)' /\ Pile[i] = Content(i)
        BY <1>o, <1>p, <3>2
      <4> QED
        BY <1>5, <2>2, <3>2, <4>1
    <3> QED
      BY <1>n, <3>1, <3>2, Extended
  <2> HIDE DEF t
  <2>5. Pile' = t
    BY <2>2, <1>r, <2>4, SeqEqual
  <2> QED
    BY <2>5 DEF f, t
<1> QED
  BY <1>6, <1>7

(* A pop drops the innermost frame and disturbs none.                      *)
LEMMA PopPile ==
  ASSUME IInv, IInv', Leave
  PROVE  Pile # << >> /\ Pile' = SubSeq(Pile, 1, Len(Pile) - 1)
<1> DEFINE n == Len(frames)
           t == SubSeq(Pile, 1, Len(Pile) - 1)
<1>1. PileOK /\ PileOK'
  BY PileShape, PileShapeNext
<1>2. /\ n \in Nat \ {0} /\ Len(frames') = n - 1 /\ mem' = mem
      /\ \A i \in 1 .. n - 1 : frames'[i] = frames[i]
  BY Leaving
<1>3. t \in Seq(Registers) /\ Len(t) = n - 1 /\ \A i \in 1 .. n - 1 : t[i] = Pile[i]
  BY <1>1, <1>2 DEF PileOK
<1>4. Pile' \in Seq(Registers) /\ Len(Pile') = n - 1
  BY <1>1, <1>2 DEF PileOK
<1>5. ASSUME NEW i \in 1 .. n - 1 PROVE Pile'[i] = t[i]
  <2>1. Content(i)' = Content(i)
    BY <1>2 DEF Content
  <2>2. Pile'[i] = Content(i)' /\ Pile[i] = Content(i)
    BY <1>1, <1>2 DEF PileOK
  <2> QED
    BY <1>3, <2>1, <2>2
<1> HIDE DEF t
<1>6. Pile' = t
  BY <1>3, <1>4, <1>5, SeqEqual
<1>7. Pile # << >>
  BY <1>1, <1>2 DEF PileOK
<1> QED
  BY <1>6, <1>7 DEF t

(* A write changes one register of the innermost frame and no other.       *)
LEMMA WritePile ==
  ASSUME IInv, IInv', NEW r \in 0 .. MaxCount - 1, NEW v \in Value, Write(r, v)
  PROVE  /\ Pile # << >>
         /\ r \in DOMAIN Pile[Len(Pile)]
         /\ Pile' = [Pile EXCEPT ![Len(Pile)][r] = v]
<1> USE StackAssumption
<1> DEFINE n == Len(frames)
           top == frames[n]
           t == [Pile EXCEPT ![Len(Pile)][r] = v]
<1>1. PileOK /\ PileOK' /\ alive /\ TypeOK
  BY PileShape, PileShapeNext DEF IInv, Write
<1>2. /\ n \in Nat \ {0} /\ n \in 1 .. n /\ frames' = frames
      /\ r \in 0 .. top.size - 1
      /\ mem' = [mem EXCEPT ![top.chunk][top.base + r] = v]
  <2>1. n \in Nat \ {0} /\ r < top.size /\ frames' = frames
    BY <1>1, Shape DEF Write, TopFrame
  <2>2. top.size \in Nat
    BY <1>1, <2>1, FrameShape
  <2> QED
    BY <2>1, <2>2 DEF Write, TopFrame
<1>3. Pile[n] = Content(n) /\ DOMAIN Content(n) = 0 .. top.size - 1 /\ Len(Pile) = n
  BY <1>1, <1>2 DEF PileOK, Content
<1>4. ASSUME NEW i \in 1 .. n, i # n PROVE Content(i)' = Content(i)
  <2>1. ASSUME NEW q \in 0 .. frames[i].size - 1
        PROVE  mem'[frames[i].chunk][frames[i].base + q] = mem[frames[i].chunk][frames[i].base + q]
    <3>1. frames[i].base + q \in Words /\ frames[i].base + q < End(i)
      BY <1>1, InWords
    <3>2. /\ frames[i].chunk \in ChunkId /\ End(i) \in Nat
          /\ top.chunk \in ChunkId /\ top.base \in Nat /\ frames[i].base \in Nat
      BY <1>1, <1>2, FrameShape
    <3>3. frames[i].chunk = top.chunk => End(i) <= top.base
      <4>1. Disjoint
        BY <1>1, Shape
      <4> QED
        BY <1>2, <1>4, <4>1, SMTT(30) DEF Disjoint
    <3>4. frames[i].chunk = top.chunk => frames[i].base + q # top.base + r
      BY <1>2, <3>1, <3>2, <3>3, SMTT(30)
    <3> QED
      BY <1>1, <1>2, <3>1, <3>2, <3>4 DEF TypeOK
  <2> QED
    BY <1>2, <2>1 DEF Content
<1>5. Content(n)' = [Content(n) EXCEPT ![r] = v]
  <2>1. top.chunk \in ChunkId /\ top.base \in Nat
    BY <1>1, <1>2, FrameShape
  <2>2. ASSUME NEW q \in 0 .. top.size - 1
        PROVE  mem'[top.chunk][top.base + q] = IF q = r THEN v ELSE mem[top.chunk][top.base + q]
    <3>1. top.base + q \in Words
      BY <1>1, <1>2, InWords
    <3>2. top.base + q = top.base + r <=> q = r
      BY <1>2, <2>1, SMTT(30)
    <3> QED
      BY <1>1, <1>2, <2>1, <3>1, <3>2 DEF TypeOK
  <2>3. Content(n)' = [q \in 0 .. top.size - 1 |-> mem'[top.chunk][top.base + q]]
    BY <1>2 DEF Content
  <2>4. [Content(n) EXCEPT ![r] = v]
          = [q \in 0 .. top.size - 1 |-> IF q = r THEN v ELSE mem[top.chunk][top.base + q]]
    BY <1>2 DEF Content
  <2> QED
    BY <2>2, <2>3, <2>4
<1>6. t = [Pile EXCEPT ![n] = [Content(n) EXCEPT ![r] = v]]
  BY <1>3
<1>7. Content(n)' \in Registers
  BY <1>1, <1>2 DEF PileOK
<1>8. /\ t \in Seq(Registers) /\ Len(t) = n
      /\ t[n] = Content(n)'
      /\ \A i \in 1 .. n : i # n => t[i] = Pile[i]
  <2> DEFINE f == Content(n)'
  <2>1. t = [Pile EXCEPT ![n] = f] /\ f \in Registers /\ Pile \in Seq(Registers)
    BY <1>1, <1>5, <1>6, <1>7 DEF PileOK
  <2> HIDE DEF t, f
  <2>2. /\ t \in Seq(Registers) /\ Len(t) = n
        /\ t[n] = f
        /\ \A i \in 1 .. n : i # n => t[i] = Pile[i]
    BY <1>2, <1>3, <2>1, ExceptSeq
  <2> QED
    BY <2>2 DEF f
<1>9. Pile' \in Seq(Registers) /\ Len(Pile') = n
  BY <1>1, <1>2 DEF PileOK
<1>10. ASSUME NEW i \in 1 .. n PROVE Pile'[i] = t[i]
  <2>1. Pile'[i] = Content(i)' /\ Pile[i] = Content(i)
    BY <1>1, <1>2 DEF PileOK
  <2> HIDE DEF t
  <2>2. CASE i = n
    <3>1. n' = n /\ frames' = frames
      BY <1>2
    <3>2. Content(i)' = Content(n)'
      BY <2>2, <3>1 DEF Content
    <3> QED
      BY <1>8, <2>1, <2>2, <3>2
  <2>3. CASE i # n
    BY <1>4, <1>8, <2>1, <2>3
  <2> QED
    BY <2>2, <2>3
<1> HIDE DEF t
<1>11. Pile' = t
  BY <1>8, <1>9, <1>10, SeqEqual
<1> QED
  BY <1>1, <1>2, <1>3, <1>11 DEF t, PileOK
-----------------------------------------------------------------------------

LEMMA StepPile == IInv /\ IInv' /\ [Next]_vars => [Frames!Next]_Pile
<1> SUFFICES ASSUME IInv, IInv', [Next]_vars
             PROVE  Frames!Next \/ Pile' = Pile
  OBVIOUS
<1> USE StackAssumption
<1>0. ASSUME NEW count \in 1 .. MaxCount,
             \E frame \in [0 .. count - 1 -> Value] : Pile' = Append(Pile, frame)
      PROVE  Frames!Next
  BY <1>0 DEF Frames!Next, Frames!Push, Frames!FrameOfSize
<1>1. CASE UNCHANGED vars
  BY <1>1 DEF vars, Pile
<1>2. ASSUME NEW count \in 1 .. MaxCount, PushInPlace(count) PROVE Frames!Next
  <2>1. alive /\ alive' /\ Enter(current, chunk[current], count)
    BY <1>2 DEF PushInPlace, CanPush
  <2>2. current \in ChunkId /\ chunk[current] \in Chunk
    BY <2>1, Shape DEF TypeOK
  <2>3. \A i \in 1 .. Len(frames) : frames[i].chunk = current => End(i) <= chunk[current].cursor
    BY <2>1, Shape DEF Placed
  <2> QED
    BY <1>0, <2>1, <2>2, <2>3, PushPile
<1>3. ASSUME NEW count \in 1 .. MaxCount, PushInReserve(count) PROVE Frames!Next
  <2> DEFINE st == [chunk[reserve] EXCEPT !.cursor = 0]
  <2>1. alive /\ alive' /\ reserve # NoChunk /\ Enter(reserve, st, count)
    BY <1>3 DEF PushInReserve, CanPush
  <2>2. reserve \in ChunkId /\ chunk[reserve] \in Chunk
    BY <2>1, Shape DEF TypeOK
  <2>3. st \in Chunk
    BY <2>2 DEF Chunk
  <2>4. \A i \in 1 .. Len(frames) : frames[i].chunk # reserve
    BY <2>1, Shape, ChunkShape DEF Placed
  <2> HIDE DEF st
  <2> QED
    BY <1>0, <2>1, <2>2, <2>3, <2>4, PushPile
<1>4. ASSUME NEW count \in 1 .. MaxCount, PushInNewChunk(count) PROVE Frames!Next
  <2>1. alive /\ alive'
    BY <1>4 DEF PushInNewChunk, CanPush
  <2>2. PICK c \in ChunkId \ heap, capacity \in Words :
          /\ GrownCapacity(count, capacity)
          /\ Enter(c, [remains |-> capacity, capacity |-> capacity, cursor |-> 0], count)
    BY <1>4 DEF PushInNewChunk
  <2> DEFINE st == [remains |-> capacity, capacity |-> capacity, cursor |-> 0]
  <2>3. st \in Chunk
    BY <2>2, Growth DEF Chunk
  <2>4. Linked \subseteq heap
    BY <2>1, Shape DEF ChunksOK, NoChunkLost
  <2>5. \A i \in 1 .. Len(frames) : frames[i].chunk # c
    BY <2>1, <2>2, <2>4, Shape, ChunkShape DEF Placed
  <2> HIDE DEF st
  <2> QED
    BY <1>0, <2>1, <2>2, <2>3, <2>5, PushPile DEF st
<1>5. CASE PopInPlace \/ PopToReserve \/ PopAndFree
  <2>1. Leave
    BY <1>5 DEF PopInPlace, PopToReserve, PopAndFree
  <2> QED
    BY <2>1, PopPile DEF Frames!Next, Frames!Pop
<1>6. ASSUME NEW r \in 0 .. MaxCount - 1, NEW v \in Value, Write(r, v) PROVE Frames!Next
  BY <1>6, WritePile DEF Frames!Next, Frames!Write
<1>7. CASE Destroy
  <2>1. Pile' = << >>
    BY <1>7 DEF Destroy, Pile
  <2> QED
    BY <2>1 DEF Frames!Next, Frames!Drop
<1> QED
  BY <1>1, <1>2, <1>3, <1>4, <1>5, <1>6, <1>7 DEF Next

(* The chain of chunks implements the pile of private frames, for every    *)
(* chunk size, frame size, number of addresses and content.                *)
THEOREM StackRefinement == Spec => ImplementsFrameStack
<1>1. Init => Frames!Init
  BY DEF Init, Frames!Init, Pile
<1> QED
  BY <1>1, InitIInv, StepIInv, StepPile, PTL DEF Spec, ImplementsFrameStack, Frames!Spec
=============================================================================
