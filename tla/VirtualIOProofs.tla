--------------------------- MODULE VirtualIOProofs ---------------------------
(***************************************************************************)
(* What holds of the mount points of a thread, whatever their number, the  *)
(* paths and the folders mounted: every adapter is owned once, the array   *)
(* implements the table of MountTable, and the intrinsics of a program,    *)
(* which keep addresses into that array, never use an adapter that was     *)
(* released or never made.                                                 *)
(***************************************************************************)
EXTENDS VirtualIO, SequenceTheorems, FiniteSetTheorems, TLAPS

USE SlotsAssumption, MaxAdaptersAssumption

MountEntry == [path : Seq(Piece), adapter : Int]

Typed ==
  /\ slot \in [0 .. Slots -> MountEntry]
  /\ count \in 0 .. Slots
  /\ made \in 3 .. MaxAdapters
  /\ released \in [MadeAdapter -> {0, 1}]
  /\ over \in BOOLEAN
  /\ over => count = 0

(* An entry of the table holds an adapter that was made and not released.  *)
Live == \A i \in 0 .. count - 1 : slot[i].adapter \in 1 .. made /\ released[slot[i].adapter] = 0

Unique ==
  \A i, j \in 0 .. count - 1 : slot[i].adapter = slot[j].adapter => i = j

(* Nothing is lost: what no entry holds was released.                      *)
Kept ==
  \A a \in 1 .. made : released[a] = 0 => \E i \in 0 .. count - 1 : slot[i].adapter = a

NotYetMade == \A a \in made + 1 .. MaxAdapters : released[a] = 0

(* The entries after the table were never written; the fallback is devnull *)
(* until the table is full.                                                *)
Rest ==
  ~ over =>
    /\ \A i \in count .. Slots - 1 : slot[i].adapter = Uninit
    /\ slot[Slots].adapter = Devnull \/ (count = Slots /\ slot[Slots].adapter = Uninit)

MInv == Typed /\ Live /\ Unique /\ Kept /\ NotYetMade /\ Rest

-----------------------------------------------------------------------------
LEMMA PiecesType ==
  ASSUME NEW S, NEW x \in S, NEW y \in S
  PROVE  << x >> \in Seq(S) /\ << x, y >> \in Seq(S)
OBVIOUS

LEMMA FirstPieces ==
  ASSUME NEW S, NEW s \in Seq(S), NEW n \in 1 .. Len(s)
  PROVE  SubSeq(s, 1, n) \in Seq(S)
<1>1. n \in Int /\ \A i \in 1 .. n : s[i] \in S
  OBVIOUS
<1>2. QED
  BY <1>1, SubSeqProperties

LEMMA MadePaths ==
  /\ << "", "home" >> \in Seq(Piece) /\ << "", "tmp" >> \in Seq(Piece)
  /\ << "", "root" >> \in Seq(Piece) /\ << "" >> \in Seq(Piece) /\ << "", "" >> \in Seq(Piece)
<1>1. "" \in Piece /\ "home" \in Piece /\ "tmp" \in Piece /\ "root" \in Piece
  BY PathAssumption
<1>2. QED
  BY <1>1, PiecesType

LEMMA EntryType ==
  ASSUME NEW path \in Seq(Piece), NEW adapter \in Int
  PROVE  Entry(path, adapter) \in MountEntry /\ Entry(path, adapter).adapter = adapter
BY DEF Entry, MountEntry

LEMMA InitInv == MInit => MInv
<1> SUFFICES ASSUME MInit PROVE MInv
  OBVIOUS
<1> USE DEF Uninit, Devnull
<1> DEFINE first  == Entry(<< "", "home" >>, 1)
           second == Entry(<< "", "tmp" >>, 2)
           third  == Entry(<< "", "root" >>, 3)
           last   == Entry(<< "" >>, Devnull)
<1>1. slot = [i \in 0 .. Slots |->
               CASE i = 0     -> first
                 [] i = 1     -> second
                 [] i = 2     -> third
                 [] i = Slots -> last
                 [] OTHER     -> Unwritten]
  BY DEF MInit
<1>2. /\ first.adapter = 1 /\ second.adapter = 2 /\ third.adapter = 3
      /\ last.adapter = Devnull /\ Unwritten.adapter = Uninit
      /\ {first, second, third, last, Unwritten} \subseteq MountEntry
  <2> {0, 1, 2, 3, -1} \subseteq Int
    OBVIOUS
  <2>1. first \in MountEntry /\ first.adapter = 1 /\ second \in MountEntry /\ second.adapter = 2
    BY MadePaths, EntryType, Zenon
  <2>2. third \in MountEntry /\ third.adapter = 3 /\ last \in MountEntry /\ last.adapter = Devnull
    BY MadePaths, EntryType, Zenon
  <2>3. Unwritten \in MountEntry /\ Unwritten.adapter = Uninit
    BY MadePaths, EntryType, Zenon DEF Unwritten
  <2> HIDE DEF first, second, third, last
  <2>4. QED
    BY <2>1, <2>2, <2>3
<1> HIDE DEF first, second, third, last
<1>3. /\ count = 3 /\ made = 3 /\ released = [a \in MadeAdapter |-> 0] /\ over = FALSE
      /\ slot[0].adapter = 1 /\ slot[1].adapter = 2 /\ slot[2].adapter = 3
      /\ slot[Slots].adapter = Devnull
      /\ \A i \in 3 .. Slots - 1 : slot[i].adapter = Uninit
  <2>1. /\ {0, 1, 2, Slots} \subseteq 0 .. Slots /\ Slots > 3
        /\ \A i \in 3 .. Slots - 1 : i \in 0 .. Slots /\ i \notin {0, 1, 2, Slots}
    OBVIOUS
  <2>2. /\ slot[0] = first /\ slot[1] = second /\ slot[2] = third /\ slot[Slots] = last
        /\ \A i \in 3 .. Slots - 1 : slot[i] = Unwritten
    BY <1>1, <2>1
  <2>3. /\ count = 3 /\ made = 3 /\ released = [a \in MadeAdapter |-> 0] /\ over = FALSE
    BY DEF MInit
  <2>4. QED
    BY <1>2, <2>2, <2>3
<1>4. slot \in [0 .. Slots -> MountEntry]
  BY <1>1, <1>2
<1>5. Typed
  <2>1. count \in 0 .. Slots /\ made \in 3 .. MaxAdapters /\ over \in BOOLEAN /\ (over => count = 0)
    <3>1. count \in 0 .. Slots /\ made \in 3 .. MaxAdapters
      BY <1>3
    <3>2. over \in BOOLEAN /\ (over => count = 0)
      BY <1>3, Zenon
    <3>3. QED
      BY <3>1, <3>2
  <2>2. released \in [MadeAdapter -> {0, 1}]
    BY <1>3
  <2>3. QED
    BY <1>4, <2>1, <2>2 DEF Typed
<1>6. Live /\ Unique
  BY <1>3 DEF Live, Unique, MadeAdapter
<1>7. Kept
  <2>1. \A a \in 1 .. 3 : a - 1 \in 0 .. 2 /\ slot[a - 1].adapter = a
    BY <1>3
  <2>2. QED
    BY <1>3, <2>1 DEF Kept
<1>8. NotYetMade /\ Rest
  BY <1>3 DEF NotYetMade, Rest, MadeAdapter
<1>9. QED
  BY <1>5, <1>6, <1>7, <1>8 DEF MInv

(* The path of a mount point.                                              *)
LEMMA TrimmedType ==
  ASSUME NEW path \in Seq(Piece) PROVE Trimmed(path) \in Seq(Piece)
<1> DEFINE kept == {n \in 1 .. Len(path) :
                      path[n] # "" /\ \A m \in n + 1 .. Len(path) : path[m] = ""}
<1>1. CASE kept = {}
  <2>1. << "", "" >> \in Seq(Piece)
    BY MadePaths
  <2>2. QED
    BY <1>1, <2>1 DEF Trimmed
<1>2. CASE kept # {}
  <2>1. PICK n \in kept : n = CHOOSE m \in kept : TRUE
    BY <1>2
  <2>2. n \in 1 .. Len(path)
    OBVIOUS
  <2>3. SubSeq(path, 1, n) \in Seq(Piece)
    BY <2>2, FirstPieces
  <2>4. Trimmed(path) = SubSeq(path, 1, CHOOSE m \in kept : TRUE)
    BY <1>2 DEF Trimmed
  <2>5. QED
    BY <2>1, <2>3, <2>4
<1>3. QED
  BY <1>1, <1>2

(* What Add makes of the array: the new entry first, the others after it.  *)
LEMMA AddShifts ==
  ASSUME MInv, count < Slots, NEW path \in Seq(Piece), NEW adapter \in Int, Add(path, adapter)
  PROVE  /\ slot' \in [0 .. Slots -> MountEntry]
         /\ count' = count + 1 /\ count' \in 0 .. Slots
         /\ slot'[0] = Entry(Trimmed(path), adapter)
         /\ \A i \in 1 .. count' - 1 : slot'[i] = slot[i - 1]
<1>1. slot \in [0 .. Slots -> MountEntry] /\ count \in 0 .. Slots
  BY DEF MInv, Typed
<1>2. Entry(Trimmed(path), adapter) \in MountEntry
  BY TrimmedType DEF Entry, MountEntry
<1> DEFINE new == Entry(Trimmed(path), adapter)
<1>3. slot' = [i \in 0 .. Slots |->
                CASE i = 0 -> new
                  [] i > 0 /\ i <= count + 1 /\ count # 0 -> slot[i - 1]
                  [] OTHER -> slot[i]]
  BY DEF Add
<1>4. count' = count + 1
  BY DEF Add
<1> HIDE DEF new
<1>5. \A i \in 0 .. Slots : slot'[i] =
                CASE i = 0 -> new
                  [] i > 0 /\ i <= count + 1 /\ count # 0 -> slot[i - 1]
                  [] OTHER -> slot[i]
  BY <1>3
<1>6. \A i \in 0 .. Slots : slot'[i] \in MountEntry
  BY <1>1, <1>2, <1>5 DEF new
<1>7. slot' \in [0 .. Slots -> MountEntry]
  BY <1>3, <1>5, <1>6
<1>8. slot'[0] = new
  BY <1>5
<1>9. \A i \in 1 .. count' - 1 : slot'[i] = slot[i - 1]
  BY <1>1, <1>4, <1>5
<1>10. QED
  BY <1>1, <1>4, <1>7, <1>8, <1>9 DEF new

LEMMA MountKeepsInv ==
  ASSUME MInv, NEW path \in MountPath, Mount(path)
  PROVE  MInv'
<1>1. path \in Seq(Piece)
  BY PathAssumption
<1>2. /\ slot \in [0 .. Slots -> MountEntry] /\ count \in 0 .. Slots
      /\ made \in 3 .. MaxAdapters /\ released \in [MadeAdapter -> {0, 1}]
      /\ ~ over /\ over' = over /\ made' = made + 1 /\ made < MaxAdapters
      /\ released[made + 1] = 0
  BY DEF Mount, MInv, Typed, NotYetMade
<1>3. CASE Accepts(path)
  <2>1. Add(path, made + 1) /\ released' = released /\ count < Slots
    BY <1>3 DEF Mount, Accepts
  <2>2. /\ slot' \in [0 .. Slots -> MountEntry]
        /\ count' = count + 1 /\ count' \in 0 .. Slots
        /\ slot'[0] = Entry(Trimmed(path), made + 1)
        /\ \A i \in 1 .. count' - 1 : slot'[i] = slot[i - 1]
    BY <1>1, <1>2, <2>1, AddShifts
  <2>3. slot'[0].adapter = made + 1
    BY <2>2 DEF Entry
  <2>4. Typed'
    <3>1. made' \in 3 .. MaxAdapters /\ released' \in [MadeAdapter -> {0, 1}] /\ over' \in BOOLEAN
      BY <1>2, <2>1 DEF MInv, Typed
    <3>2. QED
      BY <1>2, <2>2, <3>1 DEF Typed, MadeAdapter
  <2>5. \A i \in 0 .. count - 1 : slot[i].adapter \in 1 .. made /\ released[slot[i].adapter] = 0
    BY DEF MInv, Live
  <2>6. Live'
    <3> SUFFICES ASSUME NEW i \in 0 .. count' - 1
                 PROVE  slot'[i].adapter \in 1 .. made' /\ released'[slot'[i].adapter] = 0
      BY DEF Live
    <3>1. CASE i = 0
      BY <1>2, <2>1, <2>3, <3>1
    <3>2. CASE i # 0
      <4>1. i - 1 \in 0 .. count - 1 /\ slot'[i] = slot[i - 1]
        BY <1>2, <2>2, <3>2
      <4>2. QED
        BY <1>2, <2>1, <2>5, <4>1
    <3>3. QED
      BY <3>1, <3>2
  <2>7. Unique'
    <3> SUFFICES ASSUME NEW i \in 0 .. count' - 1, NEW j \in 0 .. count' - 1,
                        slot'[i].adapter = slot'[j].adapter
                 PROVE  i = j
      BY DEF Unique
    <3>1. \A k \in 1 .. count' - 1 : k - 1 \in 0 .. count - 1 /\ slot'[k] = slot[k - 1]
                                     /\ slot'[k].adapter \in 1 .. made
      BY <1>2, <2>2, <2>5
    <3>2. CASE i = 0 \/ j = 0
      BY <1>2, <2>2, <2>3, <3>1, <3>2
    <3>3. CASE i # 0 /\ j # 0
      <4>1. i - 1 = j - 1
        BY <1>2, <2>2, <3>1, <3>3 DEF MInv, Unique
      <4>2. QED
        BY <1>2, <2>2, <4>1
    <3>4. QED
      BY <3>2, <3>3
  <2>8. Kept'
    <3> SUFFICES ASSUME NEW a \in 1 .. made', released'[a] = 0
                 PROVE  \E i \in 0 .. count' - 1 : slot'[i].adapter = a
      BY DEF Kept
    <3>1. CASE a = made + 1
      BY <1>2, <2>2, <2>3, <3>1
    <3>2. CASE a # made + 1
      <4>1. PICK i \in 0 .. count - 1 : slot[i].adapter = a
        BY <1>2, <2>1, <3>2 DEF MInv, Kept
      <4>2. i + 1 \in 1 .. count' - 1 /\ slot'[i + 1] = slot[i]
        BY <1>2, <2>2
      <4>3. QED
        BY <1>2, <2>2, <4>1, <4>2
    <3>3. QED
      BY <3>1, <3>2
  <2>9. NotYetMade'
    BY <1>2, <2>1 DEF MInv, NotYetMade
  <2>10. Rest'
    <3>1. /\ \A i \in count .. Slots - 1 : slot[i].adapter = Uninit
          /\ slot[Slots].adapter = Devnull \/ (count = Slots /\ slot[Slots].adapter = Uninit)
      BY <1>2 DEF MInv, Rest
    <3>2. \A i \in 1 .. Slots : slot'[i] = IF i <= count + 1 /\ count # 0 THEN slot[i - 1] ELSE slot[i]
      BY <1>2, <2>1 DEF Add
    <3>3. \A i \in count' .. Slots - 1 : slot'[i].adapter = Uninit
      BY <1>2, <2>2, <3>1, <3>2
    <3>4. slot'[Slots].adapter = Devnull \/ (count' = Slots /\ slot'[Slots].adapter = Uninit)
      <4>1. CASE count' = Slots
        <5>1. slot'[Slots] = slot[Slots - 1] /\ slot[Slots - 1].adapter = Uninit
          BY <1>2, <2>1, <2>2, <3>1, <3>2, <4>1
        <5>2. QED
          BY <4>1, <5>1
      <4>2. CASE count' # Slots
        <5>1. slot'[Slots] = slot[Slots] \/ slot'[Slots] = slot[Slots - 1]
          BY <3>2
        <5>2. QED
          BY <1>2, <2>1, <2>2, <3>1, <3>2, <4>2, <5>1
      <4>3. QED
        BY <4>1, <4>2
    <3>6. QED
      BY <3>3, <3>4 DEF Rest
  <2>11. QED
    BY <2>4, <2>6, <2>7, <2>8, <2>9, <2>10 DEF MInv
<1>4. CASE ~ Accepts(path)
  <2>1. released' = [released EXCEPT ![made + 1] = @ + 1] /\ slot' = slot /\ count' = count
    BY <1>4 DEF Mount
  <2>2. /\ made + 1 \in MadeAdapter
        /\ released'[made + 1] = 1
        /\ \A a \in MadeAdapter : a # made + 1 => released'[a] = released[a]
        /\ released' \in [MadeAdapter -> {0, 1}]
    BY <1>2, <2>1 DEF MadeAdapter
  <2>3. Typed'
    <3>1. made' \in 3 .. MaxAdapters /\ over' \in BOOLEAN
      BY <1>2 DEF MInv, Typed
    <3>2. QED
      BY <1>2, <2>1, <2>2, <3>1 DEF Typed, MadeAdapter
  <2>4. Live'
    BY <1>2, <2>1, <2>2 DEF MInv, Live, MadeAdapter
  <2>5. Unique'
    BY <2>1 DEF MInv, Unique
  <2>6. Kept'
    BY <1>2, <2>1, <2>2 DEF MInv, Kept, MadeAdapter
  <2>7. NotYetMade'
    BY <1>2, <2>1, <2>2 DEF MInv, NotYetMade, MadeAdapter
  <2>8. Rest'
    BY <1>2, <2>1 DEF MInv, Rest
  <2>9. QED
    BY <2>3, <2>4, <2>5, <2>6, <2>7, <2>8 DEF MInv
<1>5. QED
  BY <1>3, <1>4

-----------------------------------------------------------------------------
(* The mount points that hold an adapter.                                  *)
LEMMA HeldCount ==
  ASSUME MInv, NEW a \in 1 .. made
  PROVE  Cardinality(Held(a)) = 1 - released[a]
<1>1. CASE released[a] = 0
  <2>1. PICK i \in 0 .. count - 1 : slot[i].adapter = a
    BY <1>1 DEF MInv, Kept
  <2>2. Held(a) = {i}
    BY <2>1 DEF Held, MInv, Unique
  <2>3. Cardinality(Held(a)) = 1
    BY <2>2, FS_Singleton
  <2>4. QED
    BY <1>1, <2>3
<1>2. CASE released[a] # 0
  <2>1. released[a] = 1
    BY <1>2 DEF MInv, Typed, MadeAdapter
  <2>2. Held(a) = {}
    BY <1>2 DEF Held, MInv, Live
  <2>3. Cardinality(Held(a)) = 0
    BY <2>2, FS_EmptySet
  <2>4. QED
    BY <2>1, <2>3
<1>3. QED
  BY <1>1, <1>2

LEMMA NotHeld ==
  ASSUME MInv, NEW a \in MadeAdapter, a > made
  PROVE  Cardinality(Held(a)) = 0
<1>1. Held(a) = {}
  BY DEF Held, MInv, Live, Typed, MadeAdapter
<1>2. QED
  BY <1>1, FS_EmptySet

LEMMA CloseKeepsInv == MInv /\ Close => MInv'
<1> SUFFICES ASSUME MInv, Close PROVE MInv'
  OBVIOUS
<1>1. /\ made \in 3 .. MaxAdapters /\ MaxAdapters \in Nat /\ released \in [MadeAdapter -> {0, 1}]
      /\ slot' = slot /\ slot \in [0 .. Slots -> MountEntry]
      /\ count' = 0 /\ made' = made /\ over' = TRUE
      /\ released' = [a \in MadeAdapter |-> released[a] + Cardinality(Held(a))]
  BY DEF MInv, Typed, Close
<1>2. \A a \in 1 .. made : released'[a] = 1
  <2> SUFFICES ASSUME NEW a \in 1 .. made PROVE released'[a] = 1
    OBVIOUS
  <2>1. Cardinality(Held(a)) = 1 - released[a] /\ a \in MadeAdapter /\ released[a] \in {0, 1}
    BY <1>1, HeldCount DEF MadeAdapter
  <2>2. QED
    BY <1>1, <2>1
<1>3. \A a \in MadeAdapter : a > made => released'[a] = 0
  <2> SUFFICES ASSUME NEW a \in MadeAdapter, a > made PROVE released'[a] = 0
    OBVIOUS
  <2>1. released[a] = 0
    BY <1>1 DEF MInv, NotYetMade, MadeAdapter
  <2>2. QED
    BY <1>1, <2>1, NotHeld
<1>4. released' \in [MadeAdapter -> {0, 1}]
  <2>1. \A a \in MadeAdapter : released'[a] \in {0, 1}
    BY <1>1, <1>2, <1>3, SMTT(30) DEF MadeAdapter
  <2>2. QED
    BY <1>1, <2>1
<1>5. Typed'
  BY <1>1, <1>4 DEF Typed
<1>6. Live' /\ Unique'
  BY <1>1 DEF Live, Unique
<1>7. Kept'
  BY <1>1, <1>2 DEF Kept
<1>8. NotYetMade'
  BY <1>1, <1>3 DEF NotYetMade, MadeAdapter
<1>9. Rest'
  BY <1>1 DEF Rest
<1>10. QED
  BY <1>5, <1>6, <1>7, <1>8, <1>9 DEF MInv

LEMMA StepInv == MInv /\ [MNext]_mvars => MInv'
<1> SUFFICES ASSUME MInv, [MNext]_mvars PROVE MInv'
  OBVIOUS
<1>1. CASE \E path \in Path : Resolve(path)
  BY <1>1 DEF Resolve, MInv, Typed, Live, Unique, Kept, NotYetMade, Rest
<1>2. CASE \E path \in MountPath : Mount(path)
  BY <1>2, MountKeepsInv
<1>3. CASE Close
  BY <1>3, CloseKeepsInv
<1>4. CASE UNCHANGED mvars
  BY <1>4 DEF mvars, MInv, Typed, Live, Unique, Kept, NotYetMade, Rest
<1>5. QED
  BY <1>1, <1>2, <1>3, <1>4 DEF MNext

LEMMA InvOwned == MInv => OwnedOnce
<1> SUFFICES ASSUME MInv, NEW a \in 1 .. made
             PROVE  released[a] + Cardinality(Held(a)) = 1
  BY DEF OwnedOnce
<1>1. Cardinality(Held(a)) = 1 - released[a]
  BY HeldCount
<1>2. released[a] \in {0, 1}
  BY DEF MInv, Typed, MadeAdapter
<1>3. QED
  BY <1>1, <1>2

(* Whatever is mounted, each adapter is held by one mount point or was     *)
(* released once (details/vm/io.cpp 49-52 and 87-106).                     *)
THEOREM MountOwnedOnce == MountSpec => []OwnedOnce
<1>1. MountSpec => []MInv
  BY InitInv, StepInv, PTL DEF MountSpec
<1>2. QED
  BY <1>1, InvOwned, PTL

-----------------------------------------------------------------------------
(* The array as the table of MountTable.                                   *)
TableOf == [i \in 1 .. count |-> slot[i - 1]]

LEMMA FunctionIsSeq ==
  ASSUME NEW S, NEW n \in Nat, NEW f \in [1 .. n -> S]
  PROVE  f \in Seq(S) /\ Len(f) = n
OBVIOUS

TableTyped ==
  /\ TableOf \in Seq([path : Seq(Piece), adapter : MadeAdapter]) /\ Len(TableOf) = count
  /\ \A i \in 1 .. count : TableOf[i] = slot[i - 1]

LEMMA TableType == MInv => TableTyped
<1> SUFFICES ASSUME MInv PROVE TableTyped
  OBVIOUS
<1> DEFINE E == [path : Seq(Piece), adapter : MadeAdapter]
<1>1. count \in Nat /\ \A i \in 1 .. count : slot[i - 1] \in E
  <2>1. /\ slot \in [0 .. Slots -> MountEntry] /\ count \in 0 .. Slots /\ made \in 3 .. MaxAdapters
        /\ \A i \in 0 .. count - 1 : slot[i].adapter \in 1 .. made
    BY DEF MInv, Typed, Live
  <2>2. \A i \in 1 .. count : i - 1 \in 0 .. count - 1 /\ i - 1 \in 0 .. Slots
    BY <2>1
  <2>3. \A i \in 1 .. count : slot[i - 1] \in MountEntry /\ slot[i - 1].adapter \in MadeAdapter
    BY <2>1, <2>2 DEF MadeAdapter
  <2>4. QED
    BY <2>1, <2>3 DEF MountEntry
<1>2. TableOf \in [1 .. count -> E]
  BY <1>1 DEF TableOf
<1>3. TableOf \in Seq(E) /\ Len(TableOf) = count
  BY <1>1, <1>2, FunctionIsSeq
<1>4. QED
  BY <1>3 DEF TableOf, TableTyped

LEMMA InitRefines == MInit => Table!Init
<1> SUFFICES ASSUME MInit PROVE Table!Init
  OBVIOUS
<1>1. MInv
  BY InitInv
<1>2. found.adapter = Devnull
  BY DEF MInit
<1>3. QED
  BY <1>1, <1>2, TableType DEF TableTyped, Table!Init, Table!Entry, AllPaths, TableOf

LEMMA LookupRefines ==
  ASSUME MInv, NEW path \in Path, Resolve(path)
  PROVE  Table!Lookup
<1>1. path \in Seq(Piece)
  BY PathAssumption
<1>2. PICK i \in 0 .. Slots : Resolves(i, path) /\ found' = [path |-> path, adapter |-> slot[i].adapter]
  BY DEF Resolve
<1>3. /\ TableOf' = TableOf /\ ~ over
      /\ Len(TableOf) = count /\ \A k \in 1 .. count : TableOf[k] = slot[k - 1]
      /\ count \in 0 .. Slots
  BY TableType DEF TableTyped, Resolve, TableOf, MInv, Typed
<1>4. \A mp : Table!Covers(mp, path) <=> Covers(mp, path)
  BY DEF Table!Covers, Covers
<1>5. Table!Leads(path, slot[i].adapter)
  <2> USE DEF Table!Leads
  <2>1. CASE Covered(path)
    <3>1. i \in 0 .. count - 1 /\ Covers(slot[i].path, path)
          /\ \A j \in 0 .. i - 1 : ~ Covers(slot[j].path, path)
      BY <1>2, <2>1 DEF Resolves, Serves
    <3>2. i + 1 \in 1 .. count /\ TableOf[i + 1] = slot[i]
      BY <1>3, <3>1
    <3>3. \A j \in 1 .. i : TableOf[j] = slot[j - 1] /\ j - 1 \in 0 .. i - 1
      BY <1>3, <3>1
    <3>4. /\ Table!Covers(TableOf[i + 1].path, path)
          /\ \A j \in 1 .. (i + 1) - 1 : ~ Table!Covers(TableOf[j].path, path)
          /\ slot[i].adapter = TableOf[i + 1].adapter
      BY <1>4, <3>1, <3>2, <3>3
    <3>5. QED
      BY <1>3, <3>2, <3>4 DEF TableOf
  <2>2. CASE ~ Covered(path)
    <3>1. i = Slots /\ \A j \in 0 .. count - 1 : ~ Covers(slot[j].path, path)
      BY <1>2, <2>2 DEF Resolves, Covered
    <3>2. \A j \in 1 .. count : TableOf[j] = slot[j - 1] /\ j - 1 \in 0 .. count - 1
      BY <1>3
    <3>3. \A j \in 1 .. Len(TableOf) : ~ Table!Covers(TableOf[j].path, path)
      BY <1>3, <1>4, <3>1, <3>2
    <3>4. slot[i].adapter = Devnull \/ (Len(TableOf) = Slots /\ slot[i].adapter = Uninit)
      BY <1>3, <3>1 DEF MInv, Rest
    <3>5. QED
      BY <3>3, <3>4 DEF TableOf
  <2>3. QED
    BY <2>1, <2>2
<1>6. QED
  BY <1>1, <1>2, <1>3, <1>5 DEF Table!Lookup, AllPaths, TableOf

LEMMA MountRefines ==
  ASSUME MInv, NEW path \in MountPath, Mount(path)
  PROVE  Table!Mount \/ UNCHANGED << TableOf, found >>
<1>1. path \in Seq(Piece) /\ MInv'
  BY PathAssumption, MountKeepsInv
<1>2. CASE ~ Accepts(path)
  BY <1>2 DEF Mount, TableOf
<1>3. CASE Accepts(path)
  <2> DEFINE E == [path : Seq(Piece), adapter : MadeAdapter]
  <2>1. Add(path, made + 1) /\ count < Slots /\ made + 1 \in Int /\ count \in 0 .. Slots /\ found' = found
    BY <1>3 DEF Mount, Accepts, MInv, Typed
  <2>2. /\ count' = count + 1
        /\ \A i \in 1 .. count' - 1 : slot'[i] = slot[i - 1]
    BY <1>1, <2>1, AddShifts
  <2>3. /\ TableOf \in Seq(E) /\ Len(TableOf) = count
        /\ \A i \in 1 .. count : TableOf[i] = slot[i - 1]
    BY TableType DEF TableTyped
  <2>4. /\ TableOf' \in Seq(E) /\ Len(TableOf') = count'
        /\ \A i \in 1 .. count' : TableOf'[i] = slot'[i - 1]
    <3>1. TableTyped'
      BY <1>1, TableType, PTL
    <3>2. QED
      BY <3>1 DEF TableTyped
  <2>5. TableOf' # << >>
    BY <2>1, <2>2, <2>4
  <2>6. /\ Head(TableOf') \in E /\ Tail(TableOf') \in Seq(E)
        /\ Len(Tail(TableOf')) = Len(TableOf') - 1
        /\ \A i \in 1 .. Len(Tail(TableOf')) : Tail(TableOf')[i] = TableOf'[i + 1]
    BY <2>4, <2>5, HeadTailProperties
  <2>7. Len(Tail(TableOf')) = Len(TableOf)
    BY <2>1, <2>2, <2>3, <2>4, <2>6
  <2>8. \A i \in 1 .. Len(Tail(TableOf')) : Tail(TableOf')[i] = TableOf[i]
    <3> SUFFICES ASSUME NEW i \in 1 .. count PROVE Tail(TableOf')[i] = TableOf[i]
      BY <2>3, <2>7
    <3>1. /\ i \in 1 .. Len(Tail(TableOf')) /\ i + 1 \in 1 .. count' /\ (i + 1) - 1 = i
          /\ i \in 1 .. count' - 1
      BY <2>1, <2>2, <2>3, <2>7
    <3>2. Tail(TableOf')[i] = slot'[i]
      BY <2>4, <2>6, <3>1
    <3>3. QED
      BY <2>2, <2>3, <3>1, <3>2
  <2>9. Tail(TableOf') = TableOf
    BY <2>3, <2>6, <2>7, <2>8, SeqEqual
  <2>10. QED
    BY <2>1, <2>3, <2>5, <2>6, <2>9 DEF Table!Mount, Table!Entry, AllPaths, TableOf
<1>4. QED
  BY <1>2, <1>3

LEMMA StepRefines == MInv /\ [MNext]_mvars => [Table!Next]_<< TableOf, found >>
<1> SUFFICES ASSUME MInv, [MNext]_mvars
             PROVE  Table!Next \/ UNCHANGED << TableOf, found >>
  OBVIOUS
<1>1. CASE \E path \in Path : Resolve(path)
  BY <1>1, LookupRefines DEF Table!Next
<1>2. CASE \E path \in MountPath : Mount(path)
  BY <1>2, MountRefines DEF Table!Next
<1>3. CASE Close
  <2>1. count' = 0 /\ found' = found
    BY <1>3 DEF Close
  <2>2. TableOf' = << >>
    BY <2>1 DEF TableOf
  <2>3. QED
    BY <2>1, <2>2 DEF Table!Next, Table!Close, TableOf
<1>4. CASE UNCHANGED mvars
  BY <1>4 DEF mvars, TableOf
<1>5. QED
  BY <1>1, <1>2, <1>3, <1>4 DEF MNext

(* The array of mount points, its moves and its fallback are the table of  *)
(* MountTable: the newest mount point that covers a path serves it         *)
(* (details/vm/io.cpp 54-106).                                             *)
THEOREM MountImplementsTable == MountSpec => ImplementsMountTable
<1>1. MountSpec => []MInv
  BY InitInv, StepInv, PTL DEF MountSpec
<1>2. MInit => Table!Init
  BY InitRefines
<1>3. MInv /\ [MNext]_mvars => [Table!Next]_<< TableOf, found >>
  BY StepRefines
<1>4. QED
  BY <1>1, <1>2, <1>3, PTL DEF MountSpec, ImplementsMountTable, Table!Spec, TableOf

-----------------------------------------------------------------------------
(* The intrinsics change the table through Resolve, Mount and Close only.  *)
LEMMA StepOfTable == [Next]_vars => [MNext]_mvars
<1> SUFFICES ASSUME [Next]_vars PROVE MNext \/ UNCHANGED mvars
  BY DEF mvars
<1> USE DEF OnPath, Crash
<1>1. CASE \E path \in Path : Ask(path)
  BY <1>1 DEF Ask, MNext
<1>2. CASE \E path \in Path : FileGetContents(path)
  BY <1>2 DEF FileGetContents, MNext
<1>3. CASE \E path \in Path : FileOpen(path)
  BY <1>3 DEF FileOpen, MNext
<1>4. CASE \E path \in Path : FolderIterate(path)
  BY <1>4 DEF FolderIterate, MNext
<1>5. CASE \E h \in Handle : FileUse(h) \/ FileClose(h)
  BY <1>5 DEF FileUse, FileClose
<1>6. CASE IteratorNext \/ IteratorFullpath \/ IteratorClose
  BY <1>6 DEF IteratorNext, IteratorFullpath, IteratorClose, OnIterator
<1>7. CASE \E path \in MountPath, folder \in LocalFolder : MountLocal(path, folder)
  BY <1>7 DEF MountLocal, MNext
<1>8. CASE EnvRead \/ DigestMd5
  BY <1>8 DEF EnvRead, DigestMd5, Hands
<1>9. CASE End
  BY <1>9 DEF End, MNext
<1>10. CASE UNCHANGED vars
  BY <1>10 DEF vars
<1>11. QED
  BY <1>1, <1>2, <1>3, <1>4, <1>5, <1>6, <1>7, <1>8, <1>9, <1>10 DEF Next

LEMMA SpecMounts == Spec => MountSpec
<1>1. Init => MInit
  BY DEF Init
<1>2. QED
  BY <1>1, StepOfTable, PTL DEF Spec, MountSpec

(* Whatever a program does with its files and its mount points, every      *)
(* adapter is held by one mount point or was released once.                *)
THEOREM AdaptersOwnedOnce == Spec => []OwnedOnce
BY SpecMounts, MountOwnedOnce, PTL

(* Whatever a program does, a path is served by the newest mount point     *)
(* that covers it (details/vm/io.cpp 54-106).                              *)
THEOREM NewestMountServes == Spec => ImplementsMountTable
BY SpecMounts, MountImplementsTable, PTL

(* The index an open file keeps is that of a mount point, not that of the  *)
(* fallback.                                                               *)
HandlesIn ==
  /\ DOMAIN file = Handle
  /\ ~ over => \A h \in Handle : file[h] # Closed => file[h].at \in 0 .. count - 1

LEMMA FileOpenIn ==
  ASSUME MInv, HandlesIn, NEW path \in Path, FileOpen(path)
  PROVE  HandlesIn'
<1>1. over' = over /\ count' = count /\ ~ over
  BY DEF FileOpen, OnPath, Active, Crash, Resolve, mvars
<1>2. CASE UNCHANGED file
  BY <1>1, <1>2 DEF HandlesIn
<1>3. CASE ~ UNCHANGED file
  <2>1. PICK i \in 0 .. Slots, h \in Handle :
          /\ Resolves(i, path) /\ slot[i].adapter \in MadeAdapter
          /\ file' = [file EXCEPT ![h] =
                        [at |-> i, node |-> ToLocalPath(slot[i].adapter, AdapterPath(i, path))]]
    BY <1>3 DEF FileOpen, OnPath, Crash, Refused, Nothing
  <2>2. i \in 0 .. count - 1
    <3>1. i # Slots
      BY <1>1, <2>1 DEF MInv, Rest, MadeAdapter, Devnull, Uninit
    <3>2. QED
      BY <2>1, <3>1 DEF Resolves
  <2>3. \A k \in Handle : file'[k] = file[k] \/ file'[k].at = i
    BY <2>1 DEF HandlesIn
  <2>4. DOMAIN file' = Handle
    BY <2>1 DEF HandlesIn
  <2>5. QED
    BY <1>1, <2>2, <2>3, <2>4 DEF HandlesIn
<1>4. QED
  BY <1>2, <1>3

LEMMA HandlesStay == MInv /\ HandlesIn /\ [Next]_vars => HandlesIn'
<1> SUFFICES ASSUME MInv, HandlesIn, [Next]_vars PROVE HandlesIn'
  OBVIOUS
<1>1. ASSUME UNCHANGED << mvars, file >> PROVE HandlesIn'
  BY <1>1 DEF mvars, HandlesIn
<1>2. CASE \E path \in Path : Ask(path) \/ FileGetContents(path) \/ FolderIterate(path)
  <2>1. over' = over /\ count' = count /\ file' = file
    BY <1>2 DEF Ask, FileGetContents, FolderIterate, OnPath, Crash, Refused, Nothing, Resolve, mvars
  <2>2. QED
    BY <2>1 DEF HandlesIn
<1>3. CASE \E path \in Path : FileOpen(path)
  BY <1>3, FileOpenIn
<1>4. CASE \E h \in Handle : FileUse(h)
  BY <1>1, <1>4 DEF FileUse, Crash, Refused, Nothing
<1>5. CASE \E h \in Handle : FileClose(h)
  <2>1. PICK h \in Handle : FileClose(h)
    BY <1>5
  <2>2. over' = over /\ count' = count
    BY <2>1 DEF FileClose, mvars
  <2>3. file' = file \/ file' = [file EXCEPT ![h] = Closed]
    BY <2>1 DEF FileClose, Crash, Nothing
  <2>4. DOMAIN file' = Handle /\ \A k \in Handle : file'[k] = file[k] \/ file'[k] = Closed
    BY <2>3 DEF HandlesIn
  <2>5. QED
    BY <2>2, <2>4 DEF HandlesIn
<1>6. CASE IteratorNext \/ IteratorFullpath \/ IteratorClose
  BY <1>1, <1>6 DEF IteratorNext, IteratorFullpath, IteratorClose, OnIterator
<1>7. CASE \E path \in MountPath, folder \in LocalFolder : MountLocal(path, folder)
  <2>1. /\ over' = over /\ file' = file /\ (count' = count \/ count' = count + 1)
        /\ count \in Int
    BY <1>7 DEF MountLocal, Refused, Nothing, Mount, Add, MInv, Typed
  <2>2. QED
    BY <2>1 DEF HandlesIn
<1>8. CASE EnvRead \/ DigestMd5
  BY <1>1, <1>8 DEF EnvRead, DigestMd5, Hands
<1>9. CASE End
  BY <1>9 DEF End, Close, iovars, HandlesIn
<1>10. CASE UNCHANGED vars
  BY <1>1, <1>10 DEF vars, iovars
<1>11. QED
  BY <1>2, <1>3, <1>4, <1>5, <1>6, <1>7, <1>8, <1>9, <1>10 DEF Next

LEMMA InvServed == MInv /\ HandlesIn => HandleServed
BY DEF MInv, Typed, Live, HandlesIn, HandleServed, Adapter

(* io.mount moves the entries under the addresses that open files keep,    *)
(* but the address of one is never that of the fallback, of an entry       *)
(* nobody has written or of a released adapter (std.io.cpp 262-285).       *)
THEOREM FilesServed == Spec => []HandleServed
<1>1. Init => HandlesIn
  BY DEF Init, HandlesIn, Closed
<1>2. Spec => []MInv
  BY SpecMounts, InitInv, StepInv, PTL DEF MountSpec
<1>3. Spec => []HandlesIn
  BY <1>1, <1>2, HandlesStay, PTL DEF Spec
<1>4. QED
  BY <1>2, <1>3, InvServed, PTL

-----------------------------------------------------------------------------
(* The strings handed over to the program.                                 *)

(* Division rounds down: the multiple of f below n is less than f away.    *)
LEMMA Division ==
  ASSUME NEW n \in Nat, NEW f \in Nat, f > 0
  PROVE  /\ n \div f \in Nat
         /\ (n \div f) * f \in Nat
         /\ (n \div f) * f <= n
         /\ n < (n \div f) * f + f
<1>1. n \div f \in Nat /\ n = f * (n \div f) + (n % f) /\ n % f \in 0 .. f - 1
  BY Z3T(30)
<1>2. f * (n \div f) = (n \div f) * f
  BY <1>1
<1> DEFINE m == (n \div f) * f
<1>3. m \in Nat
  BY <1>1
<1> HIDE DEF m
<1>4. m <= n /\ n < m + f
  <2>1. n = m + (n % f)
    BY <1>1, <1>2 DEF m
  <2>2. QED
    BY <1>1, <1>3, <2>1
<1>5. QED
  BY <1>1, <1>3, <1>4 DEF m

(* Of two multiples of f, one that is above the other by less than f is    *)
(* the same.                                                               *)
LEMMA Multiples ==
  ASSUME NEW f \in Nat, f > 0, NEW p \in Nat, NEW q \in Nat, p * f < q * f + f
  PROVE  p * f <= q * f
<1>1. CASE p <= q
  BY <1>1
<1>2. CASE p > q
  <2>1. p >= q + 1 /\ p - (q + 1) \in Nat
    BY <1>2
  <2>2. (p - (q + 1)) * f \in Nat
    BY <2>1
  <2>3. (p - (q + 1)) * f = p * f - q * f - f
    BY SMTT(30)
  <2>4. p * f \in Nat /\ q * f \in Nat
    OBVIOUS
  <2>5. QED
    BY <2>2, <2>3, <2>4
<1>3. QED
  BY <1>1, <1>2

(* What the reads by fragments are rounded to fits in the block, which has *)
(* the room of a header more than the size of the file.                    *)
LEMMA FragmentsFit ==
  ASSUME NEW size \in Nat
  PROVE  LET block == IF Nearest(size) < size + Extra
                      THEN Nearest(size) + Fragment ELSE Nearest(size)
         IN /\ Rounded(size, Fragment) \in Nat /\ Nearest(size) \in Nat
            /\ size <= Rounded(size, Fragment)
            /\ Rounded(size, Fragment) <= block
            /\ size + Extra <= block
<1> DEFINE h == Fragment \div 2
           q == (size + h) \div Fragment
           r == (size + Fragment - 1) \div Fragment
           near == q * Fragment
           upper == r * Fragment
<1>1. /\ Fragment \in Nat /\ Extra \in Nat /\ Fragment > 2 * Extra /\ Fragment > 0
      /\ h \in Nat /\ h >= Extra /\ 2 * h <= Fragment
  BY SizeAssumption
<1> HIDE DEF h
<1>2. q \in Nat /\ near \in Nat /\ near <= size + h /\ size + h < near + Fragment
  BY <1>1, Division
<1>3. r \in Nat /\ upper \in Nat /\ upper <= size + Fragment - 1
      /\ size + Fragment - 1 < upper + Fragment
  <2>1. size + Fragment - 1 \in Nat
    BY <1>1
  <2>2. QED
    BY <1>1, <2>1, Division
<1>4. Nearest(size) = near /\ Rounded(size, Fragment) = upper
  BY DEF Nearest, Rounded, h
<1> HIDE DEF q, r
<1>5. near >= size + Extra => upper <= near
  <2>1. near >= size + Extra => upper < near + Fragment
    <3> HIDE DEF near, upper
    <3> QED  BY <1>1, <1>2, <1>3
  <2>2. QED
    BY <1>1, <1>2, <1>3, <2>1, Multiples
<1>6. upper <= near + Fragment
  <2>1. (q + 1) * Fragment = near + Fragment /\ q + 1 \in Nat
    BY <1>1, <1>2
  <2>2. upper < (q + 1) * Fragment + Fragment
    <3> HIDE DEF near, upper
    <3> QED  BY <1>1, <1>2, <1>3, <2>1
  <2>3. QED
    BY <1>1, <1>3, <2>1, <2>2, Multiples
<1> HIDE DEF near, upper
<1>7. size <= upper /\ (near < size + Extra => size + Extra <= near + Fragment)
  BY <1>1, <1>2, <1>3
<1>8. QED
  BY <1>1, <1>2, <1>3, <1>4, <1>5, <1>6, <1>7

(* BufferBacked of one string.                                             *)
Backed(string) ==
  /\ string.from \in {"file", "grown"} => string.reach <= string.block
  /\ string.from \in {"file", "variable", "digest"} =>
       string.capacity + Extra <= string.block
  /\ string.size <= string.capacity

LEMMA ContentsBacked ==
  ASSUME NEW size \in Nat, NEW content \in Nat
  PROVE  Backed(Contents(size, content))
<1>1. Extra \in Nat /\ Fragment \in Nat /\ Fragment > 0
  BY SizeAssumption
<1>2. CASE size = 0
  <2>1. /\ Fragment * (content \div Fragment + 1) = (content \div Fragment) * Fragment + Fragment
        /\ content < (content \div Fragment) * Fragment + Fragment
    BY <1>1, Division
  <2> DEFINE capacity == Fragment * (content \div Fragment + 1)
  <2>2. content <= capacity
    <3>1. (content \div Fragment) * Fragment \in Nat
      BY <1>1, Division
    <3>2. QED
      BY <1>1, <2>1, <3>1
  <2> HIDE DEF capacity
  <2>3. BySmallChunks(content) = NoString
          \/ \E block : BySmallChunks(content) = String("special", content, capacity, block, capacity)
    BY DEF BySmallChunks, capacity
  <2>4. QED
    BY <1>2, <2>2, <2>3 DEF Contents, Backed, String, NoString, None
<1>3. CASE size # 0 /\ size < Fragment
  BY <1>1, <1>3 DEF Contents, AtOnce, Backed, String
<1>4. CASE size # 0 /\ ~ (size < Fragment)
  <2> DEFINE block == IF Nearest(size) < size + Extra
                      THEN Nearest(size) + Fragment ELSE Nearest(size)
             upper == Rounded(size, Fragment)
             reach == IF content < size THEN content + Fragment ELSE upper
             offset == AtMost(content, upper)
  <2>1. upper \in Nat /\ size <= upper /\ upper <= block /\ size + Extra <= block
    BY FragmentsFit
  <2>2. Contents(size, content) = String(Change(size, content), offset, offset, block, reach)
    BY <1>4 DEF Contents, ByFragments
  <2> HIDE DEF block, upper
  <2>3. CASE content = size
    BY <2>1, <2>2, <2>3 DEF Change, AtMost, String, Backed
  <2>4. CASE content > size
    BY <1>1, <2>1, <2>2, <2>4 DEF Change, AtMost, String, Backed
  <2>5. CASE content < size
    BY <1>1, <2>1, <2>2, <2>5 DEF Change, AtMost, String, Backed
  <2>6. QED
    BY <2>3, <2>4, <2>5
<1>5. QED
  BY <1>2, <1>3, <1>4

LEMMA StringsBacked ==
  /\ Backed(NoString)
  /\ \A size, room \in Size : size < room \/ size + room = 0 => Backed(FromString(size, room))
  /\ \A size \in Size : \A short \in BOOLEAN : Backed(FromDefault(size, short))
  /\ \A size \in Size : Backed(String("digest", size, size, size + Extra, size))
<1>1. Extra \in Nat /\ Size \subseteq Nat /\ Width \in Nat /\ Width > Extra
  BY SizeAssumption
<1>2. Backed(NoString)
  BY DEF Backed, NoString, None
<1>3. ASSUME NEW size \in Size, NEW room \in Size, size < room \/ size + room = 0
      PROVE  Backed(FromString(size, room))
  <2> DEFINE left == (room - Extra) % Width
  <2>1. left \in Nat /\ (room >= Extra => left <= room - Extra)
    <3>1. left \in 0 .. Width - 1
      BY <1>1
    <3>2. ASSUME room >= Extra PROVE left <= room - Extra
      <4>1. room - Extra \in Nat
        BY <1>1, <3>2
      <4>2. \A n \in Nat : n % Width <= n
        BY <1>1, Z3T(30)
      <4>3. QED
        BY <4>1, <4>2
    <3>3. QED
      BY <3>1, <3>2
  <2>2. FromString(size, room) =
          LET from == IF room < Extra THEN "wrapped" ELSE "variable"
          IN IF size < left THEN String(from, size, left, room, size)
             ELSE String(from, size, room, room + Extra, size)
    BY DEF FromString
  <2> HIDE DEF left
  <2>3. QED
    BY <1>1, <1>3, <2>1, <2>2 DEF String, Backed
<1>4. ASSUME NEW size \in Size, NEW short \in BOOLEAN
      PROVE  Backed(FromDefault(size, short))
  BY <1>1 DEF FromDefault, String, Backed
<1>5. ASSUME NEW size \in Size
      PROVE  Backed(String("digest", size, size, size + Extra, size))
  BY <1>1 DEF String, Backed
<1>6. QED
  BY <1>2, <1>3, <1>4, <1>5

LEMMA BackedStep == BufferBacked /\ [Next]_vars => BufferBacked'
<1> SUFFICES ASSUME BufferBacked, [Next]_vars
             PROVE  BufferBacked'
  OBVIOUS
<1>1. \A string : interim' = string /\ Backed(string) => BufferBacked'
  BY DEF BufferBacked, Backed
<1>2. interim' = NoString => BufferBacked'
  BY <1>1, StringsBacked
<1>3. interim' = interim => BufferBacked'
  BY DEF BufferBacked
<1>4. CASE \E path \in Path : Ask(path) \/ FileOpen(path) \/ FolderIterate(path)
  BY <1>2, <1>4 DEF Ask, FileOpen, FolderIterate, OnPath, Crash, Refused, Nothing
<1>5. CASE \E path \in Path : FileGetContents(path)
  <2>1. interim' = NoString \/ \E size, content \in Size : interim' = Contents(size, content)
    BY <1>5 DEF FileGetContents, OnPath, Crash, Refused, Nothing
  <2>2. Size \subseteq Nat
    BY SizeAssumption
  <2>3. QED
    BY <1>1, <1>2, <2>1, <2>2, ContentsBacked
<1>6. CASE \E h \in Handle : FileUse(h) \/ FileClose(h)
  BY <1>2, <1>6 DEF FileUse, FileClose, Crash, Refused, Nothing
<1>7. CASE IteratorNext \/ IteratorFullpath \/ IteratorClose
  BY <1>2, <1>7 DEF IteratorNext, IteratorFullpath, IteratorClose, OnIterator
<1>8. CASE \E path \in MountPath, folder \in LocalFolder : MountLocal(path, folder)
  BY <1>2, <1>8 DEF MountLocal, Refused, Nothing
<1>9. CASE EnvRead
  BY <1>1, <1>9, StringsBacked DEF EnvRead, Hands
<1>10. CASE DigestMd5
  BY <1>1, <1>10, StringsBacked DEF DigestMd5, Hands
<1>11. CASE End
  BY <1>3, <1>11 DEF End, iovars
<1>12. CASE UNCHANGED vars
  BY <1>3, <1>12 DEF vars, iovars
<1>13. QED
  BY <1>4, <1>5, <1>6, <1>7, <1>8, <1>9, <1>10, <1>11, <1>12 DEF Next

(* Files of any size, read in fragments of any length, never overrun their *)
(* buffer while they keep their size or grow, and the block of a string    *)
(* has the room of its capacity and of the header                          *)
(* (localfolder.cpp 237-304, std.internals.utils.h 84-97).                 *)
THEOREM BuffersBacked == Spec => []BufferBacked
<1>1. Init => BufferBacked
  BY StringsBacked DEF Init, BufferBacked, Backed
<1>2. QED
  BY <1>1, BackedStep, PTL DEF Spec

-----------------------------------------------------------------------------
(* The entries a program is named.                                         *)

Text == Piece \cup Name \cup {None, "garbled"}

Iterator ==
  [at : 0 .. Slots, adapter : MadeAdapter, listed : Seq(Piece), request : Seq(Text),
   size : Nat, internal : BOOLEAN, entry : Text]

FoldersIn == localpath \in [MadeAdapter -> Seq(Piece)]

(* The folder an iterator lists is that of its adapter, which nothing      *)
(* changes, and what it answers never becomes shorter than the request.    *)
IteratorIn ==
  iter # Closed =>
    /\ iter \in Iterator
    /\ iter.adapter \in 1 .. made
    /\ iter.listed = localpath[iter.adapter]
    /\ iter.size <= Len(iter.request)

LEMMA PiecesAreTexts == Seq(Piece) \subseteq Seq(Text)
BY DEF Text

LEMMA FoldersInit == Init => FoldersIn
<1> SUFFICES ASSUME Init PROVE FoldersIn
  OBVIOUS
<1>1. << "" >> \in Seq(Piece) /\ << >> \in Seq(Piece)
  BY MadePaths, EmptySeq
<1>2. \A a \in MadeAdapter :
        (IF a <= 3 THEN Internal(DefaultFolder[a]) ELSE << >>) \in Seq(Piece)
  <2>1. \A a \in MadeAdapter : a <= 3 => DefaultFolder[a] \in Seq(Piece)
    BY FolderAssumption DEF MadeAdapter
  <2>2. QED
    BY <1>1, <2>1 DEF Internal
<1>3. QED
  BY <1>2 DEF Init, FoldersIn

LEMMA LocalpathSteps ==
  ASSUME [Next]_vars
  PROVE  \/ localpath' = localpath /\ made' = made
         \/ \E folder \in LocalFolder :
              localpath' = [localpath EXCEPT ![made + 1] = Internal(folder)] /\ made' = made + 1
<1> USE DEF OnPath, Crash, Resolve, mvars
<1>1. CASE \E path \in Path : Ask(path) \/ FileOpen(path)
  BY <1>1 DEF Ask, FileOpen
<1>2. CASE \E path \in Path : FileGetContents(path) \/ FolderIterate(path)
  BY <1>2 DEF FileGetContents, FolderIterate
<1>3. CASE \E h \in Handle : FileUse(h) \/ FileClose(h)
  BY <1>3 DEF FileUse, FileClose
<1>4. CASE IteratorNext \/ IteratorFullpath \/ IteratorClose
  BY <1>4 DEF IteratorNext, IteratorFullpath, IteratorClose, OnIterator
<1>5. CASE \E path \in MountPath, folder \in LocalFolder : MountLocal(path, folder)
  BY <1>5 DEF MountLocal, Mount
<1>6. CASE EnvRead \/ DigestMd5
  BY <1>6 DEF EnvRead, DigestMd5, Hands
<1>7. CASE End
  BY <1>7 DEF End, iovars, Close
<1>8. CASE UNCHANGED vars
  BY <1>8 DEF vars, iovars
<1>9. QED
  BY <1>1, <1>2, <1>3, <1>4, <1>5, <1>6, <1>7, <1>8 DEF Next

LEMMA FoldersStay == FoldersIn /\ [Next]_vars => FoldersIn'
<1> SUFFICES ASSUME FoldersIn, [Next]_vars PROVE FoldersIn'
  OBVIOUS
<1>1. \A folder \in LocalFolder : Internal(folder) \in Seq(Piece)
  BY MadePaths, FolderAssumption DEF Internal
<1>2. QED
  BY <1>1, LocalpathSteps DEF FoldersIn

(* What was mounted keeps its folder.                                      *)
LEMMA FoldersKept ==
  ASSUME MInv, FoldersIn, [Next]_vars
  PROVE  \A a \in 1 .. made : localpath'[a] = localpath[a] /\ a \in 1 .. made'
<1>1. made \in Int
  BY DEF MInv, Typed
<1>2. CASE localpath' = localpath /\ made' = made
  BY <1>2
<1>3. CASE \E folder \in LocalFolder :
             localpath' = [localpath EXCEPT ![made + 1] = Internal(folder)] /\ made' = made + 1
  <2>1. \A a \in 1 .. made : a # made + 1 /\ a \in 1 .. made + 1
    BY <1>1
  <2>2. DOMAIN localpath = MadeAdapter /\ 1 .. made \subseteq MadeAdapter
    BY DEF FoldersIn, MInv, Typed, MadeAdapter
  <2>3. QED
    BY <1>3, <2>1, <2>2
<1>4. QED
  BY <1>2, <1>3, LocalpathSteps

LEMMA FolderIterateIn ==
  ASSUME MInv, FoldersIn, IteratorIn, NEW path \in Path, FolderIterate(path), iter' # iter
  PROVE  IteratorIn'
<1>1. PICK i \in 0 .. Slots :
        /\ Resolves(i, path) /\ slot[i].adapter \in MadeAdapter
        /\ iter' = [at |-> i, adapter |-> slot[i].adapter,
                    listed |-> ToLocalPath(slot[i].adapter, << "" >>),
                    request |-> path, size |-> Len(path), internal |-> TRUE, entry |-> None]
  BY DEF FolderIterate, OnPath, Crash, Refused, Nothing
<1>2. made' = made /\ localpath' = localpath /\ ~ over
  BY DEF FolderIterate, OnPath, Active, Crash, Resolve, mvars
<1>3. slot[i].adapter \in 1 .. made
  <2>1. slot[i].adapter \in MadeAdapter /\ Resolves(i, path)
    BY <1>1
  <2>2. i # Slots
    BY <1>2, <2>1 DEF MInv, Rest, MadeAdapter, Devnull, Uninit
  <2>3. i \in 0 .. count - 1
    BY <2>1, <2>2 DEF Resolves
  <2>4. QED
    BY <2>3 DEF MInv, Live
<1>4. ToLocalPath(slot[i].adapter, << "" >>) = localpath[slot[i].adapter]
  <2>1. localpath[slot[i].adapter] \in Seq(Piece)
    BY <1>1 DEF FoldersIn
  <2>2. Tail(<< "" >>) = << >>
    OBVIOUS
  <2>3. QED
    BY <2>1, <2>2, ConcatEmptySeq DEF ToLocalPath
<1>5. path \in Seq(Text) /\ Len(path) \in Nat /\ None \in Text
  <2>1. path \in Seq(Piece) /\ path \in Seq(Text)
    BY PathAssumption, PiecesAreTexts
  <2>2. QED
    BY <2>1, LenProperties DEF Text
<1>6. localpath[slot[i].adapter] \in Seq(Piece)
  BY <1>1 DEF FoldersIn
<1>7. iter' \in Iterator
  BY <1>1, <1>4, <1>5, <1>6 DEF Iterator
<1>8. /\ iter'.adapter = slot[i].adapter /\ iter'.listed = localpath[slot[i].adapter]
      /\ iter'.size = Len(path) /\ iter'.request = path
  BY <1>1, <1>4
<1>9. QED
  BY <1>2, <1>3, <1>5, <1>7, <1>8 DEF IteratorIn

(* The request is cut back, and is followed by one text.                   *)
LEMMA CutBack ==
  ASSUME NEW request \in Seq(Text), NEW size \in Nat, size <= Len(request), NEW text \in Text
  PROVE  LET answer == SubSeq(request, 1, size) \o << text >>
         IN answer \in Seq(Text) /\ Len(answer) = size + 1 /\ answer[size + 1] = text
<1> DEFINE kept == SubSeq(request, 1, size)
<1>1. kept \in Seq(Text) /\ Len(kept) = size
  <2>1. \A i \in 1 .. size : request[i] \in Text
    OBVIOUS
  <2>2. QED
    BY <2>1, SubSeqProperties
<1> HIDE DEF kept
<1>2. << text >> \in Seq(Text) /\ Len(<< text >>) = 1 /\ << text >>[1] = text
  OBVIOUS
<1>3. /\ kept \o << text >> \in Seq(Text) /\ Len(kept \o << text >>) = size + 1
      /\ (kept \o << text >>)[size + 1] = text
  BY <1>1, <1>2, ConcatProperties
<1>4. QED
  BY <1>3 DEF kept

LEMMA FullpathIn ==
  ASSUME MInv, IteratorIn, IteratorFullpath
  PROVE  IteratorIn'
<1>1. /\ iter # Closed /\ made' = made /\ localpath' = localpath
  BY DEF IteratorFullpath, OnIterator, mvars
<1>2. /\ iter \in Iterator /\ iter.adapter \in 1 .. made /\ iter.size <= Len(iter.request)
      /\ iter.listed = localpath[iter.adapter]
  BY <1>1 DEF IteratorIn
<1> DEFINE text == IF localpath[Adapter(iter)] = localpath[iter.adapter]
                   THEN iter.entry ELSE "garbled"
           answer == SubSeq(iter.request, 1, iter.size) \o << text >>
<1>3. iter.request \in Seq(Text) /\ iter.size \in Nat /\ text \in Text
  BY <1>2 DEF Iterator, Text
<1>4. iter' = [iter EXCEPT !.request = answer]
  BY DEF IteratorFullpath
<1> HIDE DEF text
<1>5. answer \in Seq(Text) /\ Len(answer) = iter.size + 1
  BY <1>2, <1>3, CutBack
<1> HIDE DEF answer
<1>6. iter' \in Iterator
  BY <1>2, <1>4, <1>5 DEF Iterator
<1>7. /\ iter'.adapter = iter.adapter /\ iter'.listed = iter.listed
      /\ iter'.size = iter.size /\ iter'.request = answer
  BY <1>2, <1>4 DEF Iterator
<1>8. QED
  BY <1>1, <1>2, <1>3, <1>5, <1>6, <1>7 DEF IteratorIn

LEMMA IteratorNextIn ==
  ASSUME IteratorIn, IteratorNext
  PROVE  IteratorIn'
<1>1. /\ iter # Closed /\ made' = made /\ localpath' = localpath
  BY DEF IteratorNext, OnIterator, mvars
<1>2. /\ iter \in Iterator /\ iter.adapter \in 1 .. made /\ iter.size <= Len(iter.request)
      /\ iter.listed = localpath[iter.adapter]
  BY <1>1 DEF IteratorIn
<1>3. \/ \E name \in Name : iter' = [iter EXCEPT !.entry = name]
      \/ iter' = [iter EXCEPT !.internal = FALSE]
  BY DEF IteratorNext
<1>4. iter' \in Iterator
  BY <1>2, <1>3 DEF Iterator, Text
<1>5. /\ iter'.adapter = iter.adapter /\ iter'.listed = iter.listed
      /\ iter'.size = iter.size /\ iter'.request = iter.request
  BY <1>2, <1>3 DEF Iterator
<1>6. QED
  BY <1>1, <1>2, <1>4, <1>5 DEF IteratorIn

LEMMA IteratorStays == MInv /\ FoldersIn /\ IteratorIn /\ [Next]_vars => IteratorIn'
<1> SUFFICES ASSUME MInv, FoldersIn, IteratorIn, [Next]_vars PROVE IteratorIn'
  OBVIOUS
<1>1. ASSUME iter' = iter PROVE IteratorIn'
  BY <1>1, FoldersKept DEF IteratorIn
<1>2. ASSUME iter' = Closed PROVE IteratorIn'
  BY <1>2 DEF IteratorIn, Closed
<1>3. CASE \E path \in Path : Ask(path) \/ FileGetContents(path) \/ FileOpen(path)
  BY <1>1, <1>3 DEF Ask, FileGetContents, FileOpen, OnPath, Crash, Refused, Nothing
<1>4. CASE \E path \in Path : FolderIterate(path)
  BY <1>1, <1>4, FolderIterateIn
<1>5. CASE \E h \in Handle : FileUse(h) \/ FileClose(h)
  BY <1>1, <1>5 DEF FileUse, FileClose, Crash, Refused, Nothing
<1>6. CASE IteratorNext
  BY <1>6, IteratorNextIn
<1>7. CASE IteratorFullpath
  BY <1>7, FullpathIn
<1>8. CASE IteratorClose
  BY <1>2, <1>8 DEF IteratorClose
<1>9. CASE \E path \in MountPath, folder \in LocalFolder : MountLocal(path, folder)
  BY <1>1, <1>9 DEF MountLocal, Refused, Nothing
<1>10. CASE EnvRead \/ DigestMd5 \/ End \/ UNCHANGED vars
  BY <1>1, <1>10 DEF EnvRead, DigestMd5, Hands, End, vars, iovars
<1>11. QED
  BY <1>3, <1>4, <1>5, <1>6, <1>7, <1>8, <1>9, <1>10 DEF Next

LEMMA OneElement ==
  ASSUME NEW S, NEW s \in Seq(S), Len(s) = 1
  PROVE  s = << s[1] >>
<1>1. s[1] \in S
  <2>1. 1 \in 1 .. Len(s)
    OBVIOUS
  <2>2. QED
    BY <2>1, ElementOfSeq
<1>2. /\ << s[1] >> \in Seq(S) /\ Len(<< s[1] >>) = 1
      /\ \A i \in 1 .. 1 : << s[1] >>[i] = s[i]
  BY <1>1
<1>3. QED
  BY <1>2, SeqEqual

(* The path of an entry, without the mount point that leads to it.         *)
LEMMA AfterMountpoint ==
  ASSUME NEW answer \in Seq(Text), NEW i \in 0 .. Slots, i # Slots,
         Len(answer) = Len(slot[i].path) + 1, Len(slot[i].path) \in Nat
  PROVE  Tail(AdapterPath(i, answer)) = << answer[Len(answer)] >>
<1> DEFINE n == Len(answer)
<1>1. n \in Nat /\ n > 0 /\ n # Len(slot[i].path) /\ n = Len(slot[i].path) + 1
  OBVIOUS
<1> HIDE DEF n
<1> DEFINE one == SubSeq(answer, n, n)
<1>2. AdapterPath(i, answer) = << "" >> \o one
  BY <1>1 DEF AdapterPath, n
<1>3. one \in Seq(Text) /\ Len(one) = 1 /\ one[1] = answer[n]
  <2>1. \A j \in n .. n : answer[j] \in Text
    BY <1>1 DEF n
  <2>2. QED
    BY <1>1, <2>1, SubSeqProperties
<1> HIDE DEF one
<1> DEFINE slash == << "" >>
           both  == slash \o one
           rest  == Tail(both)
<1>4. slash \in Seq(Text) /\ Len(slash) = 1
  <2>1. "" \in Text
    BY PathAssumption DEF Text
  <2>2. QED
    BY <2>1, PiecesType
<1> HIDE DEF slash
<1>5. both \in Seq(Text) /\ Len(both) = 2 /\ both[2] = one[1]
  <2>1. /\ both \in Seq(Text) /\ Len(both) = Len(slash) + Len(one)
        /\ \A j \in 1 .. Len(slash) + Len(one) :
             both[j] = IF j <= Len(slash) THEN slash[j] ELSE one[j - Len(slash)]
    BY <1>3, <1>4, ConcatProperties
  <2> HIDE DEF both
  <2>2. QED
    BY <1>3, <1>4, <2>1
<1> HIDE DEF both
<1>6. rest \in Seq(Text) /\ Len(rest) = 1 /\ rest[1] = both[2]
  <2>1. both # << >>
    <3>1. Len(<< >>) = 0
      OBVIOUS
    <3>2. Len(both) # 0
      BY <1>5
    <3>3. QED
      BY <3>1, <3>2, Zenon
  <2>2. /\ rest \in Seq(Text) /\ Len(rest) = Len(both) - 1
        /\ \A j \in 1 .. Len(rest) : rest[j] = both[j + 1]
    BY <1>5, <2>1, HeadTailProperties
  <2> HIDE DEF rest
  <2>3. QED
    BY <1>5, <2>2
<1> HIDE DEF rest
<1>7. rest = << answer[n] >>
  BY <1>3, <1>5, <1>6, OneElement
<1>8. QED
  BY <1>2, <1>7 DEF rest, both, slash, n

LEMMA EntryNamedStep ==
  ASSUME MInv, FoldersIn, IteratorIn, IteratorFullpath,
         Adapter(iter) = iter.adapter, iter.at < count, Len(slot[iter.at].path) = iter.size
  PROVE  ToLocalPath(iter.adapter, AdapterPath(iter.at, iter'.request))
           = iter.listed \o << iter.entry >>
<1>1. /\ iter \in Iterator /\ iter.size <= Len(iter.request)
      /\ iter.listed = localpath[iter.adapter]
  BY DEF IteratorIn, IteratorFullpath, OnIterator
<1> DEFINE answer == SubSeq(iter.request, 1, iter.size) \o << iter.entry >>
<1>2. iter.request \in Seq(Text) /\ iter.size \in Nat /\ iter.entry \in Text /\ iter.at \in 0 .. Slots
  BY <1>1 DEF Iterator
<1>3. iter'.request = answer
  BY <1>1 DEF IteratorFullpath, Iterator
<1>4. answer \in Seq(Text) /\ Len(answer) = iter.size + 1 /\ answer[iter.size + 1] = iter.entry
  BY <1>1, <1>2, CutBack
<1> HIDE DEF answer
<1>5. iter.at # Slots
  BY <1>2 DEF MInv, Typed
<1>6. Tail(AdapterPath(iter.at, answer)) = << iter.entry >>
  BY <1>2, <1>4, <1>5, AfterMountpoint
<1>7. QED
  BY <1>1, <1>3, <1>6 DEF ToLocalPath

(* However often a program asks, whatever it mounts before and whatever    *)
(* the names are, the full path of an entry of a mounted folder leads back *)
(* to that entry (std.io.cpp 50-70 and 95-110, localfolder.cpp 387-396).   *)
THEOREM EntriesNamed == Spec => EntryNamed
<1> DEFINE EInv == MInv /\ FoldersIn /\ IteratorIn
<1>1. Init => EInv
  BY InitInv, FoldersInit DEF Init, IteratorIn
<1>2. EInv /\ [Next]_vars => EInv'
  <2>1. MInv /\ [Next]_vars => MInv'
    BY StepInv, StepOfTable
  <2>2. QED
    BY <2>1, FoldersStay, IteratorStays
<1>3. EInv /\ [Next]_vars =>
        [ /\ IteratorFullpath
          /\ Adapter(iter) = iter.adapter
          /\ iter.at < count /\ Len(slot[iter.at].path) = iter.size
          => LET n == ToLocalPath(iter.adapter, AdapterPath(iter.at, iter'.request))
             IN n = iter.listed \o << iter.entry >> ]_vars
  BY EntryNamedStep
<1> HIDE DEF EInv
<1>4. QED
  BY <1>1, <1>2, <1>3, PTL DEF Spec, EntryNamed
=============================================================================
