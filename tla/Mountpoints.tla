---------------------------- MODULE Mountpoints ----------------------------
(***************************************************************************)
(* The mount points of a thread (details/vm/io.h, details/vm/io.cpp) and   *)
(* the adapters they own.                                                  *)
(*                                                                         *)
(* A path is the sequence of its pieces between two slashes: "/home/a" is  *)
(* << "", "home", "a" >>, "/" is << "", "" >>, "/home/" is                 *)
(* << "", "home", "" >>.  So a mount point is the beginning of a path, up  *)
(* to a slash or to its end, exactly when its pieces are the first pieces  *)
(* of that path.                                                           *)
(*                                                                         *)
(* An adapter of a local folder owns an allocation (`Internal').  Adapters *)
(* are numbered in the order in which they are made; `released' counts how *)
(* many times the allocation of each one is deleted.                       *)
(*                                                                         *)
(* m_fallback follows m_mounts in the class, and is the entry `Slots' of   *)
(* the array here: this is what an index one past its end designates.      *)
(***************************************************************************)
EXTENDS Integers, Sequences, FiniteSets

CONSTANTS
  Slots,        \* entries of the array (32)
  Piece,        \* the texts there are between the slashes of a path
  Path,         \* the paths a program asks for
  MountPath,    \* the paths a program gives to io.mount
  TooLong,      \* those of 256 characters and more
  MaxAdapters   \* bound of the model: how many adapters a program makes

ASSUME SlotsAssumption == Slots \in Nat /\ Slots > 3
ASSUME PathAssumption ==
  /\ {"", "home", "tmp", "root"} \subseteq Piece
  /\ Path \subseteq Seq(Piece)
  /\ MountPath \subseteq Seq(Piece) \ {<< >>}
ASSUME MaxAdaptersAssumption == MaxAdapters \in Nat /\ MaxAdapters >= 3

VARIABLES
  slot,         \* m_mounts and m_fallback
  count,        \* m_count
  made,         \* the number of adapters of a local folder made so far
  released,     \* how many times each was released
  found,        \* the last path resolved, and the adapter it led to
  over          \* the thread is destroyed

mvars == << slot, count, made, released, found, over >>

Devnull == 0      \* nyio_adapter_init_devnull owns nothing
Uninit  == -1     \* the adapter of an entry nobody has written
MadeAdapter == 1 .. MaxAdapters

Entry(path, adapter) == [path |-> path, adapter |-> adapter]
Unwritten == Entry(<< "" >>, Uninit)

(* The constructor: /home, /tmp and /root.                                 *)
MInit ==
  /\ slot = [i \in 0 .. Slots |->
               CASE i = 0     -> Entry(<< "", "home" >>, 1)
                 [] i = 1     -> Entry(<< "", "tmp" >>, 2)
                 [] i = 2     -> Entry(<< "", "root" >>, 3)
                 [] i = Slots -> Entry(<< "" >>, Devnull)
                 [] OTHER     -> Unwritten]
  /\ count = 3
  /\ made = 3
  /\ released = [a \in MadeAdapter |-> 0]
  /\ found = [path |-> << >>, adapter |-> Devnull]
  /\ over = FALSE

-----------------------------------------------------------------------------
(* `path[msize] == '/'' and memcmp, or the same size and memcmp.           *)
Covers(mp, path) ==
  /\ Len(mp) <= Len(path)
  /\ \A i \in 1 .. Len(mp) : path[i] = mp[i]

(* The entry resolve() stops at.                                           *)
Serves(i, path) ==
  /\ Covers(slot[i].path, path)
  /\ \A j \in 0 .. i - 1 : ~ Covers(slot[j].path, path)

Covered(path) == \E i \in 0 .. count - 1 : Covers(slot[i].path, path)

Resolves(i, path) ==
  IF Covered(path) THEN i \in 0 .. count - 1 /\ Serves(i, path) ELSE i = Slots

(* The path the adapter is given: the whole path for the fallback, else    *)
(* what follows the mount point, or "/".                                   *)
AdapterPath(i, path) ==
  LET size == Len(slot[i].path) IN
  IF i = Slots THEN path
  ELSE IF Len(path) = size THEN << "", "" >>
       ELSE << "" >> \o SubSeq(path, size + 1, Len(path))

Resolve(path) ==
  /\ ~ over
  /\ \E i \in 0 .. Slots :
       /\ Resolves(i, path)
       /\ found' = [path |-> path, adapter |-> slot[i].adapter]
  /\ UNCHANGED << slot, count, made, released, over >>

(* trimRight('/'), and "/" when nothing is left.                           *)
Trimmed(path) ==
  LET kept == {n \in 1 .. Len(path) :
                 /\ path[n] # ""
                 /\ \A m \in n + 1 .. Len(path) : path[m] = ""}
  IN IF kept = {} THEN << "", "" >>
     ELSE SubSeq(path, 1, CHOOSE n \in kept : TRUE)

Accepts(path) == count < Slots /\ path \notin TooLong

(* A slip: the new entry is put at the end of the array.                   *)
AddLast(path, adapter) ==
  /\ slot' = [slot EXCEPT ![count] = Entry(Trimmed(path), adapter)]
  /\ count' = count + 1

(* The entries are moved one by one from the last to the first, starting   *)
(* with the one after the last: the loop begins at the count it has just   *)
(* incremented.                                                            *)
Add(path, adapter) ==
  /\ slot' = [i \in 0 .. Slots |->
                CASE i = 0 -> Entry(Trimmed(path), adapter)
                  [] i > 0 /\ i <= count + 1 /\ count # 0 -> slot[i - 1]
                  [] OTHER -> slot[i]]
  /\ count' = count + 1

(* A slip: the input adapter is not reset, and its owner releases it too.  *)
MountUnreset(path) ==
  /\ ~ over
  /\ made < MaxAdapters
  /\ made' = made + 1
  /\ released' = [released EXCEPT ![made + 1] = 1]
  /\ IF Accepts(path) THEN Add(path, made + 1) ELSE UNCHANGED << slot, count >>
  /\ UNCHANGED << found, over >>

(* __nanyc_io_mount_local makes the adapter, and releases it when the      *)
(* table did not take it.                                                  *)
Mount(path) ==
  /\ ~ over
  /\ made < MaxAdapters
  /\ made' = made + 1
  /\ IF Accepts(path)
     THEN Add(path, made + 1) /\ UNCHANGED released
     ELSE released' = [released EXCEPT ![made + 1] = @ + 1] /\ UNCHANGED << slot, count >>
  /\ UNCHANGED << found, over >>

(* The mount points that hold an adapter.                                  *)
Held(adapter) == {i \in 0 .. count - 1 : slot[i].adapter = adapter}

(* The destructor releases every entry, not the fallback.                  *)
Close ==
  /\ ~ over
  /\ over' = TRUE
  /\ released' = [a \in MadeAdapter |-> released[a] + Cardinality(Held(a))]
  /\ count' = 0
  /\ UNCHANGED << slot, made, found >>

MNext ==
  \/ \E path \in Path : Resolve(path)
  \/ \E path \in MountPath : Mount(path)
  \/ Close

MountSpec == MInit /\ [][MNext]_mvars

-----------------------------------------------------------------------------
(* Each adapter is either held by exactly one mount point, or was released *)
(* exactly once: moving the entries, refusing a mount point and destroying *)
(* the thread lose none and release none twice (details/vm/io.cpp 49-52    *)
(* and 87-106, details/intrinsic/std.io.cpp 342-353).                      *)
OwnedOnce ==
  \A a \in 1 .. made : released[a] + Cardinality(Held(a)) = 1

(* The array and its count implement the table of MountTable, the newest   *)
(* mount point first: whatever was mounted before, a path is served by the *)
(* newest mount point that covers it (details/vm/io.h 32-37).              *)
AllPaths == Seq(Piece)

Table == INSTANCE MountTable WITH
  Path        <- AllPaths,
  Adapter     <- MadeAdapter,
  Fallback    <- Devnull,
  Unspecified <- Uninit,
  table       <- [i \in 1 .. count |-> slot[i - 1]]

ImplementsMountTable == Table!Spec
=============================================================================
