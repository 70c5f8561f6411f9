----------------------------- MODULE MountTable -----------------------------
(***************************************************************************)
(* What the mount points of a thread promise to a program: the adapter     *)
(* that serves a virtual path is the one of the newest mount point whose   *)
(* path is the beginning of it, and, as long as the table is not full, a   *)
(* path that no mount point covers is served by the fallback.  Mountpoints *)
(* shows that the array of details/vm/io.cpp implements this table.        *)
(***************************************************************************)
EXTENDS Naturals, Sequences

CONSTANTS
  Slots,       \* how many mount points the table can hold
  Path,        \* virtual paths, as sequences of the pieces between two `/'
  Adapter,     \* the adapters a program mounts
  Fallback,    \* the adapter of the paths nobody covers
  Unspecified  \* what may answer instead of it once the table is full

VARIABLES
  table,       \* the mount points, the newest one first
  found        \* the last path looked up, and the adapter it led to

Entry == [path : Path, adapter : Adapter]

(* mp is path itself, or the folder it starts with.                        *)
Covers(mp, path) ==
  /\ Len(mp) <= Len(path)
  /\ \A i \in 1 .. Len(mp) : path[i] = mp[i]

Init ==
  /\ table \in Seq(Entry)
  /\ found.adapter = Fallback

Mount ==
  /\ Len(table) < Slots
  /\ table' # << >> /\ Head(table') \in Entry /\ Tail(table') = table
  /\ UNCHANGED found

Leads(path, adapter) ==
  \/ \E k \in 1 .. Len(table) :
       /\ Covers(table[k].path, path)
       /\ \A j \in 1 .. k - 1 : ~ Covers(table[j].path, path)
       /\ adapter = table[k].adapter
  \/ /\ \A j \in 1 .. Len(table) : ~ Covers(table[j].path, path)
     /\ adapter = Fallback \/ (Len(table) = Slots /\ adapter = Unspecified)

Lookup ==
  /\ found'.path \in Path
  /\ Leads(found'.path, found'.adapter)
  /\ UNCHANGED table

(* The thread is destroyed.                                                *)
Close == table' = << >> /\ UNCHANGED found

Next == Mount \/ Lookup \/ Close

Spec == Init /\ [][Next]_<< table, found >>
=============================================================================
