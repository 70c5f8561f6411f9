----------------------------- MODULE VirtualIO -----------------------------
(***************************************************************************)
(* The files and folders of a program: the intrinsics of                   *)
(* details/intrinsic/std.io.cpp, the two adapters of details/io/adapter,   *)
(* and the strings that intrinsics hand over to the program                *)
(* (std.internals.utils.h, std.env.cpp, std.digest.cpp).                   *)
(*                                                                         *)
(* An intrinsic resolves a virtual path with Mountpoints and calls the     *)
(* adapter found.  An open file and an iterator keep the ADDRESS of the    *)
(* adapter, which is an entry of the array: they keep its index here, and  *)
(* call whatever this entry holds when they are used.                      *)
(*                                                                         *)
(* The host's file system is external: a node is the sequence of the names *)
(* that lead to it, other programs may change files at any time, and any   *)
(* request may be refused.  So only what a request leaves in the process   *)
(* is kept: open files, iterators, strings.  The model is the build        *)
(* without assertions.                                                     *)
(***************************************************************************)
EXTENDS Mountpoints

CONSTANTS
  Handle,        \* the nyfile_t a program has at most
  Name,          \* the names of the entries a listing may show
  LocalFolder,   \* the folders given to io.mount
  DefaultFolder, \* the folders of /home, /tmp and /root
  Size,          \* bound of the model: the sizes of files and strings
  Fragment,      \* how much the adapter reads at once
  Extra,         \* config::extraObjectSize
  Width          \* how many values a capacity has (2^32)

ASSUME FolderAssumption ==
  /\ LocalFolder \subseteq Seq(Piece)
  /\ DefaultFolder \in [1 .. 3 -> Seq(Piece)]
ASSUME SizeAssumption ==
  /\ Size \subseteq Nat /\ Extra \in Nat
  /\ Fragment \in Nat /\ Fragment > 2 * Extra
  /\ Width \in Nat /\ Width > Extra

VARIABLES
  localpath,  \* Internal::localpath of each adapter
  file,       \* the files the program has opened
  iter,       \* the iterator it has opened
  interim,    \* the string the last intrinsic handed over (vm->returnValue)
  crashed     \* the process is gone

iovars == << localpath, file, iter, interim, crashed >>
vars   == << mvars, iovars >>

None     == "none"
Closed   == [at |-> -1]
NoString == [from |-> None, size |-> 0, capacity |-> 0, block |-> 0, reach |-> 0]

(* `localpath' stays empty for "/".                                        *)
Internal(folder) == IF folder = << "", "" >> THEN << "" >> ELSE folder

Init ==
  /\ MInit
  /\ localpath = [a \in MadeAdapter |->
                    IF a <= 3 THEN Internal(DefaultFolder[a]) ELSE << >>]
  /\ file = [h \in Handle |-> Closed]
  /\ iter = Closed
  /\ interim = NoString
  /\ crashed = FALSE

-----------------------------------------------------------------------------
(* An intrinsic that takes a path resolves it.  io_resolve answers nullptr *)
(* for an empty path, and its callers dereference what it answers; an      *)
(* entry nobody has written has no functions to call.                      *)

Active  == ~ over /\ ~ crashed
Nothing == UNCHANGED << file, iter >> /\ interim' = NoString

Crash == crashed' = TRUE /\ Nothing

(* The local path followed by the path of the adapter, which starts with a *)
(* slash: nothing is put between them.                                     *)
ToLocalPath(a, path) == localpath[a] \o Tail(path)

(* What an intrinsic does when it is refused, or devnull answers.          *)
Refused == Nothing /\ UNCHANGED crashed

(* Local(i, n) is what it does of the node n with the adapter of entry i.  *)
OnPath(path, Local(_, _)) ==
  /\ Active
  /\ UNCHANGED localpath
  /\ IF path = << "" >> THEN Crash /\ UNCHANGED mvars
     ELSE /\ Resolve(path)
          /\ \E i \in 0 .. Slots :
               /\ Resolves(i, path)
               /\ LET a == slot[i].adapter IN
                  \/ a = Uninit /\ Crash
                  \/ a # Uninit /\ Refused
                  \/ /\ a \in MadeAdapter
                     /\ Local(i, ToLocalPath(a, AdapterPath(i, path)))
                     /\ UNCHANGED crashed

(* Creating, erasing, clearing and testing files and folders, their sizes, *)
(* writing contents: the host alone is changed.  folder_copy is one of     *)
(* them: it resolves its two paths, the second one last, and copies        *)
(* nothing.                                                                *)
Ask(path) == LET Local(i, n) == Nothing IN OnPath(path, Local)

-----------------------------------------------------------------------------
(* Reading a whole file.  The size is asked first; the content may have    *)
(* changed by the time it is read.  `block' is what malloc was asked for,  *)
(* `capacity' what the string is told, `reach' the end of the furthest     *)
(* read the buffer was given to.                                           *)

AtMost(x, y) == IF x < y THEN x ELSE y
Rounded(s, unit) == ((s + unit - 1) \div unit) * unit

String(from, size, capacity, block, reach) ==
  [from |-> from, size |-> size, capacity |-> capacity, block |-> block, reach |-> reach]

(* Files whose size is said to be null are read a fragment after another,  *)
(* until one is not filled.                                                *)
BySmallChunks(content) ==
  LET capacity == Fragment * (content \div Fragment + 1)
      block    == IF capacity < content + Extra THEN capacity + Fragment ELSE capacity
  IN IF content = 0 THEN NoString
     ELSE String("special", content, capacity, block, capacity)

(* A small file in one read.                                               *)
AtOnce(size) == String("file", size, size, size + Extra, size)

(* A big one by fragments, until the size is reached or a read returns     *)
(* nothing: a file that became shorter is asked for more after its end.    *)
Change(size, content) ==
  CASE content = size -> "file" [] content > size -> "grown" [] OTHER -> "shrunk"

Nearest(size) == ((size + Fragment \div 2) \div Fragment) * Fragment

(* A slip: the room of the block header is not part of the rounding.       *)
ByFragmentsTight(size, content) ==
  LET block  == IF Nearest(size) < size THEN Nearest(size) + Fragment ELSE Nearest(size)
      offset == AtMost(content, Rounded(size, Fragment))
      reach  == IF content < size THEN content + Fragment ELSE Rounded(size, Fragment)
  IN String(Change(size, content), offset, offset, block, reach)

ByFragments(size, content) ==
  LET block  == IF Nearest(size) < size + Extra
                THEN Nearest(size) + Fragment ELSE Nearest(size)
      offset == AtMost(content, Rounded(size, Fragment))
      reach  == IF content < size THEN content + Fragment ELSE Rounded(size, Fragment)
  IN String(Change(size, content), offset, offset, block, reach)

Contents(size, content) ==
  IF size = 0 THEN BySmallChunks(content)
  ELSE IF size < Fragment THEN AtOnce(size) ELSE ByFragments(size, content)

(* makeInterimNanycString gives the buffer as it is.                       *)
FileGetContents(path) ==
  LET Local(i, n) ==
        /\ UNCHANGED << file, iter >>
        /\ \E size, content \in Size :
             /\ size \in 1 .. Fragment - 1 => content >= size
             /\ interim' = Contents(size, content)
  IN OnPath(path, Local)

-----------------------------------------------------------------------------
(* Opening a file, listing a folder.                                       *)

(* A slip: what the adapter returns is not compared with its invalid_fd.   *)
FileOpenUnchecked(path) ==
  LET Local(i, n) ==
        \E h \in Handle :
          /\ file[h] = Closed
          /\ file' = [file EXCEPT ![h] = [at |-> i, node |-> n]]
          /\ UNCHANGED iter /\ interim' = NoString
  IN \/ OnPath(path, Local)
     \/ /\ Active /\ path # << "" >> /\ Resolve(path) /\ ~ Covered(path)
        /\ Local(Slots, path)
        /\ UNCHANGED << localpath, crashed >>

(* devnull opens no file: what it returns is its invalid_fd.  The handle   *)
(* holds the address of the adapter and the stream.                        *)
FileOpen(path) ==
  LET Local(i, n) ==
        \E h \in Handle :
          /\ file[h] = Closed
          /\ file' = [file EXCEPT ![h] = [at |-> i, node |-> n]]
          /\ UNCHANGED iter /\ interim' = NoString
  IN OnPath(path, Local)

(* The path given to the adapter is the variable `adapterpath', which      *)
(* nothing sets, not the one that was resolved: the folder listed is the   *)
(* local folder of the adapter itself.                                     *)
FolderIterate(path) ==
  LET Local(i, n) ==
        /\ iter = Closed
        /\ iter' = [at |-> i, adapter |-> slot[i].adapter,
                    listed |-> ToLocalPath(slot[i].adapter, << "" >>),
                    request |-> path, size |-> Len(path), internal |-> TRUE, entry |-> None]
        /\ UNCHANGED file /\ interim' = NoString
  IN OnPath(path, Local)

-----------------------------------------------------------------------------
(* Open files and iterators.                                               *)

(* The adapter found today where the handle or the iterator points.        *)
Adapter(x) == slot[x.at].adapter

(* Reading, writing, flushing, seeking: the stream alone is changed.       *)
FileUse(h) ==
  /\ Active /\ UNCHANGED << mvars, localpath >>
  /\ file[h] # Closed
  /\ IF Adapter(file[h]) = Uninit THEN Crash ELSE Refused

(* The stream is deleted through the adapter, then the handle is freed.    *)
FileClose(h) ==
  /\ Active /\ UNCHANGED << mvars, localpath >>
  /\ file[h] # Closed
  /\ IF Adapter(file[h]) = Uninit THEN Crash
     ELSE /\ file' = [file EXCEPT ![h] = Closed]
          /\ interim' = NoString
          /\ UNCHANGED << iter, crashed >>

OnIterator ==
  /\ Active /\ UNCHANGED << mvars, localpath, file, crashed >>
  /\ iter # Closed
  /\ interim' = NoString

(* The next entry, or the end, where the host frees its own data.          *)
IteratorNext ==
  /\ OnIterator
  /\ iter.internal
  /\ \/ \E name \in Name : iter' = [iter EXCEPT !.entry = name]
     \/ iter' = [iter EXCEPT !.internal = FALSE]

(* A slip: the request is not cut back to what was asked.                  *)
IteratorFullpathGrowing ==
  /\ OnIterator
  /\ iter.internal /\ iter.entry # None
  /\ Len(iter.request) < iter.size + 2
  /\ iter' = [iter EXCEPT !.request = @ \o << iter.entry >>]

(* The request, cut back to what was asked, then the name of the entry     *)
(* without the local path of the adapter: as many characters as the one    *)
(* found today has.  adapterpathSize is always 0.                          *)
IteratorFullpath ==
  /\ OnIterator
  /\ iter.internal /\ iter.entry # None
  /\ iter' = [iter EXCEPT !.request =
       SubSeq(@, 1, iter.size)
         \o << IF localpath[Adapter(iter)] = localpath[iter.adapter]
               THEN iter.entry ELSE "garbled" >>]

IteratorClose == OnIterator /\ iter' = Closed

-----------------------------------------------------------------------------
(* The mount points of the thread, the strings of other intrinsics, the    *)
(* end of the thread.                                                      *)

MountLocal(path, folder) ==
  /\ Active
  /\ Mount(path)
  /\ localpath' = [localpath EXCEPT ![made + 1] = Internal(folder)]
  /\ Refused

Hands(string) ==
  /\ Active
  /\ UNCHANGED << mvars, localpath, file, iter, crashed >>
  /\ interim' = string

(* A yuni::String of `size' characters in a block of `room': its block is  *)
(* kept when it has room for the header, else reallocated with it.  The    *)
(* difference is unsigned: that of an empty string without a block wraps.  *)
FromString(size, room) ==
  LET left == (room - Extra) % Width
      from == IF room < Extra THEN "wrapped" ELSE "variable"
  IN IF size < left THEN String(from, size, left, room, size)
     ELSE String(from, size, room, room + Extra, size)

(* The default value of a variable, copied to a block of its size and a    *)
(* terminating zero when it is short, else to one with the header.         *)
FromDefault(size, short) ==
  String("default", size, size, IF short THEN size + 1 ELSE size + Extra, size)

EnvRead ==
  \/ \E size, room \in Size :
       (size < room \/ size + room = 0) /\ Hands(FromString(size, room))
  \/ \E size \in Size, short \in BOOLEAN : size > 0 /\ Hands(FromDefault(size, short))

DigestMd5 == \E size \in Size : size > 0 /\ Hands(String("digest", size, size, size + Extra, size))

End ==
  /\ Active
  /\ Close
  /\ UNCHANGED iovars

Next ==
  \/ \E path \in Path :
       \/ Ask(path) \/ FileGetContents(path) \/ FileOpen(path) \/ FolderIterate(path)
  \/ \E h \in Handle : FileUse(h) \/ FileClose(h)
  \/ IteratorNext \/ IteratorFullpath \/ IteratorClose
  \/ \E path \in MountPath, folder \in LocalFolder : MountLocal(path, folder)
  \/ EnvRead \/ DigestMd5 \/ End

Spec == Init /\ [][Next]_vars

-----------------------------------------------------------------------------
(* An open file is always used through the adapter of a local folder that  *)
(* is mounted, although each io.mount moves the entries under the address  *)
(* the handle keeps (std.io.cpp 262-285, vm/io.cpp 90-94): never through   *)
(* devnull, an entry nobody has written, or a released adapter.            *)
HandleServed ==
  ~ over => \A h \in Handle : file[h] # Closed =>
    /\ file[h].at < count
    /\ Adapter(file[h]) \in 1 .. made
    /\ released[Adapter(file[h])] = 0

(* What the adapter reads fits in its buffer unless the file becomes       *)
(* shorter while it is read; and the block of a string has the room its    *)
(* capacity announces and that of the header memfree counts with it        *)
(* (localfolder.cpp 237-304, std.internals.utils.h 84-97): files in /proc, *)
(* default values and empty variables are the exceptions the README names. *)
BufferBacked ==
  /\ interim.from \in {"file", "grown"} => interim.reach <= interim.block
  /\ interim.from \in {"file", "variable", "digest"} =>
       interim.capacity + Extra <= interim.block
  /\ interim.size <= interim.capacity

(* The full path a program is given for an entry leads the same adapter    *)
(* back to that entry, however often it was asked for others before, when  *)
(* what is listed is a mount point itself and nothing was mounted since    *)
(* (std.io.cpp 50-70 and 95-110, localfolder.cpp 387-396).                 *)
EntryNamed ==
  [][ /\ IteratorFullpath
      /\ Adapter(iter) = iter.adapter
      /\ iter.at < count /\ Len(slot[iter.at].path) = iter.size
      => LET n == ToLocalPath(iter.adapter, AdapterPath(iter.at, iter'.request))
         IN n = iter.listed \o << iter.entry >> ]_vars
=============================================================================
