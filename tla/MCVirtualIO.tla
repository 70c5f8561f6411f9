---------------------------- MODULE MCVirtualIO ----------------------------
(***************************************************************************)
(* A program that mounts a folder over /home or under /, opens one file    *)
(* and lists one folder.                                                   *)
(***************************************************************************)
EXTENDS VirtualIO

Pieces == { "", "home", "tmp", "root", "a", "x", "long", "h", "t", "sub" }
Paths  == { << "", "home" >>, << "", "home", "a" >>, << "", "x" >>, << "" >> }

Long       == << "", "long" >>
MountPaths == { << "", "home", "" >>, << "", "" >>, Long }
LongPaths  == { Long }

Folders  == { << "", "h", "sub" >> }
Defaults == << << "", "h" >>, << "", "t" >>, << "", "" >> >>

(* Nothing, less than a fragment of 4, one fragment, two.                  *)
Sizes == {0, 3, 4, 8}
=============================================================================
