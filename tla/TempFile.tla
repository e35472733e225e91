------------------------------ MODULE TempFile ------------------------------
(***************************************************************************)
(* The file writes of internal/runtime/manager.go.  Every managed file is  *)
(* written by writeAtomic: the content goes to the fixed path              *)
(* "<path>.tmp" and that path is renamed over the target.  Because the     *)
(* temporary path is the same for every writer, two writers of one target  *)
(* share it.  This module holds the operators on the state of ONE target   *)
(* path:                                                                   *)
(*                                                                         *)
(*   data  what a reader of the target sees                                *)
(*   tmp   what the temporary path holds                                   *)
(*   fd    where each writer's open descriptor points: descriptors follow  *)
(*         the inode, so a rename by another writer moves "tmp" to "data"  *)
(*         and a later rename detaches "data"                              *)
(*                                                                         *)
(* A content is a record with a field form; the forms "none" (no file),    *)
(* "blank" (truncated, nothing written) and "torn" (bytes of two contents) *)
(* are the ones no writer intends.                                         *)
(***************************************************************************)

\* The contents that are not what some writer meant to write.
Unwritten(form, none) == [form |-> form, acct |-> none, url |-> none, key |-> none, model |-> none]

\* Mutant: the target itself is opened and truncated.
OpenTmp_InPlace(path, w, blank) == [path EXCEPT !.data = blank, !.fd[w] = "data"]

\* os.WriteFile opens the temporary path with O_CREATE|O_TRUNC.
OpenTmp(path, w, blank) ==
  [path EXCEPT !.tmp = blank, !.fd[w] = "tmp"]

\* The bytes land at offset 0 of an inode that may by then hold another
\* writer's content: a shorter content leaves the tail of the longer one.
Overwrite(old, new, torn) ==
  IF old \in {new, [torn EXCEPT !.form = "blank"]} THEN {new} ELSE {new, torn}

\* The write and close of os.WriteFile: the possible next states of the path.
WriteTmp(path, w, content, torn) ==
  CASE path.fd[w] = "tmp"  -> {[path EXCEPT !.tmp = c, !.fd[w] = "closed"] :
                                 c \in Overwrite(path.tmp, content, torn)}
    [] path.fd[w] = "data" -> {[path EXCEPT !.data = c, !.fd[w] = "closed"] :
                                 c \in Overwrite(path.data, content, torn)}
    [] OTHER               -> {[path EXCEPT !.fd[w] = "closed"]}

\* os.Rename fails with ENOENT when another writer has renamed the shared
\* temporary file away.
CanRename(path) == path.tmp.form # "none"

\* Where a descriptor points after the temporary path replaced the target.
AfterRename(at) ==
  CASE at = "tmp" -> "data" [] at = "data" -> "gone" [] OTHER -> at

\* os.Rename(path + ".tmp", path).
RenameTmp(path, none) ==
  [data |-> path.tmp, tmp |-> none, fd |-> [v \in DOMAIN path.fd |-> AfterRename(path.fd[v])]]

\* A writer that fails, or a process that dies, closes its descriptor and
\* leaves the temporary file behind.
CloseFd(path, w) == [path EXCEPT !.fd[w] = "closed"]
=============================================================================
