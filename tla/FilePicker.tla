------------------------------ MODULE FilePicker ------------------------------
(***************************************************************************)
(* The file picker on a desktop (plugins/file-picker): dialogs that give   *)
(* numbers for paths, the client's OwnedPickedFile shared by an Arc, and   *)
(* readers and writers that adopt a raw descriptor from the wire and keep  *)
(* the Arc alive with them.                                                *)
(*                                                                         *)
(* The number of a file and the descriptor of an open each travel as an    *)
(* integer; whoever lets the future of a call go lets them go as well.     *)
(***************************************************************************)
EXTENDS Naturals, Sequences, FiniteSets, FiniteSetsExt, SequencesExt, Functions

CONSTANTS
  Paths,
  Dialogs,   \* calls of pick_file, pick_files and save_file
  Opens,     \* calls of open_reader, open_writer and path
  KindsOf,   \* bound: what each of them may be
  None

FilePickerAssumption ==
  /\ IsFiniteSet(Paths) /\ None \notin Opens
  /\ KindsOf \in [Opens -> SUBSET {"read", "write", "path"}]

VARIABLES
  hooked,    \* the application installed the release hook
  purged,    \* the application called purge
  disk,      \* paths with a file; what is in the files is left out
  files,     \* the host's map: number -> path
  next_id,
  dialog,    \* dialog call -> its progress
  owners,    \* number -> who has the Arc of its OwnedPickedFile
  letgo,     \* numbers whose NativeHandle was dropped and not yet released
  open,      \* open call -> its progress, and then its reader or writer
  fds        \* descriptor -> the open it was made by

hostVars == <<files, next_id>>
vars == <<hooked, purged, disk, files, next_id, dialog, owners, letgo, open, fds>>

Closed == [state |-> "idle", kind |-> "none", id |-> 0, fd |-> 0, err |-> "none"]

TypeOK ==
  /\ hooked \in BOOLEAN /\ purged \in BOOLEAN
  /\ disk \subseteq Paths
  /\ DOMAIN files \subseteq 1..(next_id - 1) /\ Range(files) \subseteq Paths
  /\ \A k \in Dialogs :
       /\ dialog[k].state \in {"idle", "shown", "answered", "done", "abandoned"}
       /\ dialog[k].kind \in {"none", "pick_file", "pick_files", "save_file"}
       /\ dialog[k].ids \in Seq(1..(next_id - 1))
  /\ DOMAIN owners \subseteq 1..(next_id - 1)
  /\ letgo \subseteq 1..(next_id - 1)
  /\ \A o \in Opens :
       /\ open[o].state \in {"idle", "asked", "answered", "reading", "file", "closed",
                             "failed", "abandoned", "lost"}
       /\ open[o].kind \in {"none", "read", "write", "path"}
  /\ Range(fds) \subseteq Opens

Init ==
  /\ hooked \in BOOLEAN
  /\ purged = FALSE
  /\ disk \in SUBSET Paths
  /\ files = <<>> /\ next_id = 1
  /\ dialog = [k \in Dialogs |-> [state |-> "idle", kind |-> "none", ids |-> <<>>, err |-> FALSE]]
  /\ owners = <<>>
  /\ letgo = {}
  /\ open = [o \in Opens |-> Closed]
  /\ fds = <<>>
-----------------------------------------------------------------------------
(* Dialogs.                                                                *)

Show(k, kind) ==
  /\ dialog[k].state = "idle"
  /\ dialog' = [dialog EXCEPT ![k].state = "shown", ![k].kind = kind]
  /\ UNCHANGED <<hooked, purged, disk, hostVars, owners, letgo, open, fds>>

\* alloc and alloc_many: the next numbers, in order, for the chosen paths.
\* The caller may be gone, the dialog stays until it is answered.
alloc_many(k, paths) ==
  LET ids == [i \in DOMAIN paths |-> next_id + i - 1] IN
  /\ next_id' = next_id + Len(paths)
  /\ files' = [n \in DOMAIN files \cup Range(ids) |->
                 IF n \in DOMAIN files THEN files[n] ELSE paths[n - next_id + 1]]
  /\ dialog' = [dialog EXCEPT ![k].ids = ids,
                              ![k].state = IF @ = "shown" THEN "answered" ELSE "done"]

Chosen(k) == dialog[k].state \in {"shown", "abandoned"} /\ dialog[k].kind # "none"

\* One file or none.
pick_file(k) ==
  /\ Chosen(k) /\ dialog[k].kind = "pick_file"
  /\ \E paths \in {<<>>} \cup {<<p>> : p \in disk} :
       alloc_many(k, paths)
  /\ UNCHANGED <<hooked, purged, disk, owners, letgo, open, fds>>

\* Any number of files, whatever the configuration asks for.
pick_files(k) ==
  /\ Chosen(k) /\ dialog[k].kind = "pick_files"
  /\ \E chosen \in SUBSET disk :
       alloc_many(k, SetToSeq(chosen))
  /\ UNCHANGED <<hooked, purged, disk, owners, letgo, open, fds>>

\* A place to save: the file is made if it is not there, or it cannot be
\* made and no number is given.
save_file(k) ==
  /\ Chosen(k) /\ dialog[k].kind = "save_file"
  /\ \/ \E p \in Paths :
          /\ disk' = disk \cup {p}
          /\ alloc_many(k, <<p>>)
     \/ alloc_many(k, <<>>) /\ UNCHANGED disk
     \/ /\ dialog' = [dialog EXCEPT ![k].state = IF @ = "shown" THEN "answered" ELSE "done",
                                    ![k].err = TRUE]
        /\ UNCHANGED <<disk, hostVars>>
  /\ UNCHANGED <<hooked, purged, owners, letgo, open, fds>>

\* pick_file_owned and its like: each number becomes a NativeHandle, which the
\* application shares.
AdoptPicked(k) ==
  /\ dialog[k].state = "answered"
  /\ dialog' = [dialog EXCEPT ![k].state = "done"]
  /\ owners' = [n \in DOMAIN owners \cup Range(dialog[k].ids) |->
                  IF n \in DOMAIN owners THEN owners[n] ELSE {None}]
  /\ UNCHANGED <<hooked, purged, disk, hostVars, letgo, open, fds>>

\* The caller goes away before its answer.
AbandonDialog(k) ==
  /\ dialog[k].state \in {"shown", "answered"}
  /\ dialog' = [dialog EXCEPT ![k].state = IF @ = "shown" THEN "abandoned" ELSE "done"]
  /\ UNCHANGED <<hooked, purged, disk, hostVars, owners, letgo, open, fds>>
-----------------------------------------------------------------------------
(* Owners.                                                                 *)

\* One owner of the Arc less; with the last the NativeHandle is dropped.
DropArc(n, who) ==
  /\ owners' = [owners EXCEPT ![n] = @ \ {who}]
  /\ letgo' = IF owners[n] = {who} THEN letgo \cup {n} ELSE letgo

\* The application (which stands as None) drops its Arc.
DropPicked(n) ==
  /\ n \in DOMAIN owners /\ None \in owners[n]
  /\ DropArc(n, None)
  /\ UNCHANGED <<hooked, purged, disk, hostVars, dialog, open, fds>>

\* The release runs the hook, if it is there.
install_release_hook(n) ==
  /\ n \in letgo
  /\ letgo' = letgo \ {n}
  /\ files' = IF hooked THEN [m \in DOMAIN files \ {n} |-> files[m]] ELSE files
  /\ UNCHANGED <<hooked, purged, disk, next_id, dialog, owners, open, fds>>

\* "Manual escape hatch when the release hook is not wired up."
purge ==
  /\ ~hooked /\ ~purged
  /\ purged' = TRUE
  /\ files' = <<>>
  /\ UNCHANGED <<hooked, disk, next_id, dialog, owners, letgo, open, fds>>
-----------------------------------------------------------------------------
(* Reading and writing.                                                    *)

\* Variant: the number is passed on and the Arc is not.
open_by_number(o, n, kind) ==
  /\ open[o].state = "idle"
  /\ n \in DOMAIN owners /\ None \in owners[n]
  /\ open' = [open EXCEPT ![o].state = "asked", ![o].kind = kind, ![o].id = n]
  /\ UNCHANGED <<hooked, purged, disk, hostVars, dialog, owners, letgo, fds>>

\* PickedFileReader::open and PickedFileWriter::open hold a clone of the Arc
\* over the call, and so does whoever asks for the path.
open_keeping(o, n, kind) ==
  /\ open[o].state = "idle"
  /\ n \in DOMAIN owners /\ None \in owners[n]
  /\ open' = [open EXCEPT ![o].state = "asked", ![o].kind = kind, ![o].id = n]
  /\ owners' = [owners EXCEPT ![n] = @ \cup {o}]
  /\ UNCHANGED <<hooked, purged, disk, hostVars, dialog, letgo, fds>>

AskedFor(o, kind) == open[o].state \in {"asked", "abandoned"} /\ open[o].kind = kind

\* The host answers with an error; there may be nobody to hear it.
Fails(o, err) ==
  open' = [open EXCEPT ![o].err = err, ![o].state = IF @ = "asked" THEN "answered" ELSE "lost"]

lookup(o) == open[o].id \in DOMAIN files

NotFound(o) ==
  /\ \E kind \in {"read", "write", "path"} : AskedFor(o, kind)
  /\ ~lookup(o) /\ Fails(o, "NotFound")
  /\ UNCHANGED <<hooked, purged, disk, hostVars, dialog, owners, letgo, fds>>

\* The lowest descriptor that is free, given away by into_raw_fd.
raw_from_file(o) ==
  LET fd == Min((1..(Cardinality(DOMAIN fds) + 1)) \ DOMAIN fds) IN
  /\ fds' = [n \in DOMAIN fds \cup {fd} |-> IF n = fd THEN o ELSE fds[n]]
  /\ open' = [open EXCEPT ![o].fd = fd, ![o].state = IF @ = "asked" THEN "answered" ELSE "lost"]

Cannot(o) == Fails(o, "Io") /\ UNCHANGED fds

open_read(o) ==
  /\ AskedFor(o, "read") /\ lookup(o)
  /\ IF files[open[o].id] \notin disk THEN Cannot(o) ELSE raw_from_file(o)
  /\ UNCHANGED <<hooked, purged, disk, hostVars, dialog, owners, letgo>>

\* The file is not made again for a writer.
open_write(o) ==
  /\ AskedFor(o, "write") /\ lookup(o)
  /\ IF files[open[o].id] \notin disk THEN Cannot(o) ELSE raw_from_file(o)
  /\ UNCHANGED <<hooked, purged, disk, hostVars, dialog, owners, letgo>>

path(o) ==
  /\ AskedFor(o, "path") /\ lookup(o)
  /\ open' = [open EXCEPT ![o].state = IF @ = "asked" THEN "answered" ELSE "lost"]
  /\ UNCHANGED <<hooked, purged, disk, hostVars, dialog, owners, letgo, fds>>

\* The call returns: the reader or writer has the descriptor and the Arc, an
\* error or a path lets the Arc go.
Opened(o) ==
  /\ open[o].state = "answered"
  /\ \/ /\ open[o].fd # 0
        /\ open' = [open EXCEPT ![o].state = "reading"]
        /\ UNCHANGED <<owners, letgo>>
     \/ /\ open[o].fd = 0
        /\ open' = [open EXCEPT ![o].state = IF open[o].err = "none" THEN "closed" ELSE "failed"]
        /\ DropArc(open[o].id, o)
  /\ UNCHANGED <<hooked, purged, disk, hostVars, dialog, fds>>

\* The future is dropped with its Arc; the host may still answer, and the
\* descriptor in the answer is nobody's.
AbandonOpen(o) ==
  /\ open[o].state \in {"asked", "answered"}
  /\ open' = [open EXCEPT ![o].state = IF @ = "asked" THEN "abandoned" ELSE "lost"]
  /\ DropArc(open[o].id, o)
  /\ UNCHANGED <<hooked, purged, disk, hostVars, dialog, fds>>

\* into_inner: the file goes on by itself.
into_inner(o) ==
  /\ open[o].state = "reading"
  /\ open' = [open EXCEPT ![o].state = "file"]
  /\ DropArc(open[o].id, o)
  /\ UNCHANGED <<hooked, purged, disk, hostVars, dialog, fds>>

\* The descriptor is closed by the File it was wrapped in.
Close(o) ==
  /\ fds' = [n \in DOMAIN fds \ {open[o].fd} |-> fds[n]]
  /\ open' = [open EXCEPT ![o].state = "closed"]

DropReader(o) ==
  /\ open[o].state = "reading" /\ Close(o) /\ DropArc(open[o].id, o)
  /\ UNCHANGED <<hooked, purged, disk, hostVars, dialog>>

DropFile(o) ==
  /\ open[o].state = "file" /\ Close(o)
  /\ UNCHANGED <<hooked, purged, disk, hostVars, dialog, owners, letgo>>

\* Somebody removes the file.
Unlink(p) ==
  /\ p \in disk
  /\ disk' = disk \ {p}
  /\ UNCHANGED <<hooked, purged, hostVars, dialog, owners, letgo, open, fds>>
-----------------------------------------------------------------------------
Next ==
  \/ \E k \in Dialogs :
       \/ \E kind \in {"pick_file", "pick_files", "save_file"} : Show(k, kind)
       \/ pick_file(k) \/ pick_files(k) \/ save_file(k) \/ AdoptPicked(k) \/ AbandonDialog(k)
  \/ \E n \in DOMAIN owners :
       \/ DropPicked(n) \/ install_release_hook(n)
       \/ \E o \in Opens : \E kind \in KindsOf[o] : open_keeping(o, n, kind)
  \/ \E o \in Opens :
       \/ NotFound(o) \/ open_read(o) \/ open_write(o) \/ path(o) \/ Opened(o) \/ AbandonOpen(o)
       \/ into_inner(o) \/ DropReader(o) \/ DropFile(o)
  \/ purge
  \/ \E p \in Paths : Unlink(p)

Spec == Init /\ [][Next]_vars
-----------------------------------------------------------------------------
(* Properties.                                                             *)

\* A number that somebody owns is in the host's map until purge: an open or a
\* path asked for by an owner is never answered with NotFound, whoever else
\* drops the file meanwhile.  (fd_bridge.rs: "is not released even if the
\* caller's own Arc is dropped first".)
OwnedIsFound ==
  /\ \A n \in DOMAIN owners : owners[n] # {} /\ ~purged => n \in DOMAIN files
  /\ \A o \in Opens : open[o].state \in {"answered", "failed"} /\ open[o].err = "NotFound" => purged

\* A descriptor belongs to one open, whose file has it or whose caller is
\* gone; a file that is open has its descriptor.
DescriptorsOwnedOnce ==
  /\ \A fd \in DOMAIN fds :
       /\ open[fds[fd]].fd = fd
       /\ open[fds[fd]].state \in {"answered", "reading", "file", "lost"}
  /\ \A o \in Opens : open[o].state \in {"reading", "file"} =>
       open[o].fd \in DOMAIN fds /\ fds[open[o].fd] = o

\* What the map keeps beyond its owners was abandoned with its dialog, is on
\* its way out, or is there because there is no hook.
MapFollowsOwners ==
  \A n \in DOMAIN files :
    \/ ~hooked \/ n \in letgo
    \/ n \in DOMAIN owners /\ owners[n] # {}
    \/ \E k \in Dialogs : n \in Range(dialog[k].ids)
                          /\ (n \notin DOMAIN owners)

FilesStayOpenable == TypeOK /\ OwnedIsFound /\ DescriptorsOwnedOnce /\ MapFollowsOwners
=============================================================================
